------------------------- MODULE MCCriticalSections -------------------------
(* Four priority levels (NVIC_PRIO_BITS = 2), one handler per level, and   *)
(* idle.  The resources have ceilings below, at the middle of and at the   *)
(* top of the hardware's range, so nested locks mix BASEPRI and PRIMASK.   *)
EXTENDS CriticalSections, TLC

CONSTANTS idle, h1, h2a, h2b, h3, h4, x, y, z, lf

MCHandlers == {h1, h2a, h2b, h3, h4}
MCPriority ==
    (idle :> 0) @@ (h1 :> 1) @@ (h2a :> 2) @@ (h2b :> 2) @@ (h3 :> 3) @@ (h4 :> 4)
MCUses ==
    (idle :> {x}) @@ (h1 :> {x, y}) @@ (h2a :> {x, y, z, lf}) @@ (h2b :> {lf})
      @@ (h3 :> {y, z}) @@ (h4 :> {z})
MCCeiling == (x :> 2) @@ (y :> 3) @@ (z :> 4)

(* Without the extra handler of priority 2: the run with fairness. *)
MCHandlersFair == {h1, h2a, h3}
MCPriorityFair == (idle :> 0) @@ (h1 :> 1) @@ (h2a :> 2) @@ (h3 :> 4)
MCUsesFair == (idle :> {x}) @@ (h1 :> {x, z}) @@ (h2a :> {x, z}) @@ (h3 :> {z})
MCCeilingFair == (x :> 2) @@ (z :> 4)
=============================================================================
