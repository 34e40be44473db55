-------------------------- MODULE MCSoftwareTasks --------------------------
(* Two tasks of priority 1, called from idle (0), from a task of priority  *)
(* 2 that preempts their dispatcher, and from one another.                 *)
EXTENDS SoftwareTasks, TLC

CONSTANTS t1, t2, m1, m2, k1, k2, idle, high, dispatcher, timer

MCPriority == (idle :> 0) @@ (dispatcher :> 1) @@ (high :> 2) @@ (timer :> 2)

(* Markers and messages are only compared with one another. *)
MCSymmetry == Permutations(Markers) \cup Permutations(Messages)

MCCapacity == t1 :> 2
MCCapacityFair == (t1 :> 1) @@ (t2 :> 1)
=============================================================================
