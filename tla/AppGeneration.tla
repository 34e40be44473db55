--------------------------- MODULE AppGeneration ---------------------------
(***************************************************************************)
(* What the #[app] macro decides when it expands an application: the       *)
(* checks of check.rs, the interrupts analyze.rs gives to the dispatchers, *)
(* the sizes of the queues the code generator asks for and the priorities  *)
(* that pre_init writes to the NVIC.  One behaviour per application.       *)
(***************************************************************************)
EXTENDS Integers, Sequences, FiniteSets, FiniteSetsExt

CONSTANTS
    Tasks,        (* software tasks                                        *)
    Priorities,   (* the `priority` arguments tried                        *)
    Capacities,   (* the `capacity` arguments tried, u8                    *)
    Interrupts,   (* names of device interrupts                            *)
    Exceptions,   (* names of the Cortex-M exceptions                      *)
    Fixed,        (* NonMaskableInt and HardFault                          *)
    LEVELS,       (* 1 << NVIC_PRIO_BITS                                   *)
    OverflowChecks  (* the macro is built with them                        *)

ASSUME AppAssumption ==
    /\ IsFiniteSet(Tasks)
    /\ Priorities \subseteq 1..255 /\ Capacities \subseteq 1..255
    /\ Fixed \subseteq Exceptions /\ Interrupts \cap Exceptions = {}
    /\ LEVELS \in {2, 4, 8, 16, 32, 64, 128}
    /\ OverflowChecks \in BOOLEAN

Names == Interrupts \cup Exceptions

VARIABLES
    app,          (* what the developer wrote                              *)
    stage,        (* how far the expansion has come                        *)
    interrupts,   (* Analysis::interrupts, from priorities to names        *)
    sizes,        (* the capacities of the generated queues                *)
    nvic          (* the priorities written by pre_init                    *)

vars == <<app, stage, interrupts, sizes, nvic>>

(* rtic-syntax refuses an extern interrupt that a hardware task binds. *)
Declarations == {s \in UNION {[1..n -> Names] : n \in 0..3} :
                    \A i, j \in DOMAIN s : i # j => s[i] # s[j]}
Apps == {a \in [priority : [Tasks -> Priorities], capacity : [Tasks -> Capacities],
                extern : Declarations, binds : Names, hardware : Priorities] :
            \A i \in DOMAIN a.extern : a.extern[i] # a.binds}

NoSizes == [fq |-> <<>>, rq |-> <<>>, tq |-> 0]

Init ==
    /\ app \in Apps
    /\ stage = "parsed"
    /\ interrupts = <<>> /\ sizes = NoSizes /\ nvic = <<>>

-----------------------------------------------------------------------------
Used == {app.priority[t] : t \in Tasks}
Channel(p) == {t \in Tasks : app.priority[t] = p}
TotalCapacity(S) == MapThenSumSet(LAMBDA t : app.capacity[t], S)

(* Mutant: the number of extern interrupts is not checked. *)
Valid_NoCount ==
    /\ \A i \in DOMAIN app.extern : app.extern[i] \notin Exceptions
    /\ app.binds \notin Fixed

(* check::app *)
Valid ==
    /\ \A i \in DOMAIN app.extern : app.extern[i] \notin Exceptions
    /\ Cardinality(Used) <= Len(app.extern)
    /\ app.binds \notin Fixed

check_app ==
    /\ stage = "parsed"
    /\ stage' = IF Valid THEN "checked" ELSE "rejected"
    /\ UNCHANGED <<app, interrupts, sizes, nvic>>

(* analyze::app: the priorities from the highest down, zipped with the     *)
(* extern interrupts in the order of their declaration.                    *)
Rank(p) == Cardinality({q \in Used : q >= p})

analyze_app ==
    /\ stage = "checked"
    /\ interrupts' = [p \in {p \in Used : Rank(p) <= Len(app.extern)} |->
                         app.extern[Rank(p)]]
    /\ stage' = "analyzed"
    /\ UNCHANGED <<app, sizes, nvic>>

(* util::capacity_typenum, rounded up: a power of two that fits a u8. *)
PowersOfTwo == {1, 2, 4, 8, 16, 32, 64, 128}
Roundable(c) == \E n \in PowersOfTwo : c <= n

(* Mutant: rounds down. *)
capacity_typenum_Down(c) ==
    CHOOSE n \in PowersOfTwo : n <= c /\ \A k \in PowersOfTwo : k <= c => k <= n

capacity_typenum(c) ==
    CHOOSE n \in PowersOfTwo : c <= n /\ \A k \in PowersOfTwo : c <= k => n <= k

(* A sum of u8: overflow is an error, or wraps without the checks. *)
SumFits(n) == OverflowChecks => n <= 255
U8Sum(n) == n % 256

(* Mutant: the levels of the hardware are not turned round. *)
logical2hw_Straight(p) == p * (256 \div LEVELS)

logical2hw(p) == ((LEVELS - p) * (256 \div LEVELS)) % 256

(* Handlers that pre_init configures: dispatchers and the hardware task. *)
Handlers == {interrupts[p] : p \in DOMAIN interrupts} \cup {app.binds}
HandlerPriority(h) ==
    IF h = app.binds THEN app.hardware
    ELSE CHOOSE p \in DOMAIN interrupts : interrupts[p] = h

(* The code generator gives up where it `expect`s what is not so. *)
Expected ==
    /\ Used \subseteq DOMAIN interrupts
    /\ SumFits(TotalCapacity(Tasks))
    /\ \A t \in Tasks : Roundable(app.capacity[t])
    /\ \A p \in Used : /\ SumFits(TotalCapacity(Channel(p)))
                       /\ Roundable(U8Sum(TotalCapacity(Channel(p))))

(* Mutant: a priority one above the highest level is let through. *)
PrioritiesSupported_OffByOne == \A h \in Handlers : HandlerPriority(h) <= LEVELS + 1

(* The compile-time assertion on every priority, an array length. *)
PrioritiesSupported == \A h \in Handlers : HandlerPriority(h) <= LEVELS

(* codegen::app, for an application with a monotonic. *)
codegen_app ==
    /\ stage = "analyzed"
    /\ IF ~Expected THEN stage' = "panicked" /\ UNCHANGED <<sizes, nvic>>
       ELSE IF ~PrioritiesSupported
       THEN stage' = "rejected" /\ UNCHANGED <<sizes, nvic>>
       ELSE /\ stage' = "generated"
            /\ sizes' = [fq |-> [t \in Tasks |-> capacity_typenum(app.capacity[t])],
                         rq |-> [p \in Used |-> capacity_typenum(
                                    U8Sum(TotalCapacity(Channel(p))))],
                         tq |-> U8Sum(TotalCapacity(Tasks))]
            /\ nvic' = [h \in Handlers |-> logical2hw(HandlerPriority(h))]
    /\ UNCHANGED <<app, interrupts>>

Next == check_app \/ analyze_app \/ codegen_app

Spec == Init /\ [][Next]_vars

-----------------------------------------------------------------------------
TypeOK ==
    /\ app \in Apps
    /\ stage \in {"parsed", "checked", "analyzed", "generated", "rejected", "panicked"}
    /\ interrupts \in UNION {[S -> Names] : S \in SUBSET Priorities}
    /\ sizes.tq \in 0..255
    /\ \A h \in DOMAIN nvic : nvic[h] \in 0..255

(* Every priority with software tasks has a dispatcher of its own, on an   *)
(* interrupt that nothing else in the application handles: the checks made *)
(* before are enough for the assignment and for the lookups made after it. *)
DispatchersAssigned ==
    stage \in {"analyzed", "generated"} =>
       /\ DOMAIN interrupts = Used
       /\ \A p \in Used : interrupts[p] \in Interrupts \ {app.binds}
       /\ \A p, q \in Used : p # q => interrupts[p] # interrupts[q]

(* The hardware orders the handlers as their priorities do, and not one of *)
(* them gets the value of a level that does not exist.                     *)
HardwareOrder ==
    \A g, h \in DOMAIN nvic :
       /\ HandlerPriority(g) > HandlerPriority(h) <=> nvic[g] < nvic[h]
       /\ nvic[g] % (256 \div LEVELS) = 0

(* No queue of the generated program is smaller than what may be in it at  *)
(* one time, so that "once we have claimed a free slot in the INPUTS       *)
(* buffer we are guaranteed to be able to insert the task in the timer     *)
(* queue", and in the ready queue.                                         *)
QueuesLargeEnough ==
    stage = "generated" =>
       /\ \A t \in Tasks : sizes.fq[t] >= app.capacity[t]
       /\ \A p \in Used : sizes.rq[p] >= TotalCapacity(Channel(p))
       /\ sizes.tq >= TotalCapacity(Tasks)

(* An application that passes the checks is expanded or refused with an    *)
(* error: the `expect`s of the code generator, "UNREACHABLE", hold.        *)
NeverPanics == stage # "panicked"
=============================================================================
