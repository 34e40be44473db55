------------------------- MODULE AppGenerationProofs -------------------------
(***************************************************************************)
(* For every application, whatever its tasks and priorities: what the      *)
(* checks let through gets a dispatcher of its own for each priority in    *)
(* use, the hardware orders the handlers as the application does, and the  *)
(* queues are of the sizes that the generated code relies on.              *)
(***************************************************************************)
EXTENDS AppGeneration, Collections

(* What the stages have established, of an application that does not change. *)
Written ==
    /\ app.priority \in [Tasks -> Priorities]
    /\ app.extern \in Seq(Names)
    /\ \A i, j \in 1..Len(app.extern) : i # j => app.extern[i] # app.extern[j]
    /\ \A i \in 1..Len(app.extern) : app.extern[i] # app.binds
    /\ app.hardware \in Priorities

Zipped ==
    interrupts = [p \in {p \in Used : Rank(p) <= Len(app.extern)} |->
                     app.extern[Rank(p)]]

Configured ==
    PrioritiesSupported /\ nvic = [h \in Handlers |-> logical2hw(HandlerPriority(h))]

StageInv ==
    /\ stage \in {"checked", "analyzed", "generated"} => Valid
    /\ stage \in {"analyzed", "generated"} => Zipped
    /\ IF stage = "generated" THEN Used \subseteq DOMAIN interrupts /\ Configured
       ELSE nvic = <<>>

AppInv == Written /\ StageInv
-----------------------------------------------------------------------------
LEMMA InitApp == Init => AppInv
<1> SUFFICES ASSUME Init PROVE AppInv
  OBVIOUS
<1>1. app \in Apps
  BY DEF Init
<1>2. Written
  <2>1. /\ app.priority \in [Tasks -> Priorities]
        /\ app.extern \in Declarations /\ app.hardware \in Priorities
        /\ \A i \in DOMAIN app.extern : app.extern[i] # app.binds
    BY <1>1 DEF Apps
  <2>2. PICK n \in 0..3 : app.extern \in [1..n -> Names]
    BY <2>1 DEF Declarations
  <2>3. /\ app.extern \in Seq(Names) /\ DOMAIN app.extern = 1..Len(app.extern)
    BY <2>2
  <2>4. \A i, j \in DOMAIN app.extern : i # j => app.extern[i] # app.extern[j]
    BY <2>1 DEF Declarations
  <2>5. QED BY <2>1, <2>3, <2>4 DEF Written
<1>3. StageInv
  BY DEF Init, StageInv
<1>4. QED BY <1>2, <1>3 DEF AppInv

LEMMA NextApp == AppInv /\ [Next]_vars => AppInv'
<1> SUFFICES ASSUME AppInv, [Next]_vars PROVE AppInv'
  OBVIOUS
<1> USE DEF AppInv
<1>1. app' = app
  BY DEF Next, vars, check_app, analyze_app, codegen_app
<1>2. Written'
  BY <1>1 DEF Written
<1>3. /\ Used' = Used /\ Valid' = Valid
      /\ \A p : Rank(p)' = Rank(p)
  BY <1>1 DEF Used, Valid, Rank
<1>4. CASE UNCHANGED vars
  <2>1. interrupts' = interrupts /\ stage' = stage /\ nvic' = nvic
    BY <1>4 DEF vars
  <2>2. Zipped' = Zipped
    BY <1>1, <2>1 DEF Zipped, Used, Rank
  <2>3. Configured' = Configured
    BY <1>1, <2>1 DEF Configured, PrioritiesSupported, Handlers, HandlerPriority
  <2>4. QED BY <1>2, <1>3, <2>1, <2>2, <2>3 DEF StageInv
<1>5. CASE check_app
  <2>1. stage' \in {"checked", "rejected"} /\ (stage' = "checked" => Valid)
    BY <1>5 DEF check_app
  <2>2. nvic' = <<>>
    BY <1>5 DEF check_app, StageInv
  <2>3. QED BY <1>2, <1>3, <2>1, <2>2 DEF StageInv
<1>6. CASE analyze_app
  <2>1. stage = "checked" /\ Valid /\ nvic' = <<>> /\ stage' = "analyzed"
    BY <1>6 DEF analyze_app, StageInv
  <2>2. Zipped'
    <3>1. interrupts' = [p \in {p \in Used : Rank(p) <= Len(app.extern)} |->
                            app.extern[Rank(p)]]
      BY <1>6 DEF analyze_app
    <3>2. QED BY <1>1, <3>1 DEF Zipped, Used, Rank
  <2>3. QED BY <1>2, <1>3, <2>1, <2>2 DEF StageInv
<1>7. CASE codegen_app
  <2>1. app' = app /\ interrupts' = interrupts
    BY <1>7 DEF codegen_app
  <2>2. /\ Zipped' = Zipped /\ PrioritiesSupported' = PrioritiesSupported
        /\ Handlers' = Handlers
        /\ \A h : HandlerPriority(h)' = HandlerPriority(h)
    BY <2>1 DEF Zipped, PrioritiesSupported, Handlers, HandlerPriority, Used, Rank
  <2>3. stage = "analyzed" /\ Valid /\ Zipped /\ nvic = <<>>
    BY <1>7 DEF codegen_app, StageInv
  <2>4. CASE stage' = "generated"
    <3>1. /\ Expected /\ PrioritiesSupported
          /\ nvic' = [h \in Handlers |-> logical2hw(HandlerPriority(h))]
      BY <1>7, <2>4 DEF codegen_app
    <3>2. Used \subseteq DOMAIN interrupts
      BY <3>1 DEF Expected
    <3>3. Configured'
      BY <2>2, <3>1, Zenon DEF Configured
    <3>4. QED BY <1>2, <1>3, <2>1, <2>2, <2>3, <2>4, <3>2, <3>3 DEF StageInv
  <2>5. CASE stage' # "generated"
    <3>1. nvic' = nvic /\ stage' \in {"panicked", "rejected"}
      BY <1>7, <2>5 DEF codegen_app
    <3>2. QED BY <1>2, <2>3, <3>1 DEF StageInv
  <2>6. QED BY <2>4, <2>5
<1>8. QED BY <1>4, <1>5, <1>6, <1>7 DEF Next

LEMMA Reached == Spec => []AppInv
BY InitApp, NextApp, PTL DEF Spec
-----------------------------------------------------------------------------
(* Ranks count from 1, and tell priorities apart. *)
LEMMA Ranks ==
    ASSUME Written
    PROVE  /\ IsFiniteSet(Used) /\ Used \subseteq 1..255
           /\ \A p \in Used : Rank(p) \in 1..Cardinality(Used)
           /\ \A p, q \in Used : p # q => Rank(p) # Rank(q)
<1>1. IsFiniteSet(Used) /\ Used \subseteq 1..255
  <2>0. Priorities \subseteq 1..255
    BY AppAssumption
  <2>1. Used \subseteq 1..255
    BY <2>0 DEF Used, Written
  <2>2. IsFiniteSet(1..255)
    <3>1. 1 \in Int /\ 255 \in Int
      OBVIOUS
    <3>2. QED BY <3>1, FS_Interval, Zenon
  <2>3. QED BY <2>1, <2>2, FS_Subset
<1> DEFINE Above(p) == {q \in Used : q >= p}
<1>2. \A p : Above(p) \subseteq Used /\ IsFiniteSet(Above(p))
  BY <1>1, FS_Subset
<1>3. \A p : Rank(p) = Cardinality(Above(p)) /\ Cardinality(Above(p)) \in Nat
  BY <1>2, FS_CardinalityType DEF Rank
<1>4. ASSUME NEW p \in Used PROVE Rank(p) \in 1..Cardinality(Used)
  <2>1. p \in Above(p)
    BY <1>1
  <2>2. Cardinality(Above(p)) # 0
    BY <1>2, <2>1, FS_EmptySet
  <2>3. Cardinality(Above(p)) <= Cardinality(Used) /\ Cardinality(Used) \in Nat
    BY <1>1, <1>2, FS_Subset, FS_CardinalityType
  <2> HIDE DEF Above
  <2>4. QED BY <1>3, <2>2, <2>3
<1>5. ASSUME NEW p \in Used, NEW q \in Used, p < q PROVE Rank(p) # Rank(q)
  <2>1. Above(q) \subseteq Above(p) /\ p \in Above(p) /\ p \notin Above(q)
    <3>1. \A r \in Used : r \in Int
      BY <1>1
    <3>2. \A r \in Used : r >= q => r >= p
      BY <1>5, <3>1
    <3>3. p >= p /\ ~(p >= q)
      BY <1>5, <3>1
    <3>4. QED BY <1>5, <3>2, <3>3
  <2> HIDE DEF Above
  <2>2. Cardinality(Above(q)) # Cardinality(Above(p))
    BY <1>2, <2>1, FS_Subset
  <2>3. QED BY <1>3, <2>2
<1>6. \A p, q \in Used : p # q => p < q \/ q < p
  BY <1>1
<1>7. QED BY <1>1, <1>4, <1>5, <1>6

LEMMA Assigned == AppInv => DispatchersAssigned
<1> SUFFICES ASSUME AppInv, stage \in {"analyzed", "generated"}
             PROVE  /\ DOMAIN interrupts = Used
                    /\ \A p \in Used : interrupts[p] \in Interrupts \ {app.binds}
                    /\ \A p, q \in Used : p # q => interrupts[p] # interrupts[q]
  BY DEF DispatchersAssigned
<1>1. Written /\ Valid /\ Zipped
  BY DEF AppInv, StageInv
<1>2. Len(app.extern) \in Nat /\ DOMAIN app.extern = 1..Len(app.extern)
  BY <1>1 DEF Written
<1>3. Cardinality(Used) \in Nat /\ Cardinality(Used) <= Len(app.extern)
  BY <1>1, Ranks, FS_CardinalityType DEF Valid
<1>4. \A p \in Used : Rank(p) \in 1..Len(app.extern)
  BY <1>1, <1>2, <1>3, Ranks
<1>5. interrupts = [p \in Used |-> app.extern[Rank(p)]]
  <2>1. {p \in Used : Rank(p) <= Len(app.extern)} = Used
    BY <1>2, <1>4
  <2>2. QED BY <1>1, <2>1 DEF Zipped
<1>6. \A i \in 1..Len(app.extern) : app.extern[i] \in Interrupts \ {app.binds}
  <2>1. \A i \in 1..Len(app.extern) : app.extern[i] \in Names
    BY <1>1 DEF Written
  <2>2. QED BY <1>1, <1>2, <2>1 DEF Valid, Written, Names
<1>7. \A p, q \in Used : p # q => app.extern[Rank(p)] # app.extern[Rank(q)]
  BY <1>1, <1>4, Ranks DEF Written
<1>8. QED BY <1>4, <1>5, <1>6, <1>7

(* A dispatcher of its own for every priority in use, on an interrupt that  *)
(* nothing else in the application handles.                                *)
THEOREM DispatchersAssignedHolds == Spec => []DispatchersAssigned
BY Reached, Assigned, PTL
-----------------------------------------------------------------------------
(* logical2hw turns the levels of every NVIC round. *)
LEMMA LevelsTurned ==
    /\ \A p, q \in 1..LEVELS : p > q <=> logical2hw(p) < logical2hw(q)
    /\ \A p \in 1..LEVELS : logical2hw(p) % (256 \div LEVELS) = 0
<1>1. LEVELS \in {2, 4, 8, 16, 32, 64, 128}
  BY AppAssumption
<1>2. CASE LEVELS = 2  BY <1>2 DEF logical2hw
<1>3. CASE LEVELS = 4  BY <1>3 DEF logical2hw
<1>4. CASE LEVELS = 8  BY <1>4 DEF logical2hw
<1>5. CASE LEVELS = 16  BY <1>5 DEF logical2hw
<1>6. CASE LEVELS = 32  BY <1>6 DEF logical2hw
<1>7. CASE LEVELS = 64  BY <1>7 DEF logical2hw
<1>8. CASE LEVELS = 128  BY <1>8 DEF logical2hw
<1>9. QED BY <1>1, <1>2, <1>3, <1>4, <1>5, <1>6, <1>7, <1>8

LEMMA HandlerPriorities ==
    ASSUME Written, Zipped, NEW k \in Handlers
    PROVE  HandlerPriority(k) \in 1..255
<1>1. Priorities \subseteq 1..255
  BY AppAssumption
<1>2. CASE k = app.binds
  BY <1>1, <1>2 DEF HandlerPriority, Written
<1>3. CASE k # app.binds
  <2>1. \E p \in DOMAIN interrupts : interrupts[p] = k
    BY <1>3 DEF Handlers
  <2>2. HandlerPriority(k) \in DOMAIN interrupts
    BY <1>3, <2>1, Zenon DEF HandlerPriority
  <2>3. DOMAIN interrupts \subseteq Used
    BY DEF Zipped
  <2>4. QED BY <2>2, <2>3, Ranks
<1>4. QED BY <1>2, <1>3

LEMMA Ordered == AppInv => HardwareOrder
<1> SUFFICES ASSUME AppInv, NEW g \in DOMAIN nvic, NEW h \in DOMAIN nvic
             PROVE  /\ HandlerPriority(g) > HandlerPriority(h) <=> nvic[g] < nvic[h]
                    /\ nvic[g] % (256 \div LEVELS) = 0
  BY DEF HardwareOrder
<1>1. CASE stage # "generated"
  <2>1. nvic = <<>>
    BY <1>1 DEF AppInv, StageInv
  <2>2. DOMAIN nvic = {}
    BY <2>1
  <2>3. QED BY <2>2
<1>2. CASE stage = "generated"
  <2>1. Written /\ Configured /\ Zipped
    BY <1>2 DEF AppInv, StageInv
  <2>2. nvic = [k \in Handlers |-> logical2hw(HandlerPriority(k))]
    BY <2>1 DEF Configured
  <2>3. /\ g \in Handlers /\ nvic[g] = logical2hw(HandlerPriority(g))
        /\ h \in Handlers /\ nvic[h] = logical2hw(HandlerPriority(h))
    BY <2>2
  <2>4. ASSUME NEW k \in Handlers PROVE HandlerPriority(k) \in 1..LEVELS
    <3>1. HandlerPriority(k) <= LEVELS
      BY <2>1 DEF Configured, PrioritiesSupported
    <3>2. HandlerPriority(k) \in 1..255
      BY <2>1, HandlerPriorities
    <3>3. LEVELS \in {2, 4, 8, 16, 32, 64, 128}
      BY AppAssumption
    <3>4. QED BY <3>1, <3>2, <3>3
  <2>5. QED BY <2>3, <2>4, LevelsTurned
<1>3. QED BY <1>1, <1>2

(* The NVIC orders the handlers as the application's priorities do, and no *)
(* handler is given the value of a level the hardware has not got.         *)
THEOREM HardwareOrderHolds == Spec => []HardwareOrder
BY Reached, Ordered, PTL
-----------------------------------------------------------------------------
(* The sizes are computed once, from sums that have been found to fit. *)
Sized ==
    IF stage = "generated"
    THEN /\ Expected
         /\ sizes = [fq |-> [t \in Tasks |-> capacity_typenum(app.capacity[t])],
                     rq |-> [p \in Used |-> capacity_typenum(
                                U8Sum(TotalCapacity(Channel(p))))],
                     tq |-> U8Sum(TotalCapacity(Tasks))]
    ELSE sizes = NoSizes

LEMMA CapacityIs == \A S : TotalCapacity(S) = Total(S, app.capacity)
BY DEF TotalCapacity, MapThenSumSet, MapThenFoldSet, Total, Summation, SumsUp, First

LEMMA NextSized == Sized /\ [Next]_vars => Sized'
<1> SUFFICES ASSUME Sized, [Next]_vars PROVE Sized'
  OBVIOUS
<1>1. app' = app
  BY DEF Next, vars, check_app, analyze_app, codegen_app
<1>2. /\ Used' = Used /\ TotalCapacity(Tasks)' = TotalCapacity(Tasks)
      /\ \A p : TotalCapacity(Channel(p))' = TotalCapacity(Channel(p))
  <2>1. Used' = Used /\ \A p : Channel(p)' = Channel(p)
    BY <1>1 DEF Used, Channel
  <2>2. ASSUME NEW S PROVE TotalCapacity(S)' = TotalCapacity(S)
    <3>1. TotalCapacity(S)' = Total(S, app'.capacity)
      BY DEF TotalCapacity, MapThenSumSet, MapThenFoldSet, Total, Summation, SumsUp,
             First
    <3>2. QED BY <1>1, <3>1, CapacityIs
  <2>3. ASSUME NEW p PROVE TotalCapacity(Channel(p))' = TotalCapacity(Channel(p))
    <3>1. TotalCapacity(Channel(p))' = Total(Channel(p)', app'.capacity)
      BY DEF TotalCapacity, MapThenSumSet, MapThenFoldSet, Total, Summation, SumsUp,
             First
    <3>2. QED BY <1>1, <2>1, <3>1, CapacityIs
  <2>4. QED BY <2>1, <2>2, <2>3
<1>3. interrupts' = interrupts => Expected' = Expected
  BY <1>1, <1>2 DEF Expected
<1>4. CASE UNCHANGED vars
  BY <1>1, <1>2, <1>3, <1>4 DEF vars, Sized
<1>5. CASE check_app
  BY <1>5 DEF check_app, Sized
<1>6. CASE analyze_app
  BY <1>6 DEF analyze_app, Sized
<1>7. CASE codegen_app
  <2>1. CASE Expected /\ PrioritiesSupported
    <3>1. /\ stage' = "generated" /\ Expected'
          /\ sizes' = [fq |-> [t \in Tasks |-> capacity_typenum(app.capacity[t])],
                       rq |-> [p \in Used |-> capacity_typenum(
                                  U8Sum(TotalCapacity(Channel(p))))],
                       tq |-> U8Sum(TotalCapacity(Tasks))]
      BY <1>3, <1>7, <2>1 DEF codegen_app
    <3>2. QED BY <1>1, <1>2, <3>1 DEF Sized
  <2>2. CASE ~(Expected /\ PrioritiesSupported)
    BY <1>7, <2>2 DEF codegen_app, Sized
  <2>3. QED BY <2>1, <2>2
<1>8. QED BY <1>4, <1>5, <1>6, <1>7 DEF Next

(* What an application that was written down adds up to. *)
LEMMA CapacityTyped ==
    ASSUME app \in Apps
    PROVE  \A t \in Tasks : app.capacity[t] \in 1..255
<1>1. Capacities \subseteq 1..255
  BY AppAssumption
<1>2. app.capacity \in [Tasks -> Capacities]
  BY DEF Apps
<1>3. QED BY <1>1, <1>2

LEMMA CapacitiesAdd ==
    ASSUME app \in Apps
    PROVE  \A S \in SUBSET Tasks : TotalCapacity(S) \in Nat
<1>1. \A t \in Tasks : app.capacity[t] \in Nat
  BY CapacityTyped
<1>2. ASSUME NEW S \in SUBSET Tasks PROVE Total(S, app.capacity) \in Nat
  <2>1. IsFiniteSet(S)
    BY AppAssumption, FS_Subset
  <2>2. \A t \in S : app.capacity[t] \in Nat
    BY <1>1
  <2>3. QED BY <2>1, <2>2, TotalIsNatural
<1>3. QED BY <1>2, CapacityIs

LEMMA RoundedUp ==
    ASSUME NEW c \in Int, Roundable(c)
    PROVE  capacity_typenum(c) >= c
<1> DEFINE P == {n \in PowersOfTwo : c <= n}
<1>1. P \in SUBSET Nat /\ P # {}
  BY DEF Roundable, PowersOfTwo
<1>2. \E n \in P : \A k \in P : n <= k
  <2> HIDE DEF P
  <2>1. QED BY <1>1, Least
<1>3. \E n \in PowersOfTwo : c <= n /\ \A k \in PowersOfTwo : c <= k => n <= k
  BY <1>2
<1>4. c <= capacity_typenum(c) /\ capacity_typenum(c) \in Int
  <2>1. capacity_typenum(c) \in PowersOfTwo /\ c <= capacity_typenum(c)
    BY <1>3, Zenon DEF capacity_typenum
  <2>2. QED BY <2>1 DEF PowersOfTwo
<1>5. QED BY <1>4

LEMMA LargeEnough ==
    ASSUME OverflowChecks, app \in Apps, Sized
    PROVE  QueuesLargeEnough
<1> SUFFICES ASSUME stage = "generated"
             PROVE  /\ \A t \in Tasks : sizes.fq[t] >= app.capacity[t]
                    /\ \A p \in Used : sizes.rq[p] >= TotalCapacity(Channel(p))
                    /\ sizes.tq >= TotalCapacity(Tasks)
  BY DEF QueuesLargeEnough
<1>1. /\ Expected
      /\ sizes = [fq |-> [t \in Tasks |-> capacity_typenum(app.capacity[t])],
                  rq |-> [p \in Used |-> capacity_typenum(
                             U8Sum(TotalCapacity(Channel(p))))],
                  tq |-> U8Sum(TotalCapacity(Tasks))]
  BY DEF Sized
<1>2. ASSUME NEW S \in SUBSET Tasks, SumFits(TotalCapacity(S))
      PROVE  TotalCapacity(S) \in Nat /\ U8Sum(TotalCapacity(S)) = TotalCapacity(S)
  <2> DEFINE n == TotalCapacity(S)
  <2>1. n \in Nat
    BY CapacitiesAdd
  <2>2. n <= 255
    BY <1>2 DEF SumFits
  <2> HIDE DEF n
  <2>3. n % 256 = n
    BY <2>1, <2>2
  <2>4. QED BY <2>1, <2>3 DEF U8Sum, n
<1>3. ASSUME NEW t \in Tasks PROVE sizes.fq[t] >= app.capacity[t]
  <2>1. app.capacity[t] \in Int
    BY CapacityTyped
  <2>2. Roundable(app.capacity[t])
    BY <1>1 DEF Expected
  <2>3. sizes.fq[t] = capacity_typenum(app.capacity[t])
    BY <1>1
  <2>4. QED BY <2>1, <2>2, <2>3, RoundedUp
<1>4. ASSUME NEW p \in Used PROVE sizes.rq[p] >= TotalCapacity(Channel(p))
  <2> DEFINE n == TotalCapacity(Channel(p))
  <2>1. SumFits(n) /\ Roundable(U8Sum(n))
    BY <1>1 DEF Expected
  <2>2. Channel(p) \in SUBSET Tasks
    BY DEF Channel
  <2>3. n \in Nat /\ U8Sum(n) = n
    BY <1>2, <2>1, <2>2
  <2>4. sizes.rq[p] = capacity_typenum(U8Sum(n))
    BY <1>1
  <2> HIDE DEF n
  <2>5. capacity_typenum(n) >= n
    BY <2>1, <2>3, RoundedUp
  <2>6. QED BY <2>3, <2>4, <2>5 DEF n
<1>5. sizes.tq >= TotalCapacity(Tasks)
  <2>1. /\ TotalCapacity(Tasks) \in Nat
        /\ U8Sum(TotalCapacity(Tasks)) = TotalCapacity(Tasks)
    BY <1>1, <1>2 DEF Expected
  <2>2. sizes.tq = TotalCapacity(Tasks)
    BY <1>1, <2>1
  <2>3. QED BY <2>1, <2>2
<1>6. QED BY <1>3, <1>4, <1>5

(* A macro built with overflow checks sizes the queues of every application *)
(* it expands for all that may be in them: the sums of capacities are taken *)
(* before they are rounded up, and those that do not fit stop the macro.    *)
THEOREM QueuesLargeEnoughHolds ==
    ASSUME OverflowChecks PROVE Spec => []QueuesLargeEnough
<1>1. Init => app \in Apps /\ Sized
  BY DEF Init, Sized
<1>2. app \in Apps /\ [Next]_vars => (app \in Apps)'
  BY DEF Next, vars, check_app, analyze_app, codegen_app
<1>3. QED BY <1>1, <1>2, NextSized, LargeEnough, PTL DEF Spec
-----------------------------------------------------------------------------
LEMMA NextTyped ==
    ASSUME AppInv, TypeOK, [Next]_vars
    PROVE  TypeOK'
<1>1. /\ app \in Apps
      /\ stage \in {"parsed", "checked", "analyzed", "generated", "rejected", "panicked"}
      /\ interrupts \in UNION {[S -> Names] : S \in SUBSET Priorities}
      /\ sizes.tq \in 0..255
      /\ \A h \in DOMAIN nvic : nvic[h] \in 0..255
  BY DEF TypeOK
<1>2. /\ Written /\ app' = app
      /\ stage' \in {"parsed", "checked", "analyzed", "generated", "rejected",
                     "panicked"}
  <2>1. Written /\ app' = app
    BY DEF AppInv, Next, vars, check_app, analyze_app, codegen_app
  <2>2. QED BY <1>1, <2>1 DEF Next, vars, check_app, analyze_app, codegen_app
<1>3. ASSUME UNCHANGED <<interrupts, sizes, nvic>> PROVE TypeOK'
  BY <1>1, <1>2, <1>3 DEF TypeOK
<1>4. CASE UNCHANGED vars
  BY <1>3, <1>4 DEF vars
<1>5. CASE check_app
  BY <1>3, <1>5 DEF check_app
<1>6. CASE analyze_app
  <2> DEFINE S == {p \in Used : Rank(p) <= Len(app.extern)}
  <2>1. S \in SUBSET Priorities
    BY <1>2 DEF Used, Written
  <2>2. \A p \in S : app.extern[Rank(p)] \in Names
    <3>1. \A p \in S : Rank(p) \in 1..Len(app.extern)
      <4>1. IsFiniteSet(Used)
        BY <1>2, Ranks
      <4>2. Cardinality(Used) \in Nat
        BY <4>1, FS_CardinalityType
      <4>3. \A p \in Used : Rank(p) \in 1..Cardinality(Used)
        BY <1>2, Ranks
      <4>4. Len(app.extern) \in Nat
        BY <1>2 DEF Written
      <4>5. QED BY <4>2, <4>3, <4>4
    <3>2. QED BY <1>2, <3>1 DEF Written
  <2>3. interrupts' = [p \in S |-> app.extern[Rank(p)]]
    BY <1>6 DEF analyze_app
  <2> HIDE DEF S
  <2>4. interrupts' \in [S -> Names]
    BY <2>2, <2>3
  <2>5. sizes' = sizes /\ nvic' = nvic
    BY <1>6 DEF analyze_app
  <2>6. interrupts' \in UNION {[R -> Names] : R \in SUBSET Priorities}
    BY <2>1, <2>4
  <2>7. QED BY <1>1, <1>2, <2>5, <2>6 DEF TypeOK
<1>7. CASE codegen_app
  <2>1. interrupts' = interrupts
    BY <1>7 DEF codegen_app
  <2>2. sizes' = sizes \/ sizes'.tq = U8Sum(TotalCapacity(Tasks))
    BY <1>7 DEF codegen_app
  <2>3. sizes'.tq \in 0..255
    <3> DEFINE n == TotalCapacity(Tasks)
    <3>1. n \in Nat
      BY <1>1, CapacitiesAdd
    <3> HIDE DEF n
    <3>2. n % 256 \in 0..255
      BY <3>1
    <3>3. QED BY <1>1, <2>2, <3>2 DEF U8Sum, n
  <2>4. nvic' = nvic \/ nvic' = [h \in Handlers |-> logical2hw(HandlerPriority(h))]
    BY <1>7 DEF codegen_app
  <2>5. \A h \in Handlers : logical2hw(HandlerPriority(h)) \in 0..255
    <3>1. Zipped
      BY <1>7 DEF codegen_app, AppInv, StageInv
    <3>2. ASSUME NEW p \in 1..255 PROVE logical2hw(p) \in 0..255
      <4>1. LEVELS \in {2, 4, 8, 16, 32, 64, 128}
        BY AppAssumption
      <4> DEFINE n == (LEVELS - p) * (256 \div LEVELS)
      <4>2. n \in Int
        BY <4>1
      <4> HIDE DEF n
      <4>3. n % 256 \in 0..255
        BY <4>2
      <4>4. QED BY <4>3 DEF logical2hw, n
    <3>3. ASSUME NEW h \in Handlers PROVE HandlerPriority(h) \in 1..255
      BY <1>2, <3>1, HandlerPriorities
    <3>4. QED BY <3>2, <3>3, Zenon
  <2>6. \A h \in DOMAIN nvic' : nvic'[h] \in 0..255
    <3>1. CASE nvic' = nvic
      BY <1>1, <3>1
    <3>2. CASE nvic' = [h \in Handlers |-> logical2hw(HandlerPriority(h))]
      BY <2>5, <3>2, Zenon
    <3>3. QED BY <2>4, <3>1, <3>2
  <2>7. QED BY <1>1, <1>2, <2>1, <2>3, <2>6 DEF TypeOK
<1>8. QED BY <1>4, <1>5, <1>6, <1>7 DEF Next

(* Every value the expansion computes is one of its type: names of handlers *)
(* for priorities, and sizes and priority registers of eight bits.          *)
THEOREM TypeCorrect == Spec => []TypeOK
<1>1. Init => TypeOK
  <2> SUFFICES ASSUME Init PROVE TypeOK
    OBVIOUS
  <2>1. interrupts \in [{} -> Names] /\ DOMAIN nvic = {}
    BY DEF Init
  <2>2. interrupts \in UNION {[S -> Names] : S \in SUBSET Priorities}
    BY <2>1
  <2>3. app \in Apps /\ stage = "parsed"
    BY DEF Init
  <2>4. sizes.tq \in 0..255
    BY DEF Init, NoSizes
  <2>5. \A h \in DOMAIN nvic : nvic[h] \in 0..255
    BY <2>1
  <2>6. QED BY <2>2, <2>3, <2>4, <2>5 DEF TypeOK
<1>2. AppInv /\ TypeOK /\ [Next]_vars => TypeOK'
  BY NextTyped
<1>3. QED BY <1>1, <1>2, Reached, PTL DEF Spec
-----------------------------------------------------------------------------
(* What the code generator takes for granted of the capacities: that each  *)
(* queue has a size a u8 can round up, and that all messages are counted   *)
(* by a u8.                                                                *)
Fits ==
    /\ \A t \in Tasks : app.capacity[t] <= 128
    /\ \A p \in Used : TotalCapacity(Channel(p)) <= 128
    /\ TotalCapacity(Tasks) <= 255

(* Up to 128 a number is what it is as a u8 and has a size. *)
LEMMA SmallFits ==
    ASSUME NEW n \in Nat, n <= 128
    PROVE  SumFits(n) /\ U8Sum(n) = n /\ Roundable(n)
BY DEF SumFits, U8Sum, Roundable, PowersOfTwo

LEMMA FittingExpected ==
    ASSUME app \in Apps, AppInv, stage = "analyzed", Fits
    PROVE  Expected
<1>1. Used \subseteq DOMAIN interrupts
  <2>1. DOMAIN interrupts = Used
    BY Assigned DEF DispatchersAssigned
  <2>2. QED BY <2>1
<1>2. SumFits(TotalCapacity(Tasks))
  BY DEF Fits, SumFits
<1>3. \A t \in Tasks : Roundable(app.capacity[t])
  <2>1. ASSUME NEW t \in Tasks PROVE Roundable(app.capacity[t])
    <3>1. app.capacity[t] \in Nat /\ app.capacity[t] <= 128
      BY CapacityTyped DEF Fits
    <3>2. QED BY <3>1, SmallFits
  <2>2. QED BY <2>1
<1>4. ASSUME NEW p \in Used
      PROVE  SumFits(TotalCapacity(Channel(p))) /\ Roundable(U8Sum(TotalCapacity(Channel(p))))
  <2> DEFINE n == TotalCapacity(Channel(p))
  <2>1. n \in Nat
    <3>1. Channel(p) \in SUBSET Tasks
      BY DEF Channel
    <3>2. QED BY <3>1, CapacitiesAdd
  <2>2. n <= 128
    BY DEF Fits
  <2> HIDE DEF n
  <2>3. SumFits(n) /\ Roundable(U8Sum(n))
    BY <2>1, <2>2, SmallFits
  <2>4. QED BY <2>3 DEF n
<1>5. QED BY <1>1, <1>2, <1>3, <1>4 DEF Expected

(* What does not change keeps its sums. *)
LEMMA FitsKept == ASSUME app' = app PROVE Fits' = Fits
<1>1. Used' = Used /\ \A p : Channel(p)' = Channel(p)
  BY DEF Used, Channel
<1>2. ASSUME NEW S PROVE TotalCapacity(S)' = TotalCapacity(S)
  <2>1. TotalCapacity(S)' = Total(S, app'.capacity)
    BY DEF TotalCapacity, MapThenSumSet, MapThenFoldSet, Total, Summation, SumsUp, First
  <2>2. QED BY <2>1, CapacityIs
<1>3. ASSUME NEW p PROVE TotalCapacity(Channel(p))' = TotalCapacity(Channel(p))
  <2>1. TotalCapacity(Channel(p))' = Total(Channel(p)', app'.capacity)
    BY DEF TotalCapacity, MapThenSumSet, MapThenFoldSet, Total, Summation, SumsUp, First
  <2>2. QED BY <1>1, <2>1, CapacityIs
<1>4. TotalCapacity(Tasks)' = TotalCapacity(Tasks)
  BY <1>2
<1>5. QED BY <1>1, <1>3, <1>4 DEF Fits

(* The checks made before the code generator runs are enough for all that  *)
(* it takes for granted, except about capacities, which nothing checks: it *)
(* never panics on an application whose capacities fit, with or without    *)
(* overflow checks.                                                        *)
THEOREM NeverPanicsHolds == Spec => [](Fits => NeverPanics)
<1> DEFINE I == app \in Apps /\ (Fits => NeverPanics)
<1>1. Init => I
  BY DEF Init, NeverPanics
<1>2. AppInv /\ I /\ [Next]_vars => I'
  <2> SUFFICES ASSUME AppInv, I, [Next]_vars PROVE I'
    OBVIOUS
  <2>1. app' = app
    BY DEF Next, vars, check_app, analyze_app, codegen_app
  <2>2. ASSUME Fits, stage # "panicked" PROVE stage' # "panicked"
    <3>1. CASE stage' = stage
      BY <2>2, <3>1
    <3>2. CASE check_app \/ analyze_app
      BY <3>2 DEF check_app, analyze_app
    <3>3. CASE codegen_app
      <4>1. Expected
        BY <2>2, <3>3, FittingExpected DEF codegen_app
      <4>2. QED BY <3>3, <4>1 DEF codegen_app
    <3>4. QED BY <3>1, <3>2, <3>3 DEF Next, vars
  <2>3. QED BY <2>1, <2>2, FitsKept DEF NeverPanics
<1>3. I => (Fits => NeverPanics)
  OBVIOUS
<1> HIDE DEF I
<1>4. QED BY <1>1, <1>2, <1>3, Reached, PTL DEF Spec

(* And it expands no other, if it is built with overflow checks: what is   *)
(* generated fits.                                                         *)
THEOREM GeneratedFits ==
    ASSUME OverflowChecks PROVE Spec => [](stage = "generated" => Fits)
<1>1. Init => app \in Apps /\ Sized
  BY DEF Init, Sized
<1>2. app \in Apps /\ [Next]_vars => (app \in Apps)'
  BY DEF Next, vars, check_app, analyze_app, codegen_app
<1>3. ASSUME app \in Apps, Sized, stage = "generated" PROVE Fits
  <2>1. Expected
    BY <1>3 DEF Sized
  <2>2. TotalCapacity(Tasks) <= 255
    BY <2>1 DEF Expected, SumFits
  <2>3. \A t \in Tasks : app.capacity[t] <= 128
    BY <1>3, <2>1, CapacityTyped DEF Expected, Roundable, PowersOfTwo
  <2>4. ASSUME NEW p \in Used PROVE TotalCapacity(Channel(p)) <= 128
    <3> DEFINE n == TotalCapacity(Channel(p))
    <3>1. Channel(p) \in SUBSET Tasks
      BY DEF Channel
    <3>2. n \in Nat
      BY <1>3, <3>1, CapacitiesAdd
    <3>3. n <= 255 /\ Roundable(U8Sum(n))
      BY <2>1 DEF Expected, SumFits
    <3> HIDE DEF n
    <3>4. n % 256 = n
      BY <3>2, <3>3
    <3>5. n <= 128
      BY <3>2, <3>3, <3>4 DEF U8Sum, Roundable, PowersOfTwo
    <3>6. QED BY <3>5 DEF n
  <2>5. QED BY <2>2, <2>3, <2>4 DEF Fits
<1>4. QED BY <1>1, <1>2, <1>3, NextSized, PTL DEF Spec

-----------------------------------------------------------------------------
(* The rings of the generated queues, with their counters of eight bits:   *)
(* what SoftwareTasks assumes of them.                                     *)
Ring == INSTANCE SpscQueue WITH Wrap <- 256

LEMMA OneSize ==
    ASSUME NEW c \in 1..128, NEW n \in PowersOfTwo, NEW m \in PowersOfTwo,
           c <= n, \A k \in PowersOfTwo : c <= k => n <= k,
           m >= c /\ m < 2 * c
    PROVE  n = m
<1>1. n <= m
  OBVIOUS
<1>2. n \in {1, 2, 4, 8, 16, 32, 64, 128} /\ m \in {1, 2, 4, 8, 16, 32, 64, 128}
  BY DEF PowersOfTwo
<1>3. m < 2 * n
  BY <1>2
<1>4. QED BY <1>1, <1>2, <1>3

LEMMA RingsOf ==
    ASSUME NEW c \in 1..128
    PROVE  /\ capacity_typenum(c) = Ring!RingSize(c)
           /\ Ring!RingSize(c) \in PowersOfTwo /\ Ring!RingSize(c) >= c
<1> DEFINE n == capacity_typenum(c)
           m == Ring!RingSize(c)
<1>1. \E k \in PowersOfTwo : c <= k /\ \A j \in PowersOfTwo : c <= j => k <= j
  <2> DEFINE P == {k \in PowersOfTwo : c <= k}
  <2>1. P \in SUBSET Nat /\ P # {}
    BY DEF PowersOfTwo
  <2>2. \E k \in P : \A j \in P : k <= j
    <3> HIDE DEF P
    <3>1. QED BY <2>1, Least
  <2>3. QED BY <2>2
<1>2. n \in PowersOfTwo /\ c <= n /\ \A k \in PowersOfTwo : c <= k => n <= k
  BY <1>1, Zenon DEF capacity_typenum
<1>3. \E k \in {1, 2, 4, 8, 16, 32, 64, 128} : k >= c /\ k < 2 * c
  OBVIOUS
<1>4. m \in {1, 2, 4, 8, 16, 32, 64, 128} /\ m >= c /\ m < 2 * c
  BY <1>3, Zenon DEF Ring!RingSize
<1>5. m \in PowersOfTwo
  BY <1>4 DEF PowersOfTwo
<1> HIDE DEF n, m
<1>6. n = m
  BY <1>2, <1>4, <1>5, OneSize
<1>7. QED BY <1>4, <1>5, <1>6 DEF n, m

(* What ContextAssumption and RingAssumption of SoftwareTasks ask for.     *)
RingsFit ==
    stage = "generated" =>
       \A t \in Tasks :
          /\ app.capacity[t] \in 1..128
          /\ sizes.fq[t] = Ring!RingSize(app.capacity[t])
          /\ app.capacity[t] < 256 /\ 256 % sizes.fq[t] = 0

(* The rings that are generated are those SoftwareTasks and SpscQueue are  *)
(* about: a capacity is at most 128, its queue is the next power of two,   *)
(* and both suit counters of eight bits, so that a full queue does not     *)
(* look like an empty one and positions go round with the counters.  What  *)
(* the theorems of SoftwareTasks assume is so in what is generated.        *)
THEOREM RingsFitHolds == Spec => []RingsFit
<1>1. Init => app \in Apps /\ Sized
  BY DEF Init, Sized
<1>2. app \in Apps /\ [Next]_vars => (app \in Apps)'
  BY DEF Next, vars, check_app, analyze_app, codegen_app
<1>3. ASSUME app \in Apps, Sized PROVE RingsFit
  <2> SUFFICES ASSUME stage = "generated", NEW t \in Tasks
               PROVE  /\ app.capacity[t] \in 1..128
                      /\ sizes.fq[t] = Ring!RingSize(app.capacity[t])
                      /\ app.capacity[t] < 256 /\ 256 % sizes.fq[t] = 0
    BY DEF RingsFit
  <2> DEFINE c == app.capacity[t]
  <2>1. c \in 1..128
    BY <1>3, CapacityTyped DEF Sized, Expected, Roundable, PowersOfTwo
  <2>2. sizes.fq[t] = capacity_typenum(c)
    BY <1>3 DEF Sized
  <2> HIDE DEF c
  <2>3. /\ sizes.fq[t] = Ring!RingSize(c)
        /\ sizes.fq[t] \in {1, 2, 4, 8, 16, 32, 64, 128}
    BY <2>1, <2>2, RingsOf DEF PowersOfTwo
  <2>4. 256 % sizes.fq[t] = 0
    BY <2>3
  <2>5. QED BY <2>1, <2>3, <2>4 DEF c
<1>4. QED BY <1>1, <1>2, <1>3, NextSized, PTL DEF Spec
=============================================================================
