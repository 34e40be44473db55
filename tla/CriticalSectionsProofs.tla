------------------------ MODULE CriticalSectionsProofs ------------------------
(***************************************************************************)
(* For every set of handlers, every assignment of priorities and resources *)
(* the assumptions of CriticalSections allow, and both kinds of target:    *)
(* type correctness, mutual exclusion, that no contender of a locked       *)
(* resource starts, that handlers restore BASEPRI, and that nothing above  *)
(* the ceilings held is masked.                                            *)
(***************************************************************************)
EXTENDS CriticalSections, SequenceTheorems, TLAPS

(* BASEPRI as context c saw it when it last executed. *)
View(c) == IF c = running THEN basepri ELSE saved[c]

(* The value `view` of BASEPRI masks what dynamic priority `level` of      *)
(* context c must mask; its static priority needs no help from BASEPRI.    *)
Masks(level, c, view) ==
    level = PRIORITY[c] \/ (level \in 1..(LEVELS - 1) /\ view = logical2hw(level))

(* The dynamic priority inside the i-th section of c, before the next one. *)
After(c, i) == IF i < Depth(c) THEN locks[c][i + 1].current ELSE priority[c]

(* The active contexts are stacked by strictly increasing priority. *)
StackInv ==
    /\ Idle \in active /\ running \in active
    /\ pc[Idle] = "body"
    /\ \A a, b \in active : PRIORITY[a] = PRIORITY[b] => a = b
    /\ \A a \in active : PRIORITY[a] <= PRIORITY[running]
    /\ \A t \in active \ {Idle} :
          /\ preempted[t] \in active
          /\ PRIORITY[preempted[t]] < PRIORITY[t]
          /\ \A a \in active : PRIORITY[a] < PRIORITY[t]
                                 => PRIORITY[a] <= PRIORITY[preempted[t]]

(* The nested sections of c: each runs at no less than its ceiling, and    *)
(* what the inner ones saved is at least the ceilings of the outer ones.   *)
FrameInv(c) ==
    /\ c \notin active \/ pc[c] # "body" => locks[c] = <<>>
    /\ locks[c] = <<>> => priority[c] = PRIORITY[c]
    /\ locks[c] # <<>> => locks[c][1].current = PRIORITY[c]
    /\ PRIORITY[c] <= priority[c]
    /\ priority[c] # MaxPriority => Masks(priority[c], c, View(c))
    /\ \A i \in 1..Depth(c) :
          LET f == locks[c][i] IN
          /\ f.res \in Uses[c]
          /\ CEILING[f.res] <= priority[c]
          /\ PRIORITY[c] <= f.current
          /\ f.via # "none" => f.current < CEILING[f.res]
          /\ f.via = "none" => After(c, i) = f.current
          /\ f.via = "basepri" => Armv7m /\ After(c, i) # MaxPriority
          /\ f.via = "free" =>
                /\ priority[c] = MaxPriority /\ f.mask = FALSE
                /\ Masks(f.current, c, View(c))
    /\ \A i, j \in 1..Depth(c) : i < j =>
          /\ CEILING[locks[c][i].res] <= locks[c][j].current
          /\ locks[c][i].via = "free" => locks[c][j].via = "none"

(* Whatever c holds, contexts that preempted it are above its level. *)
LevelInv ==
    \A a, c \in active : PRIORITY[c] < PRIORITY[a] => priority[c] < PRIORITY[a]

(* PRIMASK is set exactly while the running context is at the top. *)
MaskInv ==
    \A c \in active : priority[c] = MaxPriority <=> (c = running /\ primask)

(* Where the value BASEPRI had when a handler started is kept. *)
RestoreInv ==
    \A t \in active \ {Idle} :
       LET was == saved[preempted[t]] IN
       /\ PRIORITY[t] = 1 => was = 0
       /\ pc[t] # "body" => View(t) = was
       /\ pc[t] = "body" /\ Armv7m /\ PRIORITY[t] # 1 => initial[t] = was

(* BASEPRI only ever holds the encoding of a logical priority. *)
HardwareInv ==
    /\ \E l \in 0..LEVELS : basepri = logical2hw(l)
    /\ \A c \in Contexts : \E l \in 0..LEVELS : saved[c] = logical2hw(l)
    /\ ~Armv7m => basepri = 0 /\ saved = [c \in Contexts |-> 0]

Inv ==
    /\ TypeOK
    /\ StackInv
    /\ \A c \in Contexts : FrameInv(c)
    /\ LevelInv
    /\ MaskInv
    /\ RestoreInv
    /\ HardwareInv
-----------------------------------------------------------------------------
(* The encoding fits a byte, is 0 ("no masking") at both ends of the range *)
(* and reverses the order of the levels in between.                        *)
LEMMA HardwareLevels ==
    /\ LEVELS \in 2..128
    /\ \A l \in 0..LEVELS : logical2hw(l) \in U8
    /\ logical2hw(0) = 0 /\ logical2hw(LEVELS) = 0
    /\ \A l \in 1..(LEVELS - 1) : logical2hw(l) # 0
    /\ \A l, m \in 1..LEVELS : logical2hw(l) < logical2hw(m) <=> m < l
<1>0. ASSUME NEW k \in {2, 4, 8, 16, 32, 64, 128}, NEW l \in 1..k
      PROVE  /\ ((k - l) * (256 \div k)) % 256 = (k - l) * (256 \div k)
             /\ (k - l) * (256 \div k) \in 0..255
  <2>1. CASE k = 2   BY <2>1
  <2>2. CASE k = 4   BY <2>2
  <2>3. CASE k = 8   BY <2>3
  <2>4. CASE k = 16  BY <2>4
  <2>5. CASE k = 32  BY <2>5
  <2>6. CASE k = 64  BY <2>6
  <2>7. CASE k = 128 BY <2>7
  <2>8. QED BY <2>1, <2>2, <2>3, <2>4, <2>5, <2>6, <2>7
<1>1. LEVELS \in 2..128  BY LevelsAssumption
<1>2. \A l \in 1..LEVELS : /\ logical2hw(l) = (LEVELS - l) * (256 \div LEVELS)
                           /\ logical2hw(l) \in U8
  BY <1>0, LevelsAssumption DEF logical2hw, U8
<1>3. logical2hw(0) = 0
  BY LevelsAssumption DEF logical2hw
<1>4. logical2hw(LEVELS) = 0
  BY LevelsAssumption DEF logical2hw
<1>5. \A l, m \in 1..LEVELS : logical2hw(l) < logical2hw(m) <=> m < l
  <2>1. SUFFICES ASSUME NEW l \in 1..LEVELS, NEW m \in 1..LEVELS
                 PROVE  (LEVELS - l) * (256 \div LEVELS)
                           < (LEVELS - m) * (256 \div LEVELS) <=> m < l
    BY <1>2
  <2>2. QED BY LevelsAssumption
<1>6. \A l \in 1..(LEVELS - 1) : logical2hw(l) # 0
  <2>1. SUFFICES ASSUME NEW l \in 1..(LEVELS - 1)
                 PROVE  (LEVELS - l) * (256 \div LEVELS) # 0
    BY <1>1, <1>2
  <2>2. QED BY LevelsAssumption
<1>7. 0 \in U8  BY DEF U8
<1>8. \A l \in 0..LEVELS : l = 0 \/ l \in 1..LEVELS  BY <1>1
<1>9. QED BY <1>1, <1>2, <1>3, <1>4, <1>5, <1>6, <1>7, <1>8

(* The constants as the steps below use them. *)
LEMMA ConstantTypes ==
    /\ LEVELS \in 2..128
    /\ Idle \in Contexts /\ Handlers \subseteq Contexts
    /\ \A c \in Contexts : PRIORITY[c] \in 0..LEVELS /\ PRIORITY[c] \in U8
    /\ \A t \in Handlers : PRIORITY[t] \in 1..LEVELS
    /\ \A r \in Resources : CEILING[r] \in 0..LEVELS /\ CEILING[r] \in U8
    /\ 0 \in U8 /\ MaxPriority \in U8 /\ U8 \subseteq Int
BY LevelsAssumption, PriorityAssumption, ResourceAssumption
DEF Contexts, U8, MaxPriority

LEMMA ByteLevels == \A l \in U8 : logical2hw(l) \in U8
BY LevelsAssumption DEF logical2hw, U8

(* The sections of a context stay a sequence of frames. *)
LEMMA PushType ==
    ASSUME TypeOK, NEW c \in Contexts, NEW r \in Resources,
           NEW via \in {"none", "basepri", "free"}, Push(c, r, via)
    PROVE  locks' \in [Contexts -> Seq(Frame)]
<1>1. [res |-> r, current |-> priority[c], via |-> via, mask |-> primask] \in Frame
  BY DEF TypeOK, Frame
<1>2. QED BY <1>1 DEF Push, TypeOK

LEMMA PopType ==
    ASSUME TypeOK, NEW c \in Contexts, locks[c] # <<>>
    PROVE  /\ Pop(c) => locks' \in [Contexts -> Seq(Frame)]
           /\ Innermost(c) \in Frame
           /\ Innermost(c).current \in U8
           /\ Innermost(c).mask \in BOOLEAN
<1>1. locks[c] \in Seq(Frame) /\ Depth(c) \in Nat \ {0}
  BY DEF TypeOK, Depth
<1>2. Innermost(c) \in Frame
  BY <1>1 DEF Innermost, Depth
<1>3. SubSeq(locks[c], 1, Len(locks[c]) - 1) \in Seq(Frame)
  BY <1>1 DEF Depth
<1>4. Pop(c) => locks' \in [Contexts -> Seq(Frame)]
  BY <1>3 DEF Pop, TypeOK
<1>5. QED BY <1>2, <1>4 DEF Frame

LEMMA InitType == Init => TypeOK
<1>1. \A c \in Contexts : <<>> \in Seq(Frame) /\ PRIORITY[c] \in U8
  BY ConstantTypes
<1>2. Init => locks \in [Contexts -> Seq(Frame)] /\ priority \in [Contexts -> U8]
  BY <1>1 DEF Init
<1>3. Init => pc \in [Contexts -> {"entry", "body", "exit"}]
  BY DEF Init
<1>4. Init => /\ saved \in [Contexts -> U8] /\ initial \in [Handlers -> U8]
              /\ preempted \in [Handlers -> Contexts]
  BY ConstantTypes DEF Init
<1>5. Init => /\ pending \subseteq Handlers /\ active \subseteq Contexts
              /\ running \in Contexts /\ basepri \in U8 /\ primask \in BOOLEAN
  BY ConstantTypes DEF Init
<1>6. QED BY <1>2, <1>3, <1>4, <1>5 DEF TypeOK

LEMMA NextType == TypeOK /\ [Next]_vars => TypeOK'
<1>0. SUFFICES ASSUME TypeOK, [Next]_vars PROVE TypeOK'  OBVIOUS
<1> USE DEF TypeOK
<1>1. ASSUME NEW t \in Handlers, pend(t) PROVE TypeOK'
  BY <1>0, <1>1 DEF pend
<1>2. ASSUME NEW t \in Handlers, Take(t) PROVE TypeOK'
  BY <1>0, <1>2 DEF Take, Contexts
<1>3. ASSUME NEW t \in Handlers, RunEnter(t) PROVE TypeOK'
  BY <1>0, <1>3, ConstantTypes DEF RunEnter
<1>4. ASSUME NEW t \in Handlers, RunExit(t) PROVE TypeOK'
  BY <1>0, <1>4, ConstantTypes DEF RunExit
<1>5. ASSUME NEW t \in Handlers, Return(t) PROVE TypeOK'
  BY <1>0, <1>5, ConstantTypes DEF Return
<1>6. ASSUME NEW c \in Contexts, NEW r \in Resources, Lock(c, r) PROVE TypeOK'
  <2>1. locks' \in [Contexts -> Seq(Frame)]
    BY <1>0, <1>6, PushType DEF Lock, LockNone, LockBasepri, LockFreeSection
  <2>2. CASE LockNone(c, r)
    BY <1>0, <2>1, <2>2 DEF LockNone
  <2>3. CASE LockBasepri(c, r)
    <3>1. CEILING[r] \in U8 /\ logical2hw(CEILING[r]) \in U8
      BY ConstantTypes, ByteLevels
    <3>2. QED BY <1>0, <2>1, <2>3, <3>1 DEF LockBasepri
  <2>4. CASE LockFreeSection(c, r)
    BY <1>0, <2>1, <2>4, ConstantTypes DEF LockFreeSection
  <2>5. QED BY <1>6, <2>2, <2>3, <2>4 DEF Lock
<1>7. ASSUME NEW c \in Contexts, Unlock(c) PROVE TypeOK'
  <2>1. /\ locks' \in [Contexts -> Seq(Frame)]
        /\ Innermost(c).current \in U8
        /\ Innermost(c).mask \in BOOLEAN
    BY <1>0, <1>7, PopType
    DEF Unlock, UnlockNone, UnlockBasepri, UnlockFreeSection, CanUnlock
  <2>2. QED
    BY <1>0, <1>7, <2>1, ByteLevels
    DEF Unlock, UnlockNone, UnlockBasepri, UnlockFreeSection
<1>8. CASE UNCHANGED vars
  BY <1>0, <1>8 DEF vars
<1>9. QED
  BY <1>0, <1>1, <1>2, <1>3, <1>4, <1>5, <1>6, <1>7, <1>8 DEF Next

(* The variables keep their types. *)
THEOREM TypeCorrect == Spec => []TypeOK
BY InitType, NextType, PTL DEF Spec

-----------------------------------------------------------------------------
(* A context that keeps its sections, its level and its view of BASEPRI    *)
(* keeps its frame invariant; so does one that holds nothing.              *)
LEMMA FrameKept ==
    ASSUME NEW c \in Contexts, FrameInv(c), UNCHANGED <<locks[c], priority[c]>>,
           View(c)' = View(c),
           c \notin active' \/ pc'[c] # "body" => locks[c] = <<>>
    PROVE  FrameInv(c)'
BY DEF FrameInv, Depth, After

LEMMA FrameEmpty ==
    ASSUME NEW c \in Contexts, locks'[c] = <<>>, priority'[c] = PRIORITY[c]
    PROVE  FrameInv(c)'
<1>1. PRIORITY[c] \in 0..LEVELS /\ LEVELS \in 2..128
  BY ConstantTypes
<1>2. Depth(c)' = 0
  BY DEF Depth
<1>3. QED BY <1>1, <1>2 DEF FrameInv, Masks

LEMMA InvInit == Init => Inv
<1>0. SUFFICES ASSUME Init PROVE Inv  OBVIOUS
<1>1. TypeOK
  BY <1>0, InitType
<1>2. StackInv
  BY <1>0, ConstantTypes DEF Init, StackInv
<1>3. ASSUME NEW c \in Contexts PROVE FrameInv(c)
  <2>1. locks[c] = <<>> /\ priority[c] = PRIORITY[c] /\ Depth(c) = 0
    BY <1>0 DEF Init, Depth
  <2>2. PRIORITY[c] \in 0..LEVELS /\ LEVELS \in 2..128
    BY ConstantTypes
  <2>3. QED BY <2>1, <2>2 DEF FrameInv, Masks
<1>4. LevelInv /\ MaskInv /\ RestoreInv
  BY <1>0, ConstantTypes, PriorityAssumption
  DEF Init, LevelInv, MaskInv, RestoreInv, MaxPriority
<1>5. HardwareInv
  <2>1. 0 \in 0..LEVELS /\ logical2hw(0) = 0
    BY HardwareLevels
  <2>2. QED BY <1>0, <2>1 DEF Init, HardwareInv
<1>6. QED BY <1>1, <1>2, <1>3, <1>4, <1>5 DEF Inv

LEMMA InvPend == ASSUME Inv, NEW t \in Handlers, pend(t) PROVE Inv'
<1>1. TypeOK'
  BY NextType DEF Inv, Next
<1>2. UNCHANGED <<active, running, preempted, saved, pc, initial, priority,
                  locks, basepri, primask>>
  BY DEF pend
<1>3. ASSUME NEW c \in Contexts PROVE FrameInv(c)'
  BY <1>2, FrameKept DEF Inv, FrameInv, View
<1>4. QED
  BY <1>1, <1>2, <1>3
  DEF Inv, StackInv, LevelInv, MaskInv, RestoreInv, HardwareInv, View

(* The only masking a handler starts under is one that lets it through. *)
LEMMA TakeAbove ==
    ASSUME Inv, NEW t \in Handlers, Take(t)
    PROVE  /\ t \notin active /\ t # running
           /\ priority[running] < PRIORITY[t]
           /\ PRIORITY[t] = 1 => basepri = 0
<1>1. /\ running \in Contexts /\ running \in active /\ t \in Contexts
      /\ PRIORITY[running] \in 0..LEVELS /\ PRIORITY[t] \in 1..LEVELS
      /\ priority[running] \in U8 /\ LEVELS \in 2..128
  BY ConstantTypes DEF Inv, TypeOK, StackInv
<1>2. t \notin active /\ t # running
  BY <1>1 DEF Inv, StackInv, Take
<1>3. priority[running] # MaxPriority
  BY <1>1 DEF Inv, MaskInv, Take, Masked
<1>4. basepri # 0 => logical2hw(PRIORITY[t]) < basepri
  <2>1. basepri \in Int /\ logical2hw(PRIORITY[t]) \in Int
    <3>1. PRIORITY[t] \in 0..LEVELS
      BY <1>1
    <3>2. logical2hw(PRIORITY[t]) \in U8
      BY <3>1, HardwareLevels
    <3>3. basepri \in U8
      BY DEF Inv, TypeOK
    <3>4. QED BY <3>2, <3>3 DEF U8
  <2>2. QED BY <2>1 DEF Take, Masked
<1>5. priority[running] < PRIORITY[t]
  <2>1. Masks(priority[running], running, basepri)
    BY <1>1, <1>3 DEF Inv, FrameInv, View
  <2>2. CASE priority[running] = PRIORITY[running]
    BY <2>2 DEF Take
  <2>3. CASE priority[running] \in 1..(LEVELS - 1)
             /\ basepri = logical2hw(priority[running])
    <3>1. logical2hw(PRIORITY[t]) < logical2hw(priority[running])
      BY <1>4, <2>3, HardwareLevels
    <3>2. QED BY <1>1, <2>3, <3>1, HardwareLevels
  <2>4. QED BY <2>1, <2>2, <2>3 DEF Masks
<1>6. PRIORITY[t] = 1 => basepri = 0
  <2>1. SUFFICES ASSUME PRIORITY[t] = 1, basepri # 0 PROVE FALSE
    OBVIOUS
  <2>2. PICK l \in 0..LEVELS : basepri = logical2hw(l)
    BY DEF Inv, HardwareInv
  <2>3. l \in 1..LEVELS
    BY <1>1, <2>1, <2>2, HardwareLevels
  <2>4. logical2hw(1) < logical2hw(l)
    BY <1>4, <2>1, <2>2
  <2>5. QED BY <1>1, <2>3, <2>4, HardwareLevels
<1>7. QED BY <1>2, <1>5, <1>6

LEMMA InvTake == ASSUME Inv, NEW t \in Handlers, Take(t) PROVE Inv'
<1>1. TypeOK'
  BY NextType DEF Inv, Next
<1>2. /\ t \notin active /\ t # running
      /\ priority[running] < PRIORITY[t]
      /\ PRIORITY[t] = 1 => basepri = 0
  BY TakeAbove
<1>3. /\ running \in Contexts /\ running \in active
      /\ \A c \in Contexts : priority[c] \in U8 /\ PRIORITY[c] \in 0..LEVELS
      /\ active \subseteq Contexts /\ t \in Contexts /\ t # Idle
      /\ LEVELS \in 2..128 /\ U8 \subseteq Int
  BY ConstantTypes, PriorityAssumption DEF Inv, TypeOK, StackInv
<1>4. /\ active' = active \cup {t} /\ running' = t
      /\ PRIORITY[t] > PRIORITY[running]
      /\ preempted' = [preempted EXCEPT ![t] = running]
      /\ saved' = [saved EXCEPT ![running] = basepri]
      /\ pc' = [pc EXCEPT ![t] = "entry"]
      /\ UNCHANGED <<initial, priority, locks, basepri, primask>>
      /\ ~primask
  BY DEF Take, Masked
<1>5. /\ preempted \in [Handlers -> Contexts]
      /\ saved \in [Contexts -> U8]
      /\ pc \in [Contexts -> {"entry", "body", "exit"}]
  BY DEF Inv, TypeOK
<1>6. \A c \in active : View(c)' = View(c)
  BY <1>2, <1>3, <1>4, <1>5 DEF View
<1>7. StackInv'
  BY <1>2, <1>3, <1>4, <1>5 DEF Inv, StackInv
<1>8. ASSUME NEW c \in Contexts PROVE FrameInv(c)'
  <2>1. CASE c \in active
    BY <1>2, <1>4, <1>5, <1>6, <2>1, FrameKept DEF Inv, FrameInv
  <2>2. CASE c \notin active
    BY <1>4, <2>2, FrameEmpty DEF Inv, FrameInv
  <2>3. QED BY <2>1, <2>2
<1>9. locks[t] = <<>> /\ priority[t] = PRIORITY[t]
  BY <1>2, <1>3 DEF Inv, FrameInv
<1>10. LevelInv'
  <2>1. \A c \in active : priority[c] < PRIORITY[t]
    <3>1. SUFFICES ASSUME NEW c \in active, c # running
                   PROVE  priority[c] < PRIORITY[t]
      BY <1>2
    <3>2. PRIORITY[c] < PRIORITY[running]
      BY <1>3, <3>1 DEF Inv, StackInv
    <3>3. priority[c] < PRIORITY[running]
      BY <1>3, <3>2 DEF Inv, LevelInv
    <3>4. priority[c] \in Int /\ PRIORITY[running] \in Int /\ PRIORITY[t] \in Int
      BY <1>3 DEF U8
    <3>5. QED BY <1>4, <3>3, <3>4
  <2>2. \A c \in active : ~(PRIORITY[t] < PRIORITY[c])
    BY <1>3, <1>4 DEF Inv, StackInv
  <2>3. PRIORITY[t] \in Int
    BY <1>3
  <2>4. \A a, c \in active \cup {t} :
           PRIORITY[c] < PRIORITY[a] => priority[c] < PRIORITY[a]
    BY <2>1, <2>2, <2>3 DEF Inv, LevelInv
  <2>5. QED BY <1>4, <2>4 DEF LevelInv
<1>11. MaskInv'
  BY <1>2, <1>3, <1>4, <1>9 DEF Inv, MaskInv, MaxPriority
<1>12. RestoreInv'
  <2>1. ASSUME NEW u \in active \ {Idle}
        PROVE  /\ preempted[u] # running /\ preempted'[u] = preempted[u]
               /\ u # t /\ pc'[u] = pc[u]
    BY <1>2, <1>3, <1>4, <1>5 DEF Inv, StackInv
  <2>2. QED
    BY <1>2, <1>3, <1>4, <1>5, <1>6, <2>1 DEF Inv, RestoreInv, View
<1>13. HardwareInv'
  BY <1>4, <1>5 DEF Inv, HardwareInv
<1>14. QED BY <1>1, <1>7, <1>8, <1>10, <1>11, <1>12, <1>13 DEF Inv

(* Steps of the running handler that leave the stack of contexts alone. *)
LEMMA InvRunEnter == ASSUME Inv, NEW t \in Handlers, RunEnter(t) PROVE Inv'
<1>1. TypeOK'
  BY NextType DEF Inv, Next
<1>2. /\ running = t /\ t \in active /\ t # Idle /\ t \in Contexts
      /\ pc[t] = "entry" /\ active \subseteq Contexts
      /\ pc' = [pc EXCEPT ![t] = "body"]
      /\ priority' = [priority EXCEPT ![t] = PRIORITY[t]]
      /\ UNCHANGED <<active, running, preempted, saved, locks, basepri, primask>>
  BY PriorityAssumption DEF Inv, TypeOK, StackInv, RunEnter, Contexts
<1>3. /\ pc \in [Contexts -> {"entry", "body", "exit"}]
      /\ initial \in [Handlers -> U8] /\ priority \in [Contexts -> U8]
      /\ active \ {Idle} \subseteq Handlers
  BY DEF Inv, TypeOK, Contexts
<1>4. priority[t] = PRIORITY[t] /\ locks[t] = <<>>
  BY <1>2 DEF Inv, FrameInv
<1>5. UNCHANGED priority
  BY <1>2, <1>3, <1>4
<1>6. \A c \in Contexts : View(c)' = View(c)
  BY <1>2 DEF View
<1>7. StackInv'
  BY <1>2, <1>3 DEF Inv, StackInv
<1>8. ASSUME NEW c \in Contexts PROVE FrameInv(c)'
  BY <1>2, <1>3, <1>4, <1>5, <1>6, FrameKept DEF Inv, FrameInv
<1>9. LevelInv' /\ MaskInv' /\ HardwareInv'
  BY <1>2, <1>5 DEF Inv, LevelInv, MaskInv, HardwareInv
<1>10. RestoreInv'
  <2>1. SUFFICES ASSUME NEW u \in active \ {Idle}
                 PROVE  LET was == saved[preempted[u]] IN
                        /\ PRIORITY[u] = 1 => was = 0
                        /\ pc'[u] # "body" => View(u) = was
                        /\ pc'[u] = "body" /\ Armv7m /\ PRIORITY[u] # 1
                             => initial'[u] = was
    BY <1>2, <1>3, <1>6 DEF RestoreInv
  <2>2. CASE u = t
    <3>1. View(t) = basepri /\ View(t) = saved[preempted[t]]
      BY <1>2, <2>2 DEF Inv, RestoreInv, View
    <3>2. Armv7m /\ PRIORITY[t] # 1 => initial'[t] = basepri
      BY <1>3 DEF RunEnter
    <3>3. QED BY <1>2, <1>3, <2>2, <3>1, <3>2 DEF Inv, RestoreInv
  <2>3. CASE u # t
    <3>1. pc'[u] = pc[u] /\ initial'[u] = initial[u]
      BY <1>2, <1>3, <2>3 DEF RunEnter
    <3>2. QED BY <3>1 DEF Inv, RestoreInv
  <2>4. QED BY <2>2, <2>3
<1>11. QED BY <1>1, <1>7, <1>8, <1>9, <1>10 DEF Inv

(* The context a handler interrupted is not the one that runs. *)
LEMMA InterruptedWaits ==
    ASSUME Inv, NEW u \in active \ {Idle}
    PROVE  /\ preempted[u] # running /\ preempted[u] \in active
           /\ preempted[u] \in Contexts /\ running \in active
           /\ u \in Handlers
BY ConstantTypes DEF Inv, StackInv, TypeOK, Contexts

LEMMA InvRunExit == ASSUME Inv, NEW t \in Handlers, RunExit(t) PROVE Inv'
<1>1. TypeOK'
  BY NextType DEF Inv, Next
<1>2. /\ running = t /\ t \in active /\ t # Idle /\ t \in Contexts
      /\ pc[t] = "body" /\ locks[t] = <<>> /\ active \subseteq Contexts
      /\ pc' = [pc EXCEPT ![t] = "exit"]
      /\ UNCHANGED <<active, running, preempted, saved, initial, priority,
                     locks, primask>>
  BY PriorityAssumption DEF Inv, TypeOK, StackInv, RunExit, Contexts
<1>3. /\ pc \in [Contexts -> {"entry", "body", "exit"}]
      /\ active \ {Idle} \subseteq Handlers
  BY DEF Inv, TypeOK, Contexts
<1>4. priority[t] = PRIORITY[t]
  BY <1>2 DEF Inv, FrameInv
<1>5. basepri' = saved[preempted[t]] /\ (~Armv7m => basepri' = basepri)
  <2>1. CASE ~Armv7m
    BY <1>2, <2>1, InterruptedWaits DEF Inv, HardwareInv, RunExit
  <2>2. CASE Armv7m /\ PRIORITY[t] = 1
    BY <1>2, <2>2 DEF Inv, RestoreInv, RunExit
  <2>3. CASE Armv7m /\ PRIORITY[t] # 1
    BY <1>2, <2>3 DEF Inv, RestoreInv, RunExit
  <2>4. QED BY <2>1, <2>2, <2>3
<1>6. \A c \in Contexts \ {t} : View(c)' = View(c)
  BY <1>2 DEF View
<1>7. StackInv'
  BY <1>2, <1>3 DEF Inv, StackInv
<1>8. ASSUME NEW c \in Contexts PROVE FrameInv(c)'
  <2>1. CASE c = t
    BY <1>2, <1>4, <2>1, FrameEmpty
  <2>2. CASE c # t
    <3>1. pc'[c] = pc[c] /\ View(c)' = View(c)
      BY <1>2, <1>3, <1>6, <2>2
    <3>2. FrameInv(c) /\ (c \notin active \/ pc[c] # "body" => locks[c] = <<>>)
      BY DEF Inv, FrameInv
    <3>3. QED BY <1>2, <3>1, <3>2, FrameKept
  <2>3. QED BY <2>1, <2>2
<1>9. LevelInv' /\ MaskInv'
  BY <1>2 DEF Inv, LevelInv, MaskInv
<1>10. HardwareInv'
  BY <1>2, <1>5, InterruptedWaits DEF Inv, HardwareInv
<1>11. RestoreInv'
  <2>1. SUFFICES ASSUME NEW u \in active \ {Idle}
                 PROVE  LET was == saved[preempted[u]] IN
                        /\ PRIORITY[u] = 1 => was = 0
                        /\ pc'[u] # "body" => View(u)' = was
                        /\ pc'[u] = "body" /\ Armv7m /\ PRIORITY[u] # 1
                             => initial[u] = was
    BY <1>2 DEF RestoreInv
  <2>2. CASE u = t
    <3>1. View(t)' = basepri' /\ pc'[t] = "exit"
      BY <1>2, <1>3 DEF View
    <3>2. QED BY <1>5, <2>2, <3>1 DEF Inv, RestoreInv
  <2>3. CASE u # t
    <3>1. pc'[u] = pc[u] /\ View(u)' = View(u)
      BY <1>2, <1>3, <1>6, <2>3
    <3>2. QED BY <3>1 DEF Inv, RestoreInv
  <2>4. QED BY <2>2, <2>3
<1>12. QED BY <1>1, <1>7, <1>8, <1>9, <1>10, <1>11 DEF Inv

LEMMA InvReturn == ASSUME Inv, NEW t \in Handlers, Return(t) PROVE Inv'
<1> DEFINE p == preempted[t]
<1>1. TypeOK'
  BY NextType DEF Inv, Next
<1>2. /\ running = t /\ t \in active /\ t # Idle /\ t \in Contexts
      /\ pc[t] = "exit" /\ active \subseteq Contexts
      /\ active' = active \ {t} /\ running' = p
      /\ pc' = [pc EXCEPT ![t] = "entry"]
      /\ preempted' = [preempted EXCEPT ![t] = Idle]
      /\ saved' = [saved EXCEPT ![p] = 0]
      /\ initial' = [initial EXCEPT ![t] = 0]
      /\ UNCHANGED <<priority, locks, basepri, primask>>
  BY PriorityAssumption DEF Inv, TypeOK, StackInv, Return, Contexts
<1>3. /\ pc \in [Contexts -> {"entry", "body", "exit"}]
      /\ preempted \in [Handlers -> Contexts] /\ initial \in [Handlers -> U8]
      /\ saved \in [Contexts -> U8]
      /\ active \ {Idle} \subseteq Handlers
      /\ \A c \in Contexts : PRIORITY[c] \in Int /\ priority[c] \in Int
  BY ConstantTypes DEF Inv, TypeOK, Contexts
<1>4. p \in active /\ p # t /\ p \in Contexts /\ PRIORITY[p] < PRIORITY[t]
  BY <1>2, <1>3 DEF Inv, StackInv
<1>5. \A a \in active \ {t} : PRIORITY[a] < PRIORITY[t] /\ PRIORITY[a] <= PRIORITY[p]
  <2>1. SUFFICES ASSUME NEW a \in active \ {t}
                 PROVE  PRIORITY[a] < PRIORITY[t] /\ PRIORITY[a] <= PRIORITY[p]
    OBVIOUS
  <2>2. PRIORITY[a] # PRIORITY[t] /\ PRIORITY[a] <= PRIORITY[t]
    BY <1>2 DEF Inv, StackInv
  <2>3. PRIORITY[a] < PRIORITY[t]
    BY <1>2, <1>3, <2>2
  <2>4. QED BY <1>2, <2>3 DEF Inv, StackInv
<1>6. \A u \in active \ {Idle, t} :
         preempted[u] # p /\ preempted[u] # t /\ preempted'[u] = preempted[u]
  <2>1. SUFFICES ASSUME NEW u \in active \ {Idle, t}
                 PROVE  preempted[u] # p /\ preempted[u] # t
                          /\ preempted'[u] = preempted[u]
    OBVIOUS
  <2>2. PRIORITY[u] <= PRIORITY[p]
    BY <1>5
  <2>3. PRIORITY[preempted[u]] < PRIORITY[u] /\ PRIORITY[u] < PRIORITY[t]
    BY <1>5 DEF Inv, StackInv
  <2>4. preempted[u] # p /\ preempted[u] # t
    BY <1>2, <1>3, <1>4, <2>2, <2>3
  <2>5. QED BY <1>2, <1>3, <2>4
<1>7. basepri = saved[p]
  BY <1>2 DEF Inv, RestoreInv, View
<1>8. \A c \in Contexts \ {t} : View(c)' = View(c)
  BY <1>2, <1>3, <1>4, <1>7 DEF View
<1>9. StackInv'
  BY <1>2, <1>3, <1>4, <1>5, <1>6 DEF Inv, StackInv
<1>10. locks[t] = <<>> /\ priority[t] = PRIORITY[t]
  BY <1>2 DEF Inv, FrameInv
<1>11. ASSUME NEW c \in Contexts PROVE FrameInv(c)'
  <2>1. CASE c = t
    BY <1>2, <1>10, <2>1, FrameEmpty
  <2>2. CASE c # t
    <3>1. pc'[c] = pc[c] /\ View(c)' = View(c)
      BY <1>2, <1>3, <1>8, <2>2
    <3>2. FrameInv(c) /\ (c \notin active \/ pc[c] # "body" => locks[c] = <<>>)
      BY DEF Inv, FrameInv
    <3>3. QED BY <1>2, <2>2, <3>1, <3>2, FrameKept
  <2>3. QED BY <2>1, <2>2
<1>12. LevelInv'
  BY <1>2 DEF Inv, LevelInv
<1>13. MaskInv'
  <2>1. PRIORITY[t] # MaxPriority
    BY <1>2, ConstantTypes DEF MaxPriority
  <2>2. ~primask
    BY <1>2, <1>10, <2>1 DEF Inv, MaskInv
  <2>3. \A c \in active : c # t => priority[c] # MaxPriority
    BY <1>2 DEF Inv, MaskInv
  <2>4. QED BY <1>2, <2>2, <2>3 DEF MaskInv
<1>14. RestoreInv'
  <2>1. ASSUME NEW u \in active \ {Idle, t}
        PROVE  /\ saved'[preempted'[u]] = saved[preempted[u]]
               /\ pc'[u] = pc[u] /\ View(u)' = View(u) /\ initial'[u] = initial[u]
    BY <1>2, <1>3, <1>6, <1>8
  <2>2. QED BY <1>2, <2>1 DEF Inv, RestoreInv
<1>15. HardwareInv'
  <2>1. 0 \in 0..LEVELS /\ logical2hw(0) = 0
    BY HardwareLevels
  <2>2. \A c \in Contexts : \E l \in 0..LEVELS : saved'[c] = logical2hw(l)
    BY <1>2, <1>3, <2>1 DEF Inv, HardwareInv
  <2>3. ~Armv7m => saved' = [c \in Contexts |-> 0]
    BY <1>2, <1>3, <1>4 DEF Inv, HardwareInv
  <2>4. QED BY <1>2, <2>2, <2>3 DEF Inv, HardwareInv
<1>16. QED BY <1>1, <1>9, <1>11, <1>12, <1>13, <1>14, <1>15 DEF Inv

-----------------------------------------------------------------------------
(* Entering and leaving a section: what Push and Pop do to the sections. *)
LEMMA PushFrames ==
    ASSUME TypeOK, NEW c \in Contexts, NEW r, NEW via, Push(c, r, via)
    PROVE  /\ Depth(c) \in Nat /\ Depth(c)' = Depth(c) + 1
           /\ \A i \in 1..Depth(c) : /\ locks'[c][i] = locks[c][i]
                                     /\ After(c, i)' = After(c, i)
           /\ locks'[c][Depth(c) + 1] =
                 [res |-> r, current |-> priority[c], via |-> via, mask |-> primask]
           /\ \A i : i = Depth(c) + 1 => After(c, i)' = priority'[c]
           /\ \A d \in Contexts \ {c} : locks'[d] = locks[d]
<1> DEFINE f == [res |-> r, current |-> priority[c], via |-> via, mask |-> primask]
<1>1. /\ locks[c] \in Seq(Frame) /\ locks \in [Contexts -> Seq(Frame)]
  BY DEF TypeOK
<1>2. locks'[c] = Append(locks[c], f) /\ \A d \in Contexts \ {c} : locks'[d] = locks[d]
  BY <1>1 DEF Push
<1>3. Depth(c) \in Nat /\ Depth(c)' = Depth(c) + 1
  BY <1>1, <1>2 DEF Depth
<1>4. locks'[c][Depth(c) + 1] = f
  BY <1>1, <1>2 DEF Depth
<1>5. \A i \in 1..Depth(c) : locks'[c][i] = locks[c][i]
  BY <1>1, <1>2 DEF Depth
<1>6. \A i \in 1..Depth(c) : After(c, i)' = After(c, i)
  <2>1. SUFFICES ASSUME NEW i \in 1..Depth(c) PROVE After(c, i)' = After(c, i)
    OBVIOUS
  <2>2. CASE i < Depth(c)
    BY <1>3, <1>5, <2>2 DEF After
  <2>3. CASE i = Depth(c)
    BY <1>3, <1>4, <2>3 DEF After
  <2>4. QED BY <1>3, <2>2, <2>3
<1>7. \A i : i = Depth(c) + 1 => After(c, i)' = priority'[c]
  BY <1>3 DEF After
<1>8. QED BY <1>2, <1>3, <1>4, <1>5, <1>6, <1>7

LEMMA PopFrames ==
    ASSUME TypeOK, NEW c \in Contexts, locks[c] # <<>>, Pop(c)
    PROVE  /\ Depth(c) \in Nat \ {0} /\ Depth(c)' = Depth(c) - 1
           /\ \A i \in 1..(Depth(c) - 1) : locks'[c][i] = locks[c][i]
           /\ \A i \in 1..(Depth(c) - 1) :
                 priority'[c] = Innermost(c).current => After(c, i)' = After(c, i)
           /\ \A d \in Contexts \ {c} : locks'[d] = locks[d]
           /\ Depth(c) = 1 => locks'[c] = <<>>
           /\ locks'[c] # <<>> => 1 \in 1..(Depth(c) - 1)
<1>1. /\ locks[c] \in Seq(Frame) /\ locks \in [Contexts -> Seq(Frame)]
  BY DEF TypeOK
<1>2. /\ locks'[c] = SubSeq(locks[c], 1, Len(locks[c]) - 1)
      /\ \A d \in Contexts \ {c} : locks'[d] = locks[d]
  BY <1>1 DEF Pop
<1>3. Depth(c) \in Nat \ {0} /\ Depth(c)' = Depth(c) - 1
  <2>1. Len(locks[c]) \in Nat \ {0}
    BY <1>1, EmptySeq
  <2>2. Len(locks'[c]) = Len(locks[c]) - 1
    <3>1. \A i \in 1..(Len(locks[c]) - 1) : locks[c][i] \in Frame
      BY <1>1, <2>1
    <3>2. QED BY <1>2, <2>1, <3>1, SubSeqProperties
  <2>3. QED BY <2>1, <2>2 DEF Depth
<1>4. \A i \in 1..(Depth(c) - 1) : locks'[c][i] = locks[c][i]
  BY <1>1, <1>2, <1>3 DEF Depth
<1>5. ASSUME NEW i \in 1..(Depth(c) - 1), priority'[c] = Innermost(c).current
      PROVE  After(c, i)' = After(c, i)
  <2>1. CASE i < Depth(c) - 1
    BY <1>3, <1>4, <2>1 DEF After
  <2>2. CASE i = Depth(c) - 1
    BY <1>3, <1>5, <2>2 DEF After, Innermost
  <2>3. QED BY <1>3, <2>1, <2>2
<1>6. Depth(c) = 1 <=> locks'[c] = <<>>
  <2>1. locks'[c] \in Seq(Frame)
    BY <1>1, <1>2, PopType DEF TypeOK
  <2>2. locks'[c] = <<>> <=> Depth(c)' = 0
    BY <2>1, EmptySeq DEF Depth
  <2>3. QED BY <1>3, <2>2 
<1>7. locks'[c] # <<>> => 1 \in 1..(Depth(c) - 1)
  BY <1>3, <1>6
<1>8. QED BY <1>2, <1>3, <1>4, <1>5, <1>6, <1>7

(* A step of the running context that changes its own sections and level,  *)
(* and the registers to match, keeps what concerns the other contexts.     *)
LEMMA SectionStep ==
    ASSUME Inv, TypeOK', NEW c \in Contexts, running = c, pc[c] = "body",
           UNCHANGED <<active, running, preempted, saved, pc, initial>>,
           \A d \in Contexts \ {c} : locks'[d] = locks[d] /\ priority'[d] = priority[d],
           FrameInv(c)',
           priority'[c] = MaxPriority <=> primask',
           basepri' = basepri \/ (Armv7m /\ \E l \in 0..LEVELS : basepri' = logical2hw(l))
    PROVE  Inv'
<1>1. /\ active \subseteq Contexts /\ c \in active
      /\ \A d \in Contexts : PRIORITY[d] \in Int
  BY ConstantTypes DEF Inv, TypeOK, StackInv
<1>2. \A d \in Contexts \ {c} : View(d)' = View(d)
  BY DEF View
<1>3. StackInv'
  BY DEF Inv, StackInv
<1>4. ASSUME NEW d \in Contexts PROVE FrameInv(d)'
  <2>1. CASE d # c
    <3>1. FrameInv(d) /\ (d \notin active \/ pc[d] # "body" => locks[d] = <<>>)
      BY DEF Inv, FrameInv
    <3>2. QED BY <1>2, <2>1, <3>1, FrameKept
  <2>2. QED BY <2>1
<1>5. LevelInv'
  <2>1. \A a \in active : ~(PRIORITY[c] < PRIORITY[a])
    BY <1>1 DEF Inv, StackInv
  <2>2. QED BY <1>1, <2>1 DEF Inv, LevelInv
<1>6. MaskInv'
  <2>1. \A d \in active \ {c} : priority[d] # MaxPriority
    BY DEF Inv, MaskInv
  <2>2. QED BY <1>1, <2>1 DEF MaskInv
<1>7. RestoreInv'
  <2>1. \A u \in active \ {Idle} : pc[u] # "body" => View(u)' = View(u)
    BY <1>1, <1>2
  <2>2. QED BY <2>1 DEF Inv, RestoreInv
<1>8. HardwareInv'
  BY DEF Inv, HardwareInv
<1>9. QED BY <1>3, <1>4, <1>5, <1>6, <1>7, <1>8 DEF Inv

LEMMA FramePush ==
    ASSUME Inv, NEW c \in Contexts, NEW r \in Resources,
           NEW via \in {"none", "basepri", "free"},
           CanLock(c, r), Push(c, r, via), UNCHANGED <<active, running, pc>>,
           priority'[c] \in U8,
           CEILING[r] <= priority'[c], priority[c] <= priority'[c],
           via = "none" => priority'[c] = priority[c] /\ View(c)' = View(c),
           via # "none" => priority[c] < CEILING[r],
           via = "basepri" => Armv7m /\ priority'[c] # MaxPriority,
           via = "free" => /\ priority'[c] = MaxPriority /\ primask = FALSE
                           /\ View(c)' = View(c),
           priority'[c] # MaxPriority => Masks(priority'[c], c, View(c)')
    PROVE  FrameInv(c)'
<1> DEFINE n == Depth(c)
           g(i) == locks[c][i]
           h(i) == locks'[c][i]
           new == [res |-> r, current |-> priority[c], via |-> via, mask |-> primask]
<1>1. /\ n \in Nat /\ Depth(c)' = n + 1
      /\ \A i \in 1..n : locks'[c][i] = g(i) /\ After(c, i)' = After(c, i)
      /\ locks'[c][n + 1] = new
      /\ \A i : i = n + 1 => After(c, i)' = priority'[c]
  BY PushFrames DEF Inv
<1>2. FrameInv(c)
  BY DEF Inv
<1>3. /\ running = c /\ c \in active /\ pc[c] = "body" /\ r \in Uses[c]
      /\ priority[c] \in Int /\ priority'[c] \in Int /\ PRIORITY[c] \in Int
      /\ CEILING[r] \in 0..LEVELS /\ LEVELS \in 2..128
  BY ConstantTypes DEF Inv, TypeOK, StackInv, CanLock
<1>4. via # "none" => priority[c] # MaxPriority
  BY <1>3 DEF MaxPriority
<1>5. PRIORITY[c] <= priority'[c]
  BY <1>2, <1>3 DEF FrameInv
<1>6. locks'[c] # <<>> /\ locks'[c][1].current = PRIORITY[c]
  <2>1. locks'[c] # <<>>
    BY <1>1 DEF Depth
  <2>2. CASE n = 0
    <3>1. locks[c] = <<>>
      <4>1. locks[c] \in Seq(Frame)
        BY DEF Inv, TypeOK
      <4>2. locks[c] # <<>> => Depth(c) \in Nat \ {0}
        BY <4>1, EmptySeq DEF Depth
      <4>3. QED BY <2>2, <4>2
    <3>2. priority[c] = PRIORITY[c] /\ new.current = priority[c]
      BY <1>2, <3>1 DEF FrameInv
    <3>3. QED BY <1>1, <2>1, <2>2, <3>2
  <2>3. CASE n # 0
    <3>1. locks[c] # <<>> /\ 1 \in 1..n
      BY <1>1, <2>3 DEF Depth
    <3>2. QED BY <1>1, <1>2, <2>1, <3>1 DEF FrameInv
  <2>4. QED BY <2>1, <2>2, <2>3
<1>7. ASSUME NEW i \in 1..(n + 1)
      PROVE  /\ h(i).res \in Uses[c]
             /\ CEILING[h(i).res] <= priority'[c]
             /\ PRIORITY[c] <= h(i).current
             /\ h(i).via # "none" => h(i).current < CEILING[h(i).res]
             /\ h(i).via = "none" => After(c, i)' = h(i).current
             /\ h(i).via = "basepri" => Armv7m /\ After(c, i)' # MaxPriority
             /\ h(i).via = "free" =>
                   /\ priority'[c] = MaxPriority /\ h(i).mask = FALSE
                   /\ Masks(h(i).current, c, View(c)')
  <2>1. CASE i = n + 1
    <3>1. /\ PRIORITY[c] <= priority[c]
          /\ priority[c] # MaxPriority => Masks(priority[c], c, View(c))
      BY <1>2 DEF FrameInv
    <3>2. via = "free" => Masks(priority[c], c, View(c)')
      BY <1>4, <3>1
    <3>3. /\ new.res = r /\ new.current = priority[c] /\ new.via = via
          /\ new.mask = primask
      OBVIOUS
    <3>4. /\ via = "none" => After(c, i)' = priority[c]
          /\ via = "basepri" => After(c, i)' # MaxPriority
      BY <1>1, <2>1
    <3>5. locks'[c][i] = new
      BY <1>1, <2>1
    <3>6. CASE via = "free"
      BY <1>3, <3>1, <3>2, <3>3, <3>5, <3>6
    <3>7. CASE via = "none"
      BY <1>3, <3>1, <3>3, <3>4, <3>5, <3>7
    <3>8. CASE via = "basepri"
      BY <1>3, <3>1, <3>3, <3>4, <3>5, <3>8
    <3>9. QED BY <3>6, <3>7, <3>8
  <2>2. CASE i \in 1..n
    <3>1. /\ g(i).res \in Uses[c] /\ CEILING[g(i).res] <= priority[c]
          /\ PRIORITY[c] <= g(i).current
          /\ g(i).via # "none" => g(i).current < CEILING[g(i).res]
          /\ g(i).via = "none" => After(c, i) = g(i).current
          /\ g(i).via = "basepri" => Armv7m /\ After(c, i) # MaxPriority
          /\ g(i).via = "free" => /\ priority[c] = MaxPriority /\ g(i).mask = FALSE
                                  /\ Masks(g(i).current, c, View(c))
      BY <1>2, <2>2 DEF FrameInv
    <3>2. g(i).via = "free" => priority'[c] = priority[c] /\ View(c)' = View(c)
      BY <1>4, <3>1
    <3>3. g(i).res \in Resources
      <4>1. locks[c] \in Seq(Frame)
        BY DEF Inv, TypeOK
      <4>2. g(i) \in Frame
        BY <2>2, <4>1 DEF Depth
      <4>3. QED BY <4>2 DEF Frame
    <3>4. CEILING[g(i).res] <= priority'[c]
      BY <1>3, <3>1, <3>3, ConstantTypes
    <3>5. locks'[c][i] = g(i) /\ After(c, i)' = After(c, i)
      BY <1>1, <2>2
    <3>6. g(i).via = "free" =>
             /\ priority'[c] = MaxPriority /\ g(i).mask = FALSE
             /\ Masks(g(i).current, c, View(c)')
      BY <3>1, <3>2
    <3>7. QED BY <3>1, <3>4, <3>5, <3>6
  <2>3. i = n + 1 \/ i \in 1..n
    BY <1>1
  <2>4. QED BY <2>1, <2>2, <2>3
<1>8. ASSUME NEW i \in 1..(n + 1), NEW j \in 1..(n + 1), i < j
      PROVE  /\ CEILING[locks'[c][i].res] <= locks'[c][j].current
             /\ locks'[c][i].via = "free" => locks'[c][j].via = "none"
  <2>1. i \in 1..n /\ locks'[c][i] = g(i)
    BY <1>1, <1>8
  <2>2. CASE j \in 1..n
    BY <1>1, <1>2, <1>8, <2>1, <2>2 DEF FrameInv
  <2>3. CASE j = n + 1
    <3>1. /\ CEILING[g(i).res] <= priority[c]
          /\ g(i).via = "free" => priority[c] = MaxPriority
      BY <1>2, <2>1 DEF FrameInv
    <3>2. QED BY <1>1, <1>4, <2>1, <2>3, <3>1
  <2>4. QED BY <1>1, <2>2, <2>3
<1>9. QED BY <1>1, <1>3, <1>5, <1>6, <1>7, <1>8 DEF FrameInv

LEMMA FramePop ==
    ASSUME Inv, NEW c \in Contexts, locks[c] # <<>>, Pop(c), running = c,
           UNCHANGED <<active, running, pc>>,
           priority'[c] = Innermost(c).current,
           Innermost(c).via = "none" => View(c)' = View(c),
           priority'[c] # MaxPriority => Masks(priority'[c], c, View(c)')
    PROVE  FrameInv(c)'
<1> DEFINE n == Depth(c)
           g(i) == locks[c][i]
<1>1. /\ n \in Nat \ {0} /\ Depth(c)' = n - 1
      /\ \A i \in 1..(n - 1) : locks'[c][i] = g(i) /\ After(c, i)' = After(c, i)
      /\ locks'[c] # <<>> => 1 \in 1..(n - 1)
      /\ n = 1 => locks'[c] = <<>>
  BY PopFrames DEF Inv
<1>2. FrameInv(c)
  BY DEF Inv
<1>3. g(n) = Innermost(c)
  BY DEF Innermost
<1>4. n \in 1..n /\ 1 \in 1..n
  BY <1>1
<1>5. c \in active /\ pc[c] = "body"
  BY <1>2 DEF FrameInv
<1>6. locks'[c] = <<>> => priority'[c] = PRIORITY[c]
  <2>1. locks'[c] = <<>> => n = 1
    BY <1>1, EmptySeq DEF Depth
  <2>2. QED BY <1>2, <1>3, <2>1 DEF FrameInv
<1>7. locks'[c] # <<>> => locks'[c][1].current = PRIORITY[c]
  BY <1>1, <1>2 DEF FrameInv
<1>8. PRIORITY[c] <= priority'[c]
  BY <1>2, <1>3, <1>4 DEF FrameInv
<1>9. Innermost(c).via = "none" => priority'[c] = priority[c]
  <2>1. After(c, n) = priority[c]
    BY <1>1 DEF After
  <2>2. QED BY <1>2, <1>3, <1>4, <2>1 DEF FrameInv
<1>10. ASSUME NEW i \in 1..(n - 1)
       PROVE  LET f == locks'[c][i] IN
              /\ f.res \in Uses[c]
              /\ CEILING[f.res] <= priority'[c]
              /\ PRIORITY[c] <= f.current
              /\ f.via # "none" => f.current < CEILING[f.res]
              /\ f.via = "none" => After(c, i)' = f.current
              /\ f.via = "basepri" => Armv7m /\ After(c, i)' # MaxPriority
              /\ f.via = "free" => /\ priority'[c] = MaxPriority /\ f.mask = FALSE
                                   /\ Masks(f.current, c, View(c)')
  <2>1. i \in 1..n /\ i < n
    BY <1>1
  <2>2. /\ g(i).res \in Uses[c]
        /\ PRIORITY[c] <= g(i).current
        /\ g(i).via # "none" => g(i).current < CEILING[g(i).res]
        /\ g(i).via = "none" => After(c, i) = g(i).current
        /\ g(i).via = "basepri" => Armv7m /\ After(c, i) # MaxPriority
        /\ g(i).via = "free" => /\ priority[c] = MaxPriority /\ g(i).mask = FALSE
                                /\ Masks(g(i).current, c, View(c))
    BY <1>2, <2>1 DEF FrameInv
  <2>3. /\ CEILING[g(i).res] <= g(n).current
        /\ g(i).via = "free" => g(n).via = "none"
    BY <1>2, <1>4, <2>1 DEF FrameInv
  <2>4. CEILING[g(i).res] <= priority'[c]
    BY <1>3, <2>3
  <2>5. g(i).via = "free" =>
           /\ priority'[c] = MaxPriority /\ g(i).mask = FALSE
           /\ Masks(g(i).current, c, View(c)')
    BY <1>3, <1>9, <2>2, <2>3
  <2>6. locks'[c][i] = g(i) /\ After(c, i)' = After(c, i)
    BY <1>1
  <2>7. QED BY <2>2, <2>4, <2>5, <2>6
<1>11. ASSUME NEW i \in 1..(n - 1), NEW j \in 1..(n - 1), i < j
       PROVE  /\ CEILING[locks'[c][i].res] <= locks'[c][j].current
              /\ locks'[c][i].via = "free" => locks'[c][j].via = "none"
  <2>1. i \in 1..n /\ j \in 1..n /\ locks'[c][i] = g(i) /\ locks'[c][j] = g(j)
    BY <1>1
  <2>2. QED BY <1>2, <1>11, <2>1 DEF FrameInv
<1>12. QED
  BY <1>1, <1>5, <1>6, <1>7, <1>8, <1>10, <1>11 DEF FrameInv

LEMMA InvLock ==
    ASSUME Inv, NEW c \in Contexts, NEW r \in Resources, Lock(c, r)
    PROVE  Inv'
<1>1. TypeOK'
  BY NextType DEF Inv, Next
<1>2. /\ CanLock(c, r) /\ running = c /\ pc[c] = "body" /\ c \in active
      /\ UNCHANGED <<active, running, preempted, saved, pc, initial>>
  BY DEF Lock, LockNone, LockBasepri, LockFreeSection, CanLock, Inv, StackInv
<1>3. /\ priority[c] \in U8 /\ priority[c] \in Int /\ CEILING[r] \in 0..LEVELS
      /\ LEVELS \in 2..128 /\ priority \in [Contexts -> U8] /\ priority'[c] \in U8
      /\ MaxPriority = 255 /\ 0 <= priority[c] /\ priority[c] <= 255
  <2>1. priority[c] \in U8 /\ priority \in [Contexts -> U8] /\ priority'[c] \in U8
    BY <1>1 DEF Inv, TypeOK
  <2>2. QED BY <2>1, ConstantTypes DEF U8, MaxPriority
<1>4. FrameInv(c) /\ (priority[c] = MaxPriority <=> primask)
  BY <1>2 DEF Inv, MaskInv
<1>5. primask \in BOOLEAN
  BY DEF Inv, TypeOK
<1>6. CASE LockNone(c, r)
  <2>1. /\ Push(c, r, "none") /\ UNCHANGED <<priority, basepri, primask>>
        /\ View(c)' = View(c) /\ CEILING[r] <= priority'[c]
        /\ priority[c] <= priority'[c]
    BY <1>2, <1>3, <1>6 DEF LockNone, View
  <2>2. priority'[c] # MaxPriority => Masks(priority'[c], c, View(c)')
    BY <1>4, <2>1 DEF FrameInv
  <2>3. FrameInv(c)'
    BY <1>2, <1>3, <2>1, <2>2, FramePush
  <2>4. \A d \in Contexts \ {c} : locks'[d] = locks[d]
    BY <2>1, PushFrames DEF Inv
  <2>5. QED BY <1>1, <1>2, <1>4, <2>1, <2>3, <2>4, SectionStep
<1>7. CASE LockBasepri(c, r)
  <2>1. /\ Push(c, r, "basepri") /\ Armv7m /\ UNCHANGED primask
        /\ priority[c] < CEILING[r] /\ CEILING[r] # LEVELS
        /\ priority'[c] = CEILING[r] /\ CEILING[r] <= priority'[c]
        /\ priority[c] <= priority'[c] /\ priority'[c] # MaxPriority
        /\ \A d \in Contexts \ {c} : priority'[d] = priority[d]
        /\ basepri' = logical2hw(CEILING[r])
    BY <1>3, <1>7 DEF LockBasepri
  <2>2. Masks(priority'[c], c, View(c)')
    BY <1>2, <1>3, <2>1 DEF Masks, View
  <2>3. FrameInv(c)'
    BY <1>2, <1>3, <2>1, <2>2, FramePush
  <2>4. \A d \in Contexts \ {c} : locks'[d] = locks[d]
    BY <2>1, PushFrames DEF Inv
  <2>5. priority'[c] = MaxPriority <=> primask'
    BY <1>3, <1>4, <1>5, <2>1
  <2>6. QED BY <1>1, <1>2, <1>3, <2>1, <2>3, <2>4, <2>5, SectionStep
<1>8. CASE LockFreeSection(c, r)
  <2>1. /\ Push(c, r, "free") /\ UNCHANGED basepri /\ primask' = TRUE
        /\ priority[c] < CEILING[r]
        /\ priority'[c] = MaxPriority /\ CEILING[r] <= priority'[c]
        /\ priority[c] <= priority'[c]
        /\ \A d \in Contexts \ {c} : priority'[d] = priority[d]
        /\ View(c)' = View(c)
    BY <1>2, <1>3, <1>8 DEF LockFreeSection, View
  <2>2. primask = FALSE
    BY <1>3, <1>4, <1>5, <2>1
  <2>3. FrameInv(c)'
    BY <1>2, <1>3, <2>1, <2>2, FramePush
  <2>4. \A d \in Contexts \ {c} : locks'[d] = locks[d]
    BY <2>1, PushFrames DEF Inv
  <2>5. QED BY <1>1, <1>2, <2>1, <2>3, <2>4, SectionStep
<1>9. QED BY <1>6, <1>7, <1>8 DEF Lock

LEMMA InvUnlock ==
    ASSUME Inv, NEW c \in Contexts, Unlock(c)
    PROVE  Inv'
<1> DEFINE f == Innermost(c)
<1>1. TypeOK'
  BY NextType DEF Inv, Next
<1>2. /\ running = c /\ locks[c] # <<>> /\ Pop(c) /\ c \in active
      /\ UNCHANGED <<active, running, preempted, saved, pc, initial>>
  BY DEF Unlock, UnlockNone, UnlockBasepri, UnlockFreeSection, CanUnlock, Inv, StackInv
<1>3. FrameInv(c) /\ pc[c] = "body" /\ (priority[c] = MaxPriority <=> primask)
  BY <1>2 DEF Inv, MaskInv, FrameInv
<1>4. /\ f \in Frame /\ f.current \in U8 /\ f.mask \in BOOLEAN /\ f.res \in Resources
      /\ Depth(c) \in 1..Depth(c) /\ \A d \in Contexts \ {c} : locks'[d] = locks[d]
  <2>1. f \in Frame /\ f.current \in U8 /\ f.mask \in BOOLEAN
    BY <1>2, PopType DEF Inv
  <2>2. Depth(c) \in Nat \ {0} /\ \A d \in Contexts \ {c} : locks'[d] = locks[d]
    BY <1>2, PopFrames DEF Inv
  <2>3. QED BY <2>1, <2>2 DEF Frame
<1>5. /\ PRIORITY[c] <= f.current
      /\ f.via # "none" => f.current < CEILING[f.res]
      /\ f.via = "none" => After(c, Depth(c)) = f.current
      /\ f.via = "basepri" => Armv7m /\ After(c, Depth(c)) # MaxPriority
      /\ f.via = "free" => /\ priority[c] = MaxPriority /\ f.mask = FALSE
                           /\ Masks(f.current, c, View(c))
  BY <1>3, <1>4 DEF FrameInv, Innermost
<1>6. After(c, Depth(c)) = priority[c]
  BY <1>4 DEF After
<1>7. /\ LEVELS \in 2..128 /\ CEILING[f.res] \in 0..LEVELS
      /\ f.current \in 0..255 /\ MaxPriority = 255
      /\ priority \in [Contexts -> U8] /\ PRIORITY[c] \in 0..LEVELS
  BY <1>4, ConstantTypes DEF U8, MaxPriority, Inv, TypeOK
<1>8. f.via # "none" => f.current \in 0..(LEVELS - 1) /\ f.current # MaxPriority
  BY <1>5, <1>7
<1>9. CASE UnlockNone(c)
  <2>1. UNCHANGED <<priority, basepri, primask>> /\ View(c)' = View(c)
        /\ priority'[c] = f.current
    BY <1>2, <1>5, <1>6, <1>9 DEF UnlockNone, CanUnlock, View
  <2>2. priority'[c] # MaxPriority => Masks(priority'[c], c, View(c)')
    BY <1>3, <2>1 DEF FrameInv
  <2>3. FrameInv(c)'
    BY <1>2, <2>1, <2>2, FramePop
  <2>4. QED BY <1>1, <1>2, <1>3, <1>4, <2>1, <2>3, SectionStep
<1>10. CASE UnlockBasepri(c)
  <2>1. /\ UNCHANGED primask /\ priority'[c] = f.current
        /\ \A d \in Contexts \ {c} : priority'[d] = priority[d]
        /\ basepri' = logical2hw(f.current) /\ f.via = "basepri"
        /\ View(c)' = logical2hw(f.current)
    BY <1>2, <1>7, <1>10 DEF UnlockBasepri, CanUnlock, View
  <2>2. Masks(f.current, c, View(c)')
    BY <1>5, <1>7, <1>8, <2>1 DEF Masks
  <2>3. FrameInv(c)'
    BY <1>2, <2>1, <2>2, FramePop
  <2>4. priority[c] # MaxPriority
    BY <1>5, <1>6, <2>1
  <2>5. QED
    BY <1>1, <1>2, <1>3, <1>4, <1>5, <1>8, <2>1, <2>3, <2>4, <1>7, SectionStep
<1>11. CASE UnlockFreeSection(c)
  <2>1. /\ UNCHANGED basepri /\ priority'[c] = f.current
        /\ \A d \in Contexts \ {c} : priority'[d] = priority[d]
        /\ primask' = f.mask /\ f.via = "free" /\ View(c)' = View(c)
    BY <1>2, <1>7, <1>11 DEF UnlockFreeSection, CanUnlock, View
  <2>2. Masks(f.current, c, View(c)') /\ primask' = FALSE
    BY <1>5, <2>1
  <2>3. FrameInv(c)'
    BY <1>2, <2>1, <2>2, FramePop
  <2>4. QED BY <1>1, <1>2, <1>3, <1>4, <1>8, <2>1, <2>2, <2>3, SectionStep
<1>12. QED BY <1>9, <1>10, <1>11 DEF Unlock

-----------------------------------------------------------------------------
LEMMA InvNext == Inv /\ [Next]_vars => Inv'
<1>0. SUFFICES ASSUME Inv, [Next]_vars PROVE Inv'  OBVIOUS
<1>1. CASE UNCHANGED vars
  <2>1. TypeOK'
    BY <1>0, NextType DEF Inv
  <2>2. UNCHANGED <<active, running, preempted, saved, pc, initial, priority,
                    locks, basepri, primask>>
    BY <1>1 DEF vars
  <2>3. ASSUME NEW c \in Contexts PROVE FrameInv(c)'
    BY <1>0, <2>2, FrameKept DEF Inv, FrameInv, View
  <2>4. QED
    BY <1>0, <2>1, <2>2, <2>3
    DEF Inv, StackInv, LevelInv, MaskInv, RestoreInv, HardwareInv, View
<1>2. QED
  BY <1>0, <1>1, InvPend, InvTake, InvRunEnter, InvRunExit, InvReturn, InvLock,
     InvUnlock DEF Next

THEOREM Invariance == Spec => []Inv
BY InvInit, InvNext, PTL DEF Spec

(* A resource held by c is at or below c's level, and used by c. *)
LEMMA HeldBelow ==
    ASSUME Inv, NEW c \in Contexts, NEW r \in Held(c)
    PROVE  /\ r \in Resources /\ r \in Uses[c] /\ CEILING[r] <= priority[c]
<1>1. PICK i \in 1..Depth(c) : r = locks[c][i].res
  BY DEF Held
<1>2. locks[c][i] \in Frame
  <2>1. locks[c] \in Seq(Frame)
    BY DEF Inv, TypeOK
  <2>2. QED BY <1>1, <2>1 DEF Depth
<1>3. QED BY <1>1, <1>2 DEF Inv, FrameInv, Frame

(* A context above an active one does not declare what that one holds. *)
LEMMA AboveIsNoContender ==
    ASSUME Inv, NEW c \in Contexts, NEW a \in Contexts, priority[c] < PRIORITY[a]
    PROVE  Held(c) \cap Uses[a] = {}
<1>1. SUFFICES ASSUME NEW r \in Held(c), r \in Uses[a] PROVE FALSE
  OBVIOUS
<1>2. r \in Resources /\ CEILING[r] <= priority[c]
  BY HeldBelow
<1>3. PRIORITY[a] <= CEILING[r]
  BY <1>1, <1>2, ResourceAssumption
<1>4. PRIORITY[a] \in Int /\ CEILING[r] \in Int /\ priority[c] \in Int
  BY <1>2, ConstantTypes DEF Inv, TypeOK
<1>5. QED BY <1>2, <1>3, <1>4

LEMMA InvMutualExclusion == Inv => MutualExclusion
<1>1. SUFFICES ASSUME Inv, NEW c \in active, NEW d \in active, c # d
               PROVE  Accesses(c) \cap Accesses(d) = {}
  BY DEF MutualExclusion
<1>2. /\ c \in Contexts /\ d \in Contexts
      /\ PRIORITY[c] # PRIORITY[d] /\ PRIORITY[c] \in Int /\ PRIORITY[d] \in Int
  BY <1>1, ConstantTypes DEF Inv, TypeOK, StackInv
<1>3. ASSUME NEW a \in active, NEW b \in active, PRIORITY[a] < PRIORITY[b]
      PROVE  Held(a) \cap Held(b) = {}
  <2>1. /\ a \in Contexts /\ b \in Contexts /\ priority[a] < PRIORITY[b]
    BY <1>1, <1>3 DEF Inv, TypeOK, LevelInv
  <2>2. Held(b) \subseteq Uses[b]
    BY <1>1, <2>1, HeldBelow
  <2>3. QED BY <1>1, <2>1, <2>2, AboveIsNoContender
<1>4. Held(c) \cap Held(d) = {}
  BY <1>1, <1>2, <1>3
<1>5. Held(c) \cap LockFree = {} /\ Held(d) \cap LockFree = {}
  BY <1>1, <1>2, HeldBelow, ResourceAssumption
<1>6. Uses[c] \cap Uses[d] \cap LockFree = {}
  BY <1>2, ResourceAssumption
<1>7. QED BY <1>4, <1>5, <1>6 DEF Accesses

(* No two active contexts access the same resource, on any application     *)
(* whose ceilings cover the users of each resource, with or without        *)
(* BASEPRI: what makes the `&mut T` that lock hands out sound.             *)
THEOREM MutualExclusionHolds == Spec => []MutualExclusion
BY Invariance, InvMutualExclusion, PTL

(* Whenever the NVIC starts a handler, no context holds a resource that    *)
(* the handler declares.                                                   *)
THEOREM NoContenderStartsHolds == Spec => NoContenderStarts
<1>1. Inv /\ [Next]_vars =>
         [\A t \in active' \ active : \A c \in active : Held(c) \cap Uses[t] = {}]_vars
  <2>1. SUFFICES ASSUME Inv, Next, NEW t \in active' \ active, NEW c \in active
                 PROVE  Held(c) \cap Uses[t] = {}
    BY DEF vars
  <2>2. PICK u \in Handlers : Take(u)
    BY <2>1
    DEF Next, pend, RunEnter, RunExit, Return, Unlock, UnlockNone, UnlockBasepri,
        UnlockFreeSection, Lock, LockNone, LockBasepri, LockFreeSection
  <2>3. u = t /\ t \in Contexts /\ c \in Contexts /\ t \in active' /\ c \in active'
    BY <2>1, <2>2, ConstantTypes DEF Take, Inv, TypeOK
  <2>4. Inv' /\ priority' = priority
    BY <2>1, <2>2, InvNext DEF Take
  <2>5. PRIORITY[c] < PRIORITY[t]
    BY <2>1, <2>2, <2>3, ConstantTypes DEF Take, Inv, StackInv, TypeOK
  <2>6. priority[c] < PRIORITY[t]
    BY <2>3, <2>4, <2>5 DEF Inv, LevelInv
  <2>7. QED BY <2>1, <2>3, <2>6, AboveIsNoContender
<1>2. QED BY <1>1, Invariance, PTL DEF NoContenderStarts, Spec

(* When a handler is about to return, BASEPRI is what it was when the      *)
(* handler interrupted the context it returns to.                          *)
THEOREM BasepriInvariantHolds == Spec => []BasepriInvariant
<1>1. Inv => BasepriInvariant
  <2>1. SUFFICES ASSUME Inv, pc[running] = "exit"
                 PROVE  basepri = saved[preempted[running]]
    BY DEF BasepriInvariant
  <2>2. running \in active \ {Idle}
    BY <2>1 DEF Inv, StackInv
  <2>3. QED BY <2>1, <2>2 DEF Inv, RestoreInv, View
<1>2. QED BY <1>1, Invariance, PTL

-----------------------------------------------------------------------------
(* That masking goes no further than the ceilings held.  A context masks   *)
(* at least what its sections ask for; this is the converse: its dynamic   *)
(* priority is not above both the static one and the ceilings, and BASEPRI *)
(* not above the dynamic priority.                                         *)

(* The value `view` of BASEPRI masks no level above `level`. *)
AtMost(view, level) == \E l \in 0..LEVELS : view = logical2hw(l) /\ l <= level

(* The outer n sections of c, or its static priority, account for a level. *)
Covered(c, level, n) ==
    \/ level <= PRIORITY[c]
    \/ \E i \in 1..n : level <= CEILING[locks[c][i].res]

(* Every raise of the dynamic priority is accounted for by a section that  *)
(* is still open, and so is the value it goes back to at its end.          *)
ReachInv(c) ==
    /\ priority[c] # MaxPriority =>
          AtMost(View(c), priority[c]) /\ Covered(c, priority[c], Depth(c))
    /\ priority[c] = MaxPriority => \E i \in 1..Depth(c) : locks[c][i].via = "free"
    /\ \A i \in 1..Depth(c) :
          LET f == locks[c][i] IN
          /\ f.via = "free" =>
                AtMost(View(c), f.current) /\ (Armv7m => CEILING[f.res] = LEVELS)
          /\ f.current # MaxPriority => Covered(c, f.current, i - 1)

BlockInv == Inv /\ \A c \in active : ReachInv(c)
-----------------------------------------------------------------------------
(* A context whose sections, level and view of BASEPRI do not change. *)
LEMMA ReachKept ==
    ASSUME NEW c \in Contexts, ReachInv(c), UNCHANGED <<locks[c], priority[c]>>,
           View(c)' = View(c)
    PROVE  ReachInv(c)'
BY DEF ReachInv, Depth, Covered

(* A context without sections under a mask that does not reach above it. *)
LEMMA ReachEmpty ==
    ASSUME NEW c \in Contexts, locks'[c] = <<>>, priority'[c] = PRIORITY[c],
           AtMost(View(c)', PRIORITY[c])
    PROVE  ReachInv(c)'
<1>1. PRIORITY[c] \in 0..LEVELS /\ LEVELS \in 2..128 /\ Depth(c)' = 0
  BY ConstantTypes DEF Depth
<1>2. PRIORITY[c] # MaxPriority /\ PRIORITY[c] <= PRIORITY[c]
  BY <1>1 DEF MaxPriority
<1>3. QED BY <1>1, <1>2 DEF ReachInv, Covered

(* A mask that reaches up to one level reaches no higher than a greater. *)
LEMMA AtMostMonotone ==
    ASSUME NEW view, NEW l \in Int, NEW m \in Int, AtMost(view, l), l <= m
    PROVE  AtMost(view, m)
<1>1. PICK k \in 0..LEVELS : view = logical2hw(k) /\ k <= l
  BY DEF AtMost
<1>2. k \in Int
  BY <1>1, ConstantTypes
<1>3. k <= m
  BY <1>1, <1>2
<1>4. QED BY <1>1, <1>3 DEF AtMost

LEMMA BlockInit == Init => BlockInv
<1>0. SUFFICES ASSUME Init PROVE BlockInv  OBVIOUS
<1>1. active = {Idle} /\ Idle \in Contexts /\ locks[Idle] = <<>>
      /\ priority[Idle] = PRIORITY[Idle] /\ View(Idle) = 0 /\ PRIORITY[Idle] = 0
  BY <1>0, ConstantTypes, PriorityAssumption DEF Init, View
<1>2. AtMost(0, 0)
  <2>1. 0 \in 0..LEVELS /\ 0 = logical2hw(0) /\ 0 <= 0
    BY HardwareLevels
  <2>2. QED BY <2>1 DEF AtMost
<1>3. ReachInv(Idle)
  <2>1. Depth(Idle) = 0 /\ 0 # MaxPriority /\ 0 <= 0
    BY <1>1 DEF Depth, MaxPriority
  <2>2. QED BY <1>1, <1>2, <2>1 DEF ReachInv, Covered
<1>4. QED BY <1>0, <1>1, <1>3, InvInit DEF BlockInv

(* A context that waits, or runs with PRIMASK clear, is not at the top, so *)
(* a handler above its level finds BASEPRI as low as itself.               *)
LEMMA ViewBelow ==
    ASSUME BlockInv, NEW c \in active, NEW t \in Contexts,
           ~(c = running /\ primask), priority[c] < PRIORITY[t]
    PROVE  AtMost(View(c), PRIORITY[t])
<1>1. c \in Contexts /\ priority[c] # MaxPriority /\ priority[c] \in U8
  BY DEF BlockInv, Inv, TypeOK, MaskInv
<1>2. AtMost(View(c), priority[c])
  BY <1>1 DEF BlockInv, ReachInv
<1>3. priority[c] \in Int /\ PRIORITY[t] \in Int
  BY <1>1, ConstantTypes
<1>4. priority[c] <= PRIORITY[t]
  BY <1>3
<1>5. QED BY <1>2, <1>3, <1>4, AtMostMonotone

LEMMA BlockTake ==
    ASSUME BlockInv, NEW t \in Handlers, Take(t)
    PROVE  \A c \in active' : ReachInv(c)'
<1>1. Inv /\ t \in Contexts /\ running \in active /\ active \subseteq Contexts
  BY ConstantTypes DEF BlockInv, Inv, TypeOK, StackInv
<1>2. /\ t \notin active /\ t # running /\ priority[running] < PRIORITY[t]
  BY <1>1, TakeAbove
<1>3. /\ active' = active \cup {t} /\ running' = t
      /\ saved' = [saved EXCEPT ![running] = basepri]
      /\ UNCHANGED <<priority, locks, basepri>> /\ ~primask
  BY DEF Take, Masked
<1>4. saved \in [Contexts -> U8]
  BY <1>1 DEF Inv, TypeOK
<1>5. \A c \in active : View(c)' = View(c)
  BY <1>1, <1>2, <1>3, <1>4 DEF View
<1>6. locks[t] = <<>> /\ priority[t] = PRIORITY[t]
  BY <1>1, <1>2 DEF Inv, FrameInv
<1>7. View(t)' = View(running)
  BY <1>3 DEF View
<1>8. AtMost(View(running), PRIORITY[t])
  BY <1>1, <1>2, <1>3, ViewBelow
<1>9. ReachInv(t)'
  BY <1>1, <1>3, <1>6, <1>7, <1>8, ReachEmpty
<1>10. \A c \in active : ReachInv(c)'
  BY <1>1, <1>3, <1>5, ReachKept DEF BlockInv
<1>11. QED BY <1>3, <1>9, <1>10

LEMMA BlockRunEnter ==
    ASSUME BlockInv, NEW t \in Handlers, RunEnter(t)
    PROVE  \A c \in active' : ReachInv(c)'
<1>1. /\ Inv /\ running = t /\ t \in active /\ active \subseteq Contexts
      /\ pc[t] = "entry" /\ priority \in [Contexts -> U8]
      /\ priority' = [priority EXCEPT ![t] = PRIORITY[t]]
      /\ UNCHANGED <<active, running, saved, locks, basepri>>
  BY DEF BlockInv, Inv, TypeOK, StackInv, RunEnter
<1>2. priority[t] = PRIORITY[t]
  BY <1>1 DEF Inv, FrameInv
<1>3. \A c \in active : UNCHANGED <<locks[c], priority[c]>> /\ View(c)' = View(c)
  BY <1>1, <1>2 DEF View
<1>4. QED BY <1>1, <1>3, ReachKept DEF BlockInv

LEMMA BlockRunExit ==
    ASSUME BlockInv, NEW t \in Handlers, RunExit(t)
    PROVE  \A c \in active' : ReachInv(c)'
<1> DEFINE p == preempted[t]
<1>1. /\ Inv /\ running = t /\ t \in active /\ t # Idle /\ t \in Contexts
      /\ active \subseteq Contexts /\ pc[t] = "body" /\ locks[t] = <<>>
      /\ pc' = [pc EXCEPT ![t] = "exit"]
      /\ pc \in [Contexts -> {"entry", "body", "exit"}]
      /\ UNCHANGED <<active, running, preempted, saved, priority, locks>>
  BY PriorityAssumption DEF BlockInv, Inv, TypeOK, StackInv, RunExit, Contexts
<1>2. p # running /\ p \in active /\ PRIORITY[p] < PRIORITY[t]
  BY <1>1, InterruptedWaits DEF Inv, StackInv
<1>3. priority[p] < PRIORITY[t] /\ priority[t] = PRIORITY[t]
  BY <1>1, <1>2 DEF Inv, LevelInv, FrameInv
<1>4. AtMost(View(p), PRIORITY[t])
  BY <1>1, <1>2, <1>3, ViewBelow
<1>5. Inv'
  BY <1>1, InvRunExit
<1>6. View(t)' = View(p)
  <2>1. pc'[t] # "body"
    BY <1>1
  <2>2. View(t)' = saved'[preempted'[t]]
    BY <1>1, <1>5, <2>1 DEF Inv, RestoreInv
  <2>3. QED BY <1>1, <1>2, <2>2 DEF View
<1>7. ReachInv(t)'
  BY <1>1, <1>3, <1>4, <1>6, ReachEmpty
<1>8. ASSUME NEW c \in active, c # t PROVE ReachInv(c)'
  <2>1. View(c)' = View(c)
    BY <1>1, <1>8 DEF View
  <2>2. QED BY <1>1, <2>1, ReachKept DEF BlockInv
<1>9. QED BY <1>1, <1>7, <1>8

LEMMA BlockReturn ==
    ASSUME BlockInv, NEW t \in Handlers, Return(t)
    PROVE  \A c \in active' : ReachInv(c)'
<1> DEFINE p == preempted[t]
<1>1. /\ Inv /\ running = t /\ t \in active /\ t # Idle /\ t \in Contexts
      /\ active \subseteq Contexts /\ pc[t] = "exit"
      /\ active' = active \ {t} /\ running' = p
      /\ saved' = [saved EXCEPT ![p] = 0] /\ saved \in [Contexts -> U8]
      /\ UNCHANGED <<priority, locks, basepri>>
  BY PriorityAssumption DEF BlockInv, Inv, TypeOK, StackInv, Return, Contexts
<1>2. basepri = saved[p]
  BY <1>1 DEF Inv, RestoreInv, View
<1>3. p \in Contexts /\ p # running
  BY <1>1, InterruptedWaits
<1>4. \A c \in active \ {t} : c \in Contexts /\ View(c)' = View(c)
  BY <1>1, <1>2, <1>3 DEF View
<1>5. QED BY <1>1, <1>4, ReachKept DEF BlockInv

-----------------------------------------------------------------------------
(* The running context enters a section. *)
LEMMA ReachPush ==
    ASSUME BlockInv, NEW c \in active, NEW r \in Resources,
           NEW via \in {"none", "basepri", "free"}, Push(c, r, via),
           priority'[c] # MaxPriority =>
              /\ AtMost(View(c)', priority'[c])
              /\ priority'[c] = priority[c] \/ priority'[c] <= CEILING[r],
           priority'[c] = MaxPriority => priority[c] = MaxPriority \/ via = "free",
           via = "free" => /\ AtMost(View(c)', priority[c])
                           /\ Armv7m => CEILING[r] = LEVELS,
           View(c)' = View(c) \/ priority[c] # MaxPriority
    PROVE  ReachInv(c)'
<1> DEFINE n == Depth(c)
           new == [res |-> r, current |-> priority[c], via |-> via, mask |-> primask]
<1>1. c \in Contexts /\ TypeOK /\ FrameInv(c) /\ ReachInv(c)
  BY DEF BlockInv, Inv, TypeOK
<1>2. /\ n \in Nat /\ Depth(c)' = n + 1
      /\ \A i \in 1..n : locks'[c][i] = locks[c][i]
      /\ locks'[c][n + 1] = new
  BY <1>1, PushFrames
<1>3. priority'[c] # MaxPriority => Covered(c, priority[c], Depth(c))'
  <2>1. SUFFICES ASSUME priority'[c] # MaxPriority
                 PROVE  \/ priority'[c] <= PRIORITY[c]
                        \/ \E i \in 1..(n + 1) : priority'[c] <= CEILING[locks'[c][i].res]
    BY <1>2 DEF Covered
  <2>2. CASE priority'[c] = priority[c]
    BY <1>1, <1>2, <2>1, <2>2 DEF ReachInv, Covered
  <2>3. CASE priority'[c] <= CEILING[r]
    <3>1. n + 1 \in 1..(n + 1) /\ locks'[c][n + 1].res = r
      BY <1>2
    <3>2. QED BY <2>3, <3>1
  <2>4. QED BY <2>1, <2>2, <2>3
<1>4. priority'[c] = MaxPriority => \E i \in 1..(n + 1) : locks'[c][i].via = "free"
  <2>1. CASE priority[c] = MaxPriority
    BY <1>1, <1>2, <2>1 DEF ReachInv
  <2>2. CASE via = "free"
    <3>1. n + 1 \in 1..(n + 1) /\ locks'[c][n + 1].via = "free"
      BY <1>2, <2>2
    <3>2. QED BY <3>1
  <2>3. QED BY <2>1, <2>2
<1>5. ASSUME NEW i \in 1..(n + 1)
      PROVE  LET f == locks'[c][i] IN
             /\ f.via = "free" =>
                   AtMost(View(c)', f.current) /\ (Armv7m => CEILING[f.res] = LEVELS)
             /\ f.current # MaxPriority => Covered(c, locks[c][i].current, i - 1)'
  <2>1. CASE i \in 1..n
    <3>1. locks'[c][i] = locks[c][i] /\ i - 1 \in 0..n
      BY <1>2, <2>1
    <3>2. locks[c][i].via = "free" => priority[c] = MaxPriority
      BY <1>1, <2>1 DEF FrameInv
    <3>3. locks[c][i].current # MaxPriority => Covered(c, locks[c][i].current, i - 1)
      BY <1>1, <2>1 DEF ReachInv
    <3>4. locks[c][i].via = "free" =>
             /\ AtMost(View(c)', locks[c][i].current)
             /\ Armv7m => CEILING[locks[c][i].res] = LEVELS
      BY <1>1, <2>1, <3>2 DEF ReachInv
    <3>5. locks[c][i].current # MaxPriority => Covered(c, locks[c][i].current, i - 1)'
      <4>1. \A k \in 1..(i - 1) : k \in 1..n
        BY <1>2, <2>1
      <4>2. QED BY <1>2, <3>1, <3>3, <4>1 DEF Covered
    <3>6. QED BY <3>1, <3>4, <3>5
  <2>2. CASE i = n + 1
    <3>1. locks'[c][i] = new /\ i - 1 = n
      BY <1>2, <2>2
    <3>2. /\ new.via = via /\ new.current = priority[c] /\ new.res = r
      OBVIOUS
    <3>3. priority[c] # MaxPriority => Covered(c, priority[c], n)
      BY <1>1 DEF ReachInv
    <3>4. new.current # MaxPriority => Covered(c, locks[c][i].current, i - 1)'
      BY <1>2, <3>1, <3>2, <3>3 DEF Covered
    <3>5. QED BY <3>1, <3>2, <3>4
  <2>3. QED BY <1>2, <2>1, <2>2
<1>6. QED BY <1>2, <1>3, <1>4, <1>5 DEF ReachInv

LEMMA BlockLock ==
    ASSUME BlockInv, NEW c \in Contexts, NEW r \in Resources, Lock(c, r)
    PROVE  \A d \in active' : ReachInv(d)'
<1>1. /\ Inv /\ running = c /\ c \in active /\ active \subseteq Contexts
      /\ ReachInv(c) /\ FrameInv(c) /\ TypeOK
      /\ UNCHANGED <<active, running, saved>>
  BY DEF Lock, LockNone, LockBasepri, LockFreeSection, CanLock, BlockInv, Inv, TypeOK,
         StackInv
<1>2. /\ priority \in [Contexts -> U8] /\ priority[c] \in 0..255
      /\ CEILING[r] \in 0..LEVELS /\ LEVELS \in 2..128 /\ MaxPriority = 255
  BY <1>1, ConstantTypes DEF TypeOK, U8, MaxPriority
<1>3. ReachInv(c)'
  <2>1. CASE LockNone(c, r)
    <3>1. Push(c, r, "none") /\ UNCHANGED <<priority, basepri>> /\ View(c)' = View(c)
      BY <1>1, <2>1 DEF LockNone, View
    <3>2. priority[c] # MaxPriority => AtMost(View(c), priority[c])
      BY <1>1 DEF ReachInv
    <3>3. QED BY <1>1, <3>1, <3>2, ReachPush
  <2>2. CASE LockBasepri(c, r)
    <3>1. /\ Push(c, r, "basepri") /\ priority[c] < CEILING[r]
          /\ priority'[c] = CEILING[r] /\ View(c)' = logical2hw(CEILING[r])
      BY <1>1, <1>2, <2>2 DEF LockBasepri, View
    <3>2. priority[c] # MaxPriority /\ priority'[c] # MaxPriority
          /\ CEILING[r] <= CEILING[r]
      BY <1>2, <3>1
    <3>3. AtMost(View(c)', priority'[c])
      BY <1>2, <3>1, <3>2 DEF AtMost
    <3>4. QED BY <1>1, <3>1, <3>2, <3>3, ReachPush
  <2>3. CASE LockFreeSection(c, r)
    <3>1. /\ Push(c, r, "free") /\ priority[c] < CEILING[r]
          /\ priority'[c] = MaxPriority /\ View(c)' = View(c)
          /\ Armv7m => CEILING[r] = LEVELS
      BY <1>1, <1>2, <2>3 DEF LockFreeSection, View
    <3>2. AtMost(View(c), priority[c])
      BY <1>1, <1>2, <3>1 DEF ReachInv
    <3>3. QED BY <1>1, <3>1, <3>2, ReachPush
  <2>4. QED BY <2>1, <2>2, <2>3 DEF Lock
<1>4. ASSUME NEW d \in active, d # c PROVE ReachInv(d)'
  <2>1. UNCHANGED <<locks[d], priority[d]>> /\ View(d)' = View(d)
    BY <1>1, <1>2, <1>4
    DEF Lock, LockNone, LockBasepri, LockFreeSection, Push, View, TypeOK
  <2>2. QED BY <1>1, <2>1, ReachKept DEF BlockInv
<1>5. QED BY <1>1, <1>3, <1>4

(* The running context leaves its innermost section. *)
LEMMA ReachPop ==
    ASSUME BlockInv, NEW c \in active, locks[c] # <<>>, Pop(c),
           priority'[c] = Innermost(c).current,
           priority'[c] # MaxPriority => AtMost(View(c)', priority'[c]),
           priority'[c] = MaxPriority => Innermost(c).via = "none",
           Innermost(c).via # "none" => \A i \in 1..(Depth(c) - 1) : locks[c][i].via # "free",
           Innermost(c).via = "none" => UNCHANGED priority[c] /\ View(c)' = View(c)
    PROVE  ReachInv(c)'
<1> DEFINE n == Depth(c)
<1>1. c \in Contexts /\ TypeOK /\ ReachInv(c)
  BY DEF BlockInv, Inv, TypeOK
<1>2. /\ n \in Nat \ {0} /\ Depth(c)' = n - 1 /\ n \in 1..n
      /\ \A i \in 1..(n - 1) : locks'[c][i] = locks[c][i] /\ i \in 1..n
      /\ Innermost(c) = locks[c][n]
  BY <1>1, PopFrames DEF Innermost
<1>3. priority'[c] # MaxPriority => Covered(c, priority[c], Depth(c))'
  <2>1. priority'[c] # MaxPriority => Covered(c, priority'[c], n - 1)
    BY <1>1, <1>2 DEF ReachInv
  <2>2. QED BY <1>2, <2>1 DEF Covered
<1>4. priority'[c] = MaxPriority => \E i \in 1..(n - 1) : locks'[c][i].via = "free"
  <2>1. SUFFICES ASSUME priority'[c] = MaxPriority
                 PROVE  \E i \in 1..(n - 1) : locks'[c][i].via = "free"
    OBVIOUS
  <2>2. PICK i \in 1..n : locks[c][i].via = "free"
    BY <1>1, <2>1 DEF ReachInv
  <2>3. i \in 1..(n - 1)
    BY <1>2, <2>1, <2>2
  <2>4. QED BY <1>2, <2>2, <2>3
<1>5. ASSUME NEW i \in 1..(n - 1)
      PROVE  LET f == locks'[c][i] IN
             /\ f.via = "free" =>
                   AtMost(View(c)', f.current) /\ (Armv7m => CEILING[f.res] = LEVELS)
             /\ f.current # MaxPriority => Covered(c, locks[c][i].current, i - 1)'
  <2>1. /\ locks'[c][i] = locks[c][i] /\ i \in 1..n
        /\ \A k \in 1..(i - 1) : k \in 1..(n - 1)
    BY <1>2
  <2>2. /\ locks[c][i].via = "free" =>
              /\ AtMost(View(c), locks[c][i].current)
              /\ Armv7m => CEILING[locks[c][i].res] = LEVELS
        /\ locks[c][i].current # MaxPriority => Covered(c, locks[c][i].current, i - 1)
    BY <1>1, <2>1 DEF ReachInv
  <2>3. locks[c][i].via = "free" => View(c)' = View(c)
    OBVIOUS
  <2>4. locks[c][i].current # MaxPriority => Covered(c, locks[c][i].current, i - 1)'
    BY <1>2, <2>1, <2>2 DEF Covered
  <2>5. QED BY <2>1, <2>2, <2>3, <2>4
<1>6. QED BY <1>2, <1>3, <1>4, <1>5 DEF ReachInv

LEMMA BlockUnlock ==
    ASSUME BlockInv, NEW c \in Contexts, Unlock(c)
    PROVE  \A d \in active' : ReachInv(d)'
<1> DEFINE f == Innermost(c)
           n == Depth(c)
<1>1. /\ Inv /\ running = c /\ c \in active /\ active \subseteq Contexts
      /\ ReachInv(c) /\ FrameInv(c) /\ TypeOK /\ locks[c] # <<>> /\ Pop(c)
      /\ UNCHANGED <<active, running, saved>>
  BY DEF Unlock, UnlockNone, UnlockBasepri, UnlockFreeSection, CanUnlock, BlockInv, Inv,
         TypeOK, StackInv
<1>2. /\ n \in Nat \ {0} /\ n \in 1..n /\ f = locks[c][n] /\ After(c, n) = priority[c]
      /\ \A i \in 1..(n - 1) : i \in 1..n /\ i < n
      /\ \A d \in Contexts \ {c} : locks'[d] = locks[d]
  BY <1>1, PopFrames DEF Innermost, After
<1>3. f \in Frame /\ f.current \in 0..255 /\ f.res \in Resources
  BY <1>1, PopType DEF Frame, U8
<1>4. /\ priority \in [Contexts -> U8] /\ CEILING[f.res] \in 0..LEVELS
      /\ LEVELS \in 2..128 /\ MaxPriority = 255
  BY <1>1, <1>3, ConstantTypes DEF TypeOK, MaxPriority
<1>5. /\ f.via # "none" => f.current < CEILING[f.res]
      /\ f.via = "none" => priority[c] = f.current
      /\ f.via = "basepri" => priority[c] # MaxPriority
      /\ \A i \in 1..n : locks[c][i].via = "free" => priority[c] = MaxPriority
      /\ \A i \in 1..(n - 1) : locks[c][i].via = "free" => f.via = "none"
  BY <1>1, <1>2 DEF FrameInv
<1>6. f.via # "none" => f.current \in 0..LEVELS /\ f.current # MaxPriority
  BY <1>3, <1>4, <1>5
<1>7. ReachInv(c)'
  <2>1. CASE UnlockNone(c)
    <3>1. f.via = "none" /\ UNCHANGED <<priority, basepri>> /\ View(c)' = View(c)
          /\ priority'[c] = f.current
      BY <1>1, <1>5, <2>1 DEF UnlockNone, CanUnlock, View
    <3>2. priority[c] # MaxPriority => AtMost(View(c), priority[c])
      BY <1>1 DEF ReachInv
    <3>3. QED BY <1>1, <3>1, <3>2, ReachPop
  <2>2. CASE UnlockBasepri(c)
    <3>1. /\ f.via = "basepri" /\ priority'[c] = f.current
          /\ View(c)' = logical2hw(f.current)
      BY <1>1, <1>4, <2>2 DEF UnlockBasepri, CanUnlock, View
    <3>2. f.current <= f.current
      BY <1>3
    <3>3. AtMost(View(c)', priority'[c])
      BY <1>6, <3>1, <3>2 DEF AtMost
    <3>4. QED BY <1>1, <1>5, <1>6, <3>1, <3>3, ReachPop
  <2>3. CASE UnlockFreeSection(c)
    <3>1. f.via = "free" /\ priority'[c] = f.current /\ View(c)' = View(c)
      BY <1>1, <1>4, <2>3 DEF UnlockFreeSection, CanUnlock, View
    <3>2. AtMost(View(c), f.current)
      BY <1>1, <1>2, <3>1 DEF ReachInv
    <3>3. QED BY <1>1, <1>5, <1>6, <3>1, <3>2, ReachPop
  <2>4. QED BY <2>1, <2>2, <2>3 DEF Unlock
<1>8. ASSUME NEW d \in active, d # c PROVE ReachInv(d)'
  <2>1. UNCHANGED priority[d] /\ View(d)' = View(d)
    BY <1>1, <1>4, <1>8 DEF Unlock, UnlockNone, UnlockBasepri, UnlockFreeSection, View
  <2>2. QED BY <1>1, <1>2, <1>8, <2>1, ReachKept DEF BlockInv
<1>9. QED BY <1>1, <1>7, <1>8

-----------------------------------------------------------------------------
LEMMA BlockNext == BlockInv /\ [Next]_vars => BlockInv'
<1>0. SUFFICES ASSUME BlockInv, [Next]_vars PROVE BlockInv'  OBVIOUS
<1>1. Inv'
  BY <1>0, InvNext DEF BlockInv
<1>2. ASSUME NEW t \in Handlers, pend(t) PROVE \A c \in active' : ReachInv(c)'
  BY <1>0, <1>2, ReachKept DEF pend, View, BlockInv, Inv, TypeOK
<1>3. ASSUME UNCHANGED vars PROVE \A c \in active' : ReachInv(c)'
  BY <1>0, <1>3, ReachKept DEF vars, View, BlockInv, Inv, TypeOK
<1>4. \A c \in active' : ReachInv(c)'
  BY <1>0, <1>2, <1>3, BlockTake, BlockRunEnter, BlockRunExit, BlockReturn, BlockLock,
     BlockUnlock DEF Next
<1>5. QED BY <1>1, <1>4 DEF BlockInv

LEMMA BlockInvNoOverBlocking == BlockInv => NoOverBlocking
<1> DEFINE c == running
<1>1. SUFFICES ASSUME BlockInv, NEW t \in Handlers, PRIORITY[t] > PRIORITY[c],
                      \A r \in Held(c) : IF Armv7m THEN CEILING[r] < PRIORITY[t]
                                         ELSE CEILING[r] <= PRIORITY[c]
               PROVE  ~Masked(t)
  BY DEF NoOverBlocking
<1>2. /\ Inv /\ c \in active /\ c \in Contexts /\ ReachInv(c) /\ FrameInv(c)
      /\ PRIORITY[c] \in 0..LEVELS /\ PRIORITY[t] \in 1..LEVELS /\ LEVELS \in 2..128
      /\ priority[c] \in 0..255 /\ View(c) = basepri
      /\ priority[c] = MaxPriority <=> primask
  BY <1>1, ConstantTypes DEF BlockInv, Inv, TypeOK, StackInv, MaskInv, View, U8
<1>3. \A i \in 1..Depth(c) :
         /\ locks[c][i].res \in Held(c) /\ CEILING[locks[c][i].res] \in 0..LEVELS
  <2>1. \A i \in 1..Depth(c) : locks[c][i].res \in Held(c)
    BY DEF Held
  <2>2. QED BY <1>2, <2>1, HeldBelow, ConstantTypes
<1>4. ~primask
  <2>1. SUFFICES ASSUME primask PROVE FALSE  OBVIOUS
  <2>2. PICK i \in 1..Depth(c) : locks[c][i].via = "free"
    BY <1>2, <2>1 DEF ReachInv
  <2>3. CASE Armv7m
    BY <1>1, <1>2, <1>3, <2>2, <2>3 DEF ReachInv
  <2>4. CASE ~Armv7m
    <3>1. CEILING[locks[c][i].res] <= PRIORITY[c]
      BY <1>1, <1>3, <2>4
    <3>2. /\ locks[c][i].current < CEILING[locks[c][i].res]
          /\ PRIORITY[c] <= locks[c][i].current
      BY <1>2, <2>2 DEF FrameInv
    <3>3. locks[c][i].current \in Int
      <4>1. locks[c] \in Seq(Frame)
        BY <1>2 DEF Inv, TypeOK
      <4>2. locks[c][i] \in Frame
        BY <4>1 DEF Depth
      <4>3. QED BY <4>2 DEF Frame, U8
    <3>4. QED BY <1>2, <1>3, <3>1, <3>2, <3>3
  <2>5. QED BY <2>3, <2>4
<1>5. ~(basepri # 0 /\ logical2hw(PRIORITY[t]) >= basepri)
  <2>1. SUFFICES ASSUME basepri # 0 PROVE ~(logical2hw(PRIORITY[t]) >= basepri)
    OBVIOUS
  <2>2. Armv7m
    BY <1>2, <2>1 DEF Inv, HardwareInv
  <2>3. AtMost(basepri, priority[c]) /\ Covered(c, priority[c], Depth(c))
    BY <1>2, <1>4 DEF ReachInv
  <2>4. priority[c] < PRIORITY[t]
    <3>1. CASE priority[c] <= PRIORITY[c]
      BY <1>1, <1>2, <3>1
    <3>2. CASE \E i \in 1..Depth(c) : priority[c] <= CEILING[locks[c][i].res]
      BY <1>1, <1>2, <1>3, <2>2, <3>2
    <3>3. QED BY <2>3, <3>1, <3>2 DEF Covered
  <2>5. PICK l \in 0..LEVELS : basepri = logical2hw(l) /\ l <= priority[c]
    BY <2>3 DEF AtMost
  <2>6. l \in 1..LEVELS /\ l < PRIORITY[t]
    BY <1>2, <2>1, <2>4, <2>5, HardwareLevels
  <2>7. logical2hw(PRIORITY[t]) < logical2hw(l)
    BY <1>2, <2>6, HardwareLevels
  <2>8. logical2hw(PRIORITY[t]) \in Int /\ logical2hw(l) \in Int
    <3>1. PRIORITY[t] \in 0..LEVELS
      BY <1>2
    <3>2. logical2hw(PRIORITY[t]) \in U8 /\ logical2hw(l) \in U8
      BY <3>1, HardwareLevels
    <3>3. QED BY <3>2, ConstantTypes
  <2>9. QED BY <2>5, <2>7, <2>8
<1>6. QED BY <1>4, <1>5 DEF Masked

(* Masking goes no further than the ceilings held, on every application:   *)
(* neither nested sections that end in any mixture of BASEPRI and PRIMASK  *)
(* nor preemption and return leave a handler waiting that shares nothing   *)
(* with what is locked.                                                    *)
THEOREM NoOverBlockingHolds == Spec => []NoOverBlocking
<1>1. Init => BlockInv
  BY BlockInit
<1>2. BlockInv /\ [Next]_vars => BlockInv'
  BY BlockNext
<1>3. BlockInv => NoOverBlocking
  BY BlockInvNoOverBlocking
<1>4. QED BY <1>1, <1>2, <1>3, PTL DEF Spec
=============================================================================
