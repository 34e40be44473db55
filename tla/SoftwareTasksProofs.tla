------------------------- MODULE SoftwareTasksProofs -------------------------
(***************************************************************************)
(* For every set of tasks, capacities, callers and priorities: the queues  *)
(* and buffers of SoftwareTasks keep their types, every index under way is *)
(* one of its task's buffer, and a ready queue that holds something is     *)
(* never left without a dispatcher that will look at it.                   *)
(*                                                                         *)
(* And where no context that cancels preempts the dispatcher: each slot of *)
(* a message buffer is in exactly one place, the message that is given out *)
(* is the one that was sent, the message passing as a whole is a mailbox,  *)
(* and no queue ever holds more than it has room for.                      *)
(***************************************************************************)
EXTENDS SoftwareTasks, Collections

(* Entries whose index is one of their own task's buffer. *)
SlotEntries == {e \in Entries : e.index \in Indices(e.task)}
TimerSlots == {e \in TimerEntries : e.index \in Indices(e.task)}

(* TypeOK is not inductive: what is read from a buffer, and put back into  *)
(* a free queue, depends on the index being one of that task.              *)
FreeQueues ==
    FQ = [t \in Tasks |-> FQ[t]]
      /\ \A t \in Tasks : FQ[t] \in QueueOf(RingSize(CAPACITY[t]), Indices(t))
Buffers ==
    INPUTS = [t \in Tasks |-> INPUTS[t]]
      /\ \A t \in Tasks : INPUTS[t] \in [Indices(t) -> Messages \cup {None}]
ReadyQueue == RQ \in Seq(SlotEntries)
TimerQueueType == TQ \subseteq TimerSlots /\ handles \subseteq Markers
Calls ==
    op \in [Contexts -> Locals]
      /\ \A c \in Contexts : Carries(c) => op[c].entry \in SlotEntries
Flags ==
    pended \in BOOLEAN
      /\ outcome \in [sent : Messages \cup {None}, got : Messages \cup {None}]

TypeInv == FreeQueues /\ Buffers /\ ReadyQueue /\ TimerQueueType /\ Calls /\ Flags
-----------------------------------------------------------------------------
(* The arithmetic of the rings. *)
LEMMA ModRange == \A x \in Int, n \in Nat \ {0} : x % n \in 0..(n - 1)
OBVIOUS

LEMMA RingSizes ==
    \A t \in Tasks : /\ CAPACITY[t] \in 1..128
                     /\ RingSize(CAPACITY[t]) \in {1, 2, 4, 8, 16, 32, 64, 128}
                     /\ CAPACITY[t] <= RingSize(CAPACITY[t])
<1> SUFFICES ASSUME NEW t \in Tasks
             PROVE  /\ CAPACITY[t] \in 1..128
                    /\ RingSize(CAPACITY[t]) \in {1, 2, 4, 8, 16, 32, 64, 128}
                    /\ CAPACITY[t] <= RingSize(CAPACITY[t])
  OBVIOUS
<1> DEFINE k == CAPACITY[t]
           S == {1, 2, 4, 8, 16, 32, 64, 128}
<1>1. k \in 1..128
  BY ContextAssumption
<1>2. \E n \in S : n >= k /\ n < 2 * k
  <2>1. CASE k <= 1  BY <1>1, <2>1
  <2>2. CASE 1 < k /\ k <= 2  BY <1>1, <2>2
  <2>3. CASE 2 < k /\ k <= 4  BY <1>1, <2>3
  <2>4. CASE 4 < k /\ k <= 8  BY <1>1, <2>4
  <2>5. CASE 8 < k /\ k <= 16  BY <1>1, <2>5
  <2>6. CASE 16 < k /\ k <= 32  BY <1>1, <2>6
  <2>7. CASE 32 < k /\ k <= 64  BY <1>1, <2>7
  <2>8. CASE 64 < k  BY <1>1, <2>8
  <2>9. QED BY <1>1, <2>1, <2>2, <2>3, <2>4, <2>5, <2>6, <2>7, <2>8
<1>3. RingSize(k) \in S /\ RingSize(k) >= k
  BY <1>2 DEF RingSize
<1>4. QED BY <1>1, <1>3

(* What the operations of the ring do to a queue of n elements. *)
LEMMA RingTypes ==
    ASSUME NEW n \in Nat \ {0}, NEW E, NEW q \in QueueOf(n, E)
    PROVE  /\ Size(q) = n
           /\ Oldest(q) \in E
           /\ Dequeued(q) \in QueueOf(n, E)
           /\ \A tail \in Nat, e \in E : Stored(q, tail, e) \in QueueOf(n, E)
           /\ \A tail \in Nat : Published(q, tail) \in QueueOf(n, E)
           /\ \A e \in E : Enqueued(q, e) \in QueueOf(n, E)
<1>1. Wrap \in Nat \ {0}
  BY WrapAssumption
<1>2. ASSUME NEW p \in QueueOf(n, E) PROVE Size(p) = n
  <2>1. DOMAIN p.buf = 0..(n - 1)
    BY <1>2 DEF QueueOf
  <2>2. \E i \in DOMAIN p.buf : \A j \in DOMAIN p.buf : j <= i
    <3>1. n - 1 \in 0..(n - 1) /\ \A j \in 0..(n - 1) : j <= n - 1
      OBVIOUS
    <3>2. QED BY <2>1, <3>1
  <2>3. \A i \in 0..(n - 1) : (\A j \in 0..(n - 1) : j <= i) => i = n - 1
    OBVIOUS
  <2>4. (CHOOSE i \in DOMAIN p.buf : \A j \in DOMAIN p.buf : j <= i) = n - 1
    BY <2>1, <2>2, <2>3
  <2> DEFINE last == CHOOSE i \in DOMAIN p.buf : \A j \in DOMAIN p.buf : j <= i
  <2>5. Size(p) = 1 + last
    BY Zenon DEF Size
  <2>6. last = n - 1
    BY <2>4
  <2> HIDE DEF last
  <2>7. QED BY <2>5, <2>6
<1>3. /\ q.buf \in [0..(n - 1) -> E] /\ q.head \in 0..(Wrap - 1)
      /\ q.tail \in 0..(Wrap - 1)
  BY DEF QueueOf
<1>4. Oldest(q) \in E
  <2>0. q.head \in Int
    BY <1>1, <1>3
  <2>1. q.head % n \in 0..(n - 1)
    BY <2>0, ModRange
  <2>2. QED BY <1>2, <1>3, <2>1 DEF Oldest
<1>5. Dequeued(q) \in QueueOf(n, E)
  <2>0. q.head + 1 \in Int
    BY <1>1, <1>3
  <2>1. (q.head + 1) % Wrap \in 0..(Wrap - 1)
    BY <2>0, <1>1, ModRange
  <2>2. QED BY <2>1 DEF Dequeued, QueueOf
<1>6. ASSUME NEW tail \in Nat, NEW e \in E PROVE Stored(q, tail, e) \in QueueOf(n, E)
  <2>1. [q.buf EXCEPT ![tail % Size(q)] = e] \in [0..(n - 1) -> E]
    BY <1>3
  <2>2. QED BY <1>3, <2>1 DEF Stored, QueueOf
<1>7. ASSUME NEW p \in QueueOf(n, E), NEW tail \in Nat
      PROVE  Published(p, tail) \in QueueOf(n, E)
  <2>1. (tail + 1) % Wrap \in 0..(Wrap - 1)
    BY <1>1, ModRange
  <2>2. QED BY <2>1 DEF Published, QueueOf
<1>8. ASSUME NEW e \in E PROVE Enqueued(q, e) \in QueueOf(n, E)
  <2>1. q.tail \in Nat
    BY <1>1, <1>3
  <2>2. QED BY <1>6, <1>7, <2>1 DEF Enqueued
<1>9. QED BY <1>2, <1>4, <1>5, <1>6, <1>7, <1>8

LEMMA TypeInvSuffices == TypeInv => TypeOK
<1> SUFFICES ASSUME TypeInv PROVE TypeOK
  OBVIOUS
<1>1. SlotEntries \subseteq Entries /\ TimerSlots \subseteq TimerEntries
  BY DEF SlotEntries, TimerSlots
<1>2. RQ \in Seq(Entries)
  BY <1>1 DEF TypeInv, ReadyQueue
<1>3. TQ \subseteq TimerEntries
  BY <1>1 DEF TypeInv, TimerQueueType
<1>4. QED
  BY <1>2, <1>3 DEF TypeInv, FreeQueues, Buffers, TimerQueueType, Calls, Flags, TypeOK

-----------------------------------------------------------------------------
(* What the parts of an action do to the parts of the invariant. *)
LEMMA ContextFacts ==
    /\ Dispatcher \in Contexts /\ Timer \in Contexts /\ Dispatcher # Timer
    /\ Spawners \subseteq Contexts /\ Timer \notin Spawners
    /\ Cancellers \subseteq Spawners
    /\ \A t \in Tasks : Indices(t) \subseteq SlotIndex
    /\ \A t \in Tasks : RingSize(CAPACITY[t]) \in Nat \ {0}
    /\ 0 \in 0..(Wrap - 1)
<1>1. 0 \in 0..(Wrap - 1)
  BY WrapAssumption
<1>2. \A t \in Tasks : RingSize(CAPACITY[t]) \in Nat \ {0}
  BY RingSizes
<1>3. \A t \in Tasks : Indices(t) \subseteq SlotIndex
  BY DEF SlotIndex
<1>4. QED BY <1>1, <1>2, <1>3, ContextAssumption DEF Contexts, Spawners

(* A context's locals are replaced. *)
LEMMA CallReplaced ==
    ASSUME Calls, NEW c \in Contexts, NEW L \in Locals,
           L.pc \in {"write", "enqueue", "read", "load", "store", "publish"}
             => L.entry \in SlotEntries,
           op' = [op EXCEPT ![c] = L]
    PROVE  Calls'
<1>1. op' \in [Contexts -> Locals]
  BY DEF Calls
<1>2. ASSUME NEW d \in Contexts, Carries(d)' PROVE op'[d].entry \in SlotEntries
  <2>1. CASE d = c
    <3>1. op'[d] = L
      BY <2>1 DEF Calls
    <3>2. QED BY <1>2, <3>1 DEF Carries
  <2>2. CASE d # c
    <3>1. op'[d] = op[d]
      BY <2>2 DEF Calls
    <3>2. QED BY <1>2, <3>1 DEF Carries, Calls
  <2>3. QED BY <2>1, <2>2
<1>3. QED BY <1>1, <1>2 DEF Calls, SlotEntries

(* A context goes on, with the entry it has or without one. *)
LEMMA CallGoesOn ==
    ASSUME Calls, NEW c \in Contexts,
           NEW pc \in {"idle", "write", "enqueue", "pend", "dequeue", "read",
                       "load", "store", "publish", "run", "return"},
           pc \in {"write", "enqueue", "read", "load", "store", "publish"}
             => Carries(c),
           GoTo(c, pc)
    PROVE  Calls'
<1> DEFINE L == [op[c] EXCEPT !.pc = pc]
<1>1. op[c] \in Locals
  BY DEF Calls
<1>2. L \in Locals /\ L.pc = pc /\ L.entry = op[c].entry
  BY <1>1 DEF Locals
<1>3. op' = [op EXCEPT ![c] = L]
  BY DEF GoTo, Calls
<1>4. pc \in {"write", "enqueue", "read", "load", "store", "publish"}
        => L.entry \in SlotEntries
  BY <1>2 DEF Calls
<1> HIDE DEF L
<1>5. QED BY <1>2, <1>3, <1>4, CallReplaced

(* A context ends what it was doing. *)
LEMMA CallEnds ==
    ASSUME Calls, NEW c \in Contexts, NEW pc \in {"idle", "run", "dequeue"},
           op' = [op EXCEPT ![c] = [NoCall EXCEPT !.pc = pc]]
    PROVE  Calls'
<1> DEFINE L == [NoCall EXCEPT !.pc = pc]
<1>1. L \in Locals /\ L.pc = pc
  BY ContextFacts DEF NoCall, Locals
<1> HIDE DEF L
<1>2. op' = [op EXCEPT ![c] = L]
  BY DEF L
<1>3. QED BY <1>1, <1>2, CallReplaced

(* A free queue is replaced by another of its type. *)
LEMMA FreeQueueReplaced ==
    ASSUME FreeQueues, NEW t \in Tasks,
           NEW q \in QueueOf(RingSize(CAPACITY[t]), Indices(t)),
           FQ' = [FQ EXCEPT ![t] = q]
    PROVE  FreeQueues'
<1>1. \A u \in Tasks : FQ'[u] = IF u = t THEN q ELSE FQ[u]
  BY DEF FreeQueues
<1>2. FQ' = [u \in Tasks |-> FQ'[u]]
  BY DEF FreeQueues
<1>3. \A u \in Tasks : FQ'[u] \in QueueOf(RingSize(CAPACITY[u]), Indices(u))
  BY <1>1 DEF FreeQueues
<1>4. QED BY <1>2, <1>3 DEF FreeQueues, Indices

(* What is read out of a slot is a message, if one was written. *)
LEMMA SlotRead ==
    ASSUME Buffers, NEW e, e.task \in Tasks, e.index \in Indices(e.task)
    PROVE  INPUTS[e.task][e.index] \in Messages \cup {None}
BY DEF Buffers

-----------------------------------------------------------------------------
LEMMA InitType == Init => TypeInv
<1> SUFFICES ASSUME Init PROVE TypeInv
  OBVIOUS
<1>1. FreeQueues
  <2>1. ASSUME NEW t \in Tasks
        PROVE  FreeQueue(t) \in QueueOf(RingSize(CAPACITY[t]), Indices(t))
    <3> DEFINE n == RingSize(CAPACITY[t])
               k == CAPACITY[t]
               f == [i \in 0..(n - 1) |-> IF i < k THEN i ELSE 0]
    <3>1. k \in 1..128 /\ n \in Nat \ {0}
      BY <2>1, RingSizes
    <3>2. \A i \in 0..(n - 1) : f[i] \in Indices(t)
      BY <3>1 DEF Indices
    <3>3. k % Wrap \in 0..(Wrap - 1)
      <4> HIDE DEF k, n, f
      <4>1. k \in Int /\ Wrap \in Nat \ {0}
        BY <3>1, WrapAssumption
      <4>2. QED BY <4>1, ModRange
    <3>4. [i \in 0..(n - 1) |-> f[i]] \in [0..(n - 1) -> Indices(t)]
      BY <3>2
    <3>5. FreeQueue(t) = [buf |-> [i \in 0..(n - 1) |-> f[i]], head |-> 0,
                          tail |-> k % Wrap]
      BY DEF FreeQueue, Filled
    <3> HIDE DEF f, k
    <3>6. QED BY <3>3, <3>4, <3>5, ContextFacts DEF QueueOf
  <2>2. FQ = [t \in Tasks |-> FreeQueue(t)]
    BY DEF Init
  <2>3. FQ = [t \in Tasks |-> FQ[t]]
    BY <2>2
  <2>4. \A t \in Tasks : FQ[t] = FreeQueue(t)
    BY <2>2
  <2>5. QED BY <2>1, <2>3, <2>4 DEF FreeQueues
<1>2. Buffers
  BY DEF Init, Buffers
<1>3. ReadyQueue /\ TimerQueueType /\ Flags
  <2>1. ReadyQueue
    BY DEF Init, ReadyQueue
  <2>2. TimerQueueType
    BY DEF Init, TimerQueueType
  <2>3. Flags
    BY DEF Init, Flags
  <2>4. QED BY <2>1, <2>2, <2>3
<1>4. Calls
  <2>1. NoCall \in Locals /\ NoCall.pc = "idle"
    BY ContextFacts DEF NoCall, Locals
  <2>2. op = [c \in Contexts |-> NoCall]
    BY DEF Init
  <2>3. \A c \in Contexts : op[c] = NoCall
    BY <2>2
  <2>4. QED BY <2>1, <2>2, <2>3 DEF Calls, Carries
<1>5. QED BY <1>1, <1>2, <1>3, <1>4 DEF TypeInv

(* One step of an action at a time. *)
LEMMA SpawnClaimType ==
    ASSUME TypeInv, NEW c \in Spawners, NEW t \in Tasks, NEW m \in Messages,
           SpawnClaim(c, t, m)
    PROVE  TypeInv'
<1>1. /\ FQ[t] \in QueueOf(RingSize(CAPACITY[t]), Indices(t))
      /\ RingSize(CAPACITY[t]) \in Nat \ {0}
  BY ContextFacts DEF TypeInv, FreeQueues
<1>2. /\ Oldest(FQ[t]) \in Indices(t)
      /\ Dequeued(FQ[t]) \in QueueOf(RingSize(CAPACITY[t]), Indices(t))
  BY <1>1, RingTypes
<1>3. FreeQueues'
  <2>1. FQ' = [FQ EXCEPT ![t] = Dequeued(FQ[t])]
    BY DEF SpawnClaim
  <2>2. QED BY <1>2, <2>1, FreeQueueReplaced DEF TypeInv
<1>4. Calls'
  <2> DEFINE L == [pc |-> "write", tail |-> 0, entry |-> Entry(t, Oldest(FQ[t]), m)]
  <2>1. Entry(t, Oldest(FQ[t]), m) \in SlotEntries
    BY <1>2, ContextFacts DEF Entry, SlotEntries, Entries
  <2>2. L \in Locals /\ L.entry \in SlotEntries
    BY <2>1, ContextFacts DEF Locals, SlotEntries
  <2>3. op' = [op EXCEPT ![c] = L]
    BY DEF SpawnClaim
  <2> HIDE DEF L
  <2>4. QED BY <2>2, <2>3, CallReplaced, ContextFacts DEF TypeInv
<1>5. Buffers' /\ ReadyQueue' /\ TimerQueueType' /\ Flags'
  BY DEF SpawnClaim, TypeInv, Buffers, ReadyQueue, TimerQueueType, Flags
<1>6. QED BY <1>3, <1>4, <1>5 DEF TypeInv

LEMMA CallStepType ==
    ASSUME TypeInv, NEW c \in Spawners, CallStep(c)
    PROVE  TypeInv'
<1>1. CASE SpawnWrite(c)
  <2>1. op[c].entry \in SlotEntries /\ Carries(c)
    BY <1>1, ContextFacts DEF SpawnWrite, At, Carries, TypeInv, Calls
  <2>2. Buffers'
    <3> DEFINE e == op[c].entry
    <3>1. e.task \in Tasks /\ e.index \in Indices(e.task) /\ e.sent \in Messages
      BY <2>1 DEF SlotEntries, Entries
    <3>2. INPUTS' = [INPUTS EXCEPT ![e.task][e.index] = e.sent]
      BY <1>1 DEF SpawnWrite
    <3> HIDE DEF e
    <3>3. QED BY <3>1, <3>2 DEF TypeInv, Buffers
  <2>3. Calls'
    BY <1>1, <2>1, CallGoesOn, ContextFacts DEF SpawnWrite, TypeInv
  <2>4. FreeQueues' /\ ReadyQueue' /\ TimerQueueType' /\ Flags'
    BY <1>1 DEF SpawnWrite, TypeInv, FreeQueues, ReadyQueue, TimerQueueType, Flags
  <2>5. QED BY <2>2, <2>3, <2>4 DEF TypeInv
<1>2. CASE SpawnEnqueue(c)
  <2>1. op[c].entry \in SlotEntries
    BY <1>2, ContextFacts DEF SpawnEnqueue, At, Carries, TypeInv, Calls
  <2>2. ReadyQueue'
    BY <1>2, <2>1 DEF SpawnEnqueue, TypeInv, ReadyQueue
  <2>3. Calls'
    BY <1>2, CallGoesOn, ContextFacts DEF SpawnEnqueue, TypeInv
  <2>4. FreeQueues' /\ Buffers' /\ TimerQueueType' /\ Flags'
    BY <1>2 DEF SpawnEnqueue, TypeInv, FreeQueues, Buffers, TimerQueueType, Flags
  <2>5. QED BY <2>2, <2>3, <2>4 DEF TypeInv
<1>3. CASE ScheduleEnqueue(c)
  <2>1. op[c].entry \in SlotEntries
    BY <1>3, ContextFacts DEF ScheduleEnqueue, At, Carries, TypeInv, Calls
  <2>2. TimerQueueType'
    <3>1. PICK m \in Markers :
             /\ TQ' = TQ \cup {[task |-> op[c].entry.task, index |-> op[c].entry.index,
                                sent |-> op[c].entry.sent, marker |-> m]}
             /\ handles' = handles \cup {m}
      BY <1>3 DEF ScheduleEnqueue
    <3>2. [task |-> op[c].entry.task, index |-> op[c].entry.index,
           sent |-> op[c].entry.sent, marker |-> m] \in TimerSlots
      BY <2>1 DEF SlotEntries, Entries, TimerSlots, TimerEntries
    <3>3. QED BY <3>1, <3>2 DEF TypeInv, TimerQueueType
  <2>3. Calls'
    BY <1>3, CallEnds, ContextFacts DEF ScheduleEnqueue, GoHome, Home, TypeInv
  <2>4. FreeQueues' /\ Buffers' /\ ReadyQueue' /\ Flags'
    BY <1>3 DEF ScheduleEnqueue, TypeInv, FreeQueues, Buffers, ReadyQueue, Flags
  <2>5. QED BY <2>2, <2>3, <2>4 DEF TypeInv
<1>4. CASE SpawnPend(c)
  <2>1. Calls'
    BY <1>4, CallEnds, ContextFacts DEF SpawnPend, GoHome, Home, TypeInv
  <2>2. FreeQueues' /\ Buffers' /\ ReadyQueue' /\ TimerQueueType' /\ Flags'
    BY <1>4
       DEF SpawnPend, TypeInv, FreeQueues, Buffers, ReadyQueue, TimerQueueType, Flags
  <2>3. QED BY <2>1, <2>2 DEF TypeInv
<1>5. QED BY <1>1, <1>2, <1>3, <1>4 DEF CallStep

LEMMA HandleType ==
    ASSUME TypeInv, NEW h \in Markers,
           \/ DropHandle(h)
           \/ \E c \in Cancellers : cancel(c, h) \/ reschedule_at(c, h)
    PROVE  TypeInv'
<1>1. CASE DropHandle(h)
  BY <1>1 DEF DropHandle, TypeInv, FreeQueues, Buffers, ReadyQueue, TimerQueueType,
              Calls, Carries, Flags
<1>2. ASSUME NEW c \in Cancellers, cancel(c, h) PROVE TypeInv'
  <2>1. CASE ~ \E e \in TQ : e.marker = h
    <3>1. TQ' = TQ /\ outcome' = outcome /\ FQ' = FQ
      BY <1>2, <2>1, Zenon DEF cancel
    <3>2. QED
      BY <1>2, <3>1 DEF cancel, TypeInv, FreeQueues, Buffers, ReadyQueue,
                        TimerQueueType, Calls, Carries, Flags
  <2>2. CASE \E e \in TQ : e.marker = h
    <3>1. PICK e \in TQ :
             /\ TQ' = TQ \ {e}
             /\ outcome' = [sent |-> e.sent, got |-> INPUTS[e.task][e.index]]
             /\ FQ' = [FQ EXCEPT ![e.task] = Enqueued(FQ[e.task], e.index)]
      BY <1>2, <2>2 DEF cancel
    <3>2. e.task \in Tasks /\ e.index \in Indices(e.task) /\ e.sent \in Messages
      BY DEF TypeInv, TimerQueueType, TimerSlots, TimerEntries
    <3>3. FreeQueues'
      <4>1. Enqueued(FQ[e.task], e.index)
              \in QueueOf(RingSize(CAPACITY[e.task]), Indices(e.task))
        BY <3>2, RingTypes, ContextFacts DEF TypeInv, FreeQueues
      <4>2. QED BY <3>1, <3>2, <4>1, FreeQueueReplaced DEF TypeInv
    <3>4. Flags'
      <4>1. INPUTS[e.task][e.index] \in Messages \cup {None}
        BY <3>2, SlotRead DEF TypeInv
      <4>2. QED BY <1>2, <3>1, <3>2, <4>1 DEF cancel, TypeInv, Flags
    <3>5. Buffers' /\ ReadyQueue' /\ TimerQueueType' /\ Calls'
      BY <1>2, <3>1 DEF cancel, TypeInv, Buffers, ReadyQueue, TimerQueueType, Calls,
                        Carries
    <3>6. QED BY <3>3, <3>4, <3>5 DEF TypeInv
  <2>3. QED BY <2>1, <2>2
<1>3. ASSUME NEW c \in Cancellers, reschedule_at(c, h) PROVE TypeInv'
  <2>1. TimerQueueType'
    <3>1. CASE \E e \in TQ : e.marker = h
      <4>1. PICK e \in TQ, m \in Markers :
               /\ TQ' = (TQ \ {e}) \cup {[e EXCEPT !.marker = m]}
               /\ handles' = (handles \ {h}) \cup {m}
        BY <1>3, <3>1 DEF reschedule_at
      <4>2. [e EXCEPT !.marker = m] \in TimerSlots
        BY DEF TypeInv, TimerQueueType, TimerSlots, TimerEntries
      <4>3. QED BY <4>1, <4>2 DEF TypeInv, TimerQueueType
    <3>2. CASE ~ \E e \in TQ : e.marker = h
      <4>1. handles' = handles \ {h} /\ TQ' = TQ
        BY <1>3, <3>2, Zenon DEF reschedule_at
      <4>2. QED BY <4>1 DEF TypeInv, TimerQueueType
    <3>3. QED BY <3>1, <3>2
  <2>2. FreeQueues' /\ Buffers' /\ ReadyQueue' /\ Calls' /\ Flags'
    BY <1>3 DEF reschedule_at, TypeInv, FreeQueues, Buffers, ReadyQueue, Calls,
                Carries, Flags
  <2>3. QED BY <2>1, <2>2 DEF TypeInv
<1>4. QED BY <1>1, <1>2, <1>3

LEMMA TimerType ==
    ASSUME TypeInv, TimerStart \/ TimerStep
    PROVE  TypeInv'
<1>1. CASE TimerStart
  <2>1. Calls'
    BY <1>1, CallGoesOn, ContextFacts DEF TimerStart, TypeInv
  <2>2. QED
    BY <1>1, <2>1 DEF TimerStart, TypeInv, FreeQueues, Buffers, ReadyQueue,
                      TimerQueueType, Flags
<1>2. CASE TimerDequeue
  <2>1. PICK e \in TQ :
           /\ TQ' = TQ \ {e}
           /\ op' = [op EXCEPT ![Timer] =
                       [pc |-> "enqueue", tail |-> 0,
                        entry |-> Entry(e.task, e.index, e.sent)]]
    BY <1>2 DEF TimerDequeue
  <2>2. Calls'
    <3> DEFINE L == [pc |-> "enqueue", tail |-> 0,
                     entry |-> Entry(e.task, e.index, e.sent)]
    <3>1. Entry(e.task, e.index, e.sent) \in SlotEntries
      BY DEF TypeInv, TimerQueueType, TimerSlots, TimerEntries, Entry, SlotEntries,
             Entries
    <3>2. L \in Locals /\ L.entry \in SlotEntries
      BY <3>1, ContextFacts DEF Locals, SlotEntries
    <3>3. op' = [op EXCEPT ![Timer] = L]
      BY <2>1
    <3> HIDE DEF L
    <3>4. QED BY <3>2, <3>3, CallReplaced, ContextFacts DEF TypeInv
  <2>3. QED
    BY <1>2, <2>1, <2>2 DEF TimerDequeue, TypeInv, FreeQueues, Buffers, ReadyQueue,
                            TimerQueueType, Flags
<1>3. CASE TimerReturn
  <2>1. NoCall = [NoCall EXCEPT !.pc = "idle"]
    BY DEF NoCall
  <2>2. Calls'
    BY <1>3, <2>1, CallEnds, ContextFacts DEF TimerReturn, TypeInv
  <2>3. QED
    BY <1>3, <2>2 DEF TimerReturn, TypeInv, FreeQueues, Buffers, ReadyQueue,
                      TimerQueueType, Flags
<1>4. CASE TimerEnqueue
  <2>1. op[Timer].entry \in SlotEntries
    BY <1>4, ContextFacts DEF TimerEnqueue, At, Carries, TypeInv, Calls
  <2>2. ReadyQueue'
    BY <1>4, <2>1 DEF TimerEnqueue, TypeInv, ReadyQueue
  <2>3. Calls'
    BY <1>4, CallGoesOn, ContextFacts DEF TimerEnqueue, TypeInv
  <2>4. QED
    BY <1>4, <2>2, <2>3 DEF TimerEnqueue, TypeInv, FreeQueues, Buffers,
                            TimerQueueType, Flags
<1>5. CASE TimerPend
  <2>1. Calls'
    BY <1>5, CallEnds, ContextFacts DEF TimerPend, TypeInv
  <2>2. QED
    BY <1>5, <2>1 DEF TimerPend, TypeInv, FreeQueues, Buffers, ReadyQueue,
                      TimerQueueType, Flags
<1>6. QED BY <1>1, <1>2, <1>3, <1>4, <1>5 DEF TimerStep

(* The dispatcher looks at the ready queue, takes from it, and returns. *)
LEMMA DispatchLoopType ==
    ASSUME TypeInv, \/ DispatchStart \/ DispatchEmpty \/ DispatchReturn
                    \/ DispatchDequeue \/ TaskReturn
    PROVE  TypeInv'
<1>1. CASE DispatchStart
  <2>1. Calls'
    BY <1>1, CallGoesOn, ContextFacts DEF DispatchStart, TypeInv
  <2>2. QED
    BY <1>1, <2>1 DEF DispatchStart, TypeInv, FreeQueues, Buffers, ReadyQueue,
                      TimerQueueType, Flags
<1>2. CASE DispatchEmpty
  <2>1. Calls'
    BY <1>2, CallGoesOn, ContextFacts DEF DispatchEmpty, TypeInv
  <2>2. QED
    BY <1>2, <2>1 DEF DispatchEmpty, TypeInv, FreeQueues, Buffers, ReadyQueue,
                      TimerQueueType, Flags
<1>3. CASE DispatchReturn
  <2>1. NoCall = [NoCall EXCEPT !.pc = "idle"]
    BY DEF NoCall
  <2>2. Calls'
    BY <1>3, <2>1, CallEnds, ContextFacts DEF DispatchReturn, TypeInv
  <2>3. QED
    BY <1>3, <2>2 DEF DispatchReturn, TypeInv, FreeQueues, Buffers, ReadyQueue,
                      TimerQueueType, Flags
<1>4. CASE DispatchDequeue
  <2>1. RQ \in Seq(SlotEntries) /\ RQ # <<>>
    BY <1>4 DEF DispatchDequeue, TypeInv, ReadyQueue
  <2>2. Head(RQ) \in SlotEntries /\ Tail(RQ) \in Seq(SlotEntries)
    BY <2>1
  <2>3. Calls'
    <3> DEFINE L == [pc |-> "read", entry |-> Head(RQ), tail |-> 0]
    <3>1. L \in Locals /\ L.entry \in SlotEntries
      BY <2>2, ContextFacts DEF Locals, SlotEntries
    <3>2. op' = [op EXCEPT ![Dispatcher] = L]
      BY <1>4 DEF DispatchDequeue
    <3> HIDE DEF L
    <3>3. QED BY <3>1, <3>2, CallReplaced, ContextFacts DEF TypeInv
  <2>4. ReadyQueue'
    BY <1>4, <2>2 DEF DispatchDequeue, ReadyQueue
  <2>5. QED
    BY <1>4, <2>3, <2>4 DEF DispatchDequeue, TypeInv, FreeQueues, Buffers,
                            TimerQueueType, Flags
<1>5. CASE TaskReturn
  <2>1. Calls'
    BY <1>5, CallGoesOn, ContextFacts DEF TaskReturn, TypeInv
  <2>2. QED
    BY <1>5, <2>1 DEF TaskReturn, TypeInv, FreeQueues, Buffers, ReadyQueue,
                      TimerQueueType, Flags
<1>6. QED BY <1>1, <1>2, <1>3, <1>4, <1>5

(* The dispatcher reads a message and gives its slot back. *)
LEMMA SlotReturnType ==
    ASSUME TypeInv, DispatchRead \/ FreeLoad \/ FreeStore \/ FreePublish
    PROVE  TypeInv'
<1> DEFINE e == op[Dispatcher].entry
           n == RingSize(CAPACITY[e.task])
<1>1. /\ Carries(Dispatcher)
      /\ e.task \in Tasks /\ e.index \in Indices(e.task) /\ e.sent \in Messages
  <2>1. Carries(Dispatcher)
    BY DEF DispatchRead, FreeLoad, FreeStore, FreePublish, At, Carries
  <2>2. QED BY <2>1, ContextFacts DEF TypeInv, Calls, SlotEntries, Entries
<1>2. op[Dispatcher] \in Locals /\ op[Dispatcher].tail \in 0..(Wrap - 1)
  BY ContextFacts DEF TypeInv, Calls, Locals
<1>3. FQ[e.task] \in QueueOf(n, Indices(e.task)) /\ n \in Nat \ {0}
  BY <1>1, ContextFacts DEF TypeInv, FreeQueues
<1>4. /\ Stored(FQ[e.task], op[Dispatcher].tail, e.index)
            \in QueueOf(n, Indices(e.task))
      /\ Published(FQ[e.task], op[Dispatcher].tail) \in QueueOf(n, Indices(e.task))
  <2>1. op[Dispatcher].tail \in Nat
    BY <1>2, WrapAssumption
  <2> DEFINE q == FQ[e.task]
             E == Indices(e.task)
             at == op[Dispatcher].tail
  <2>2. q \in QueueOf(n, E) /\ n \in Nat \ {0} /\ e.index \in E /\ at \in Nat
    BY <1>1, <1>3, <2>1
  <2> HIDE DEF e, n, q, E, at
  <2>3. \A tail \in Nat, i \in E : Stored(q, tail, i) \in QueueOf(n, E)
    BY <2>2, RingTypes
  <2>4. \A tail \in Nat : Published(q, tail) \in QueueOf(n, E)
    BY <2>2, RingTypes
  <2>5. Stored(q, at, e.index) \in QueueOf(n, E) /\ Published(q, at) \in QueueOf(n, E)
    BY <2>2, <2>3, <2>4
  <2>6. QED BY <2>5 DEF q, E, at
<1>5. CASE DispatchRead
  <2>1. INPUTS[e.task][e.index] \in Messages \cup {None}
    BY <1>1, SlotRead DEF TypeInv
  <2>2. Flags'
    <3>1. outcome' = [sent |-> e.sent, got |-> INPUTS[e.task][e.index]]
            /\ pended' = pended
      BY <1>5 DEF DispatchRead
    <3> HIDE DEF e
    <3>2. QED BY <1>1, <2>1, <3>1 DEF TypeInv, Flags
  <2>3. Calls'
    BY <1>1, <1>5, CallGoesOn, ContextFacts DEF DispatchRead, TypeInv
  <2>4. QED
    BY <1>5, <2>2, <2>3 DEF DispatchRead, TypeInv, FreeQueues, Buffers, ReadyQueue,
                            TimerQueueType
<1>6. CASE FreeLoad
  <2>1. Calls'
    <3> DEFINE L == [op[Dispatcher] EXCEPT !.pc = "store", !.tail = FQ[e.task].tail]
    <3>1. FQ[e.task].tail \in 0..(Wrap - 1)
      BY <1>3 DEF QueueOf
    <3>2. L \in Locals /\ L.entry = e
      BY <1>2, <3>1 DEF Locals
    <3>3. op' = [op EXCEPT ![Dispatcher] = L]
      BY <1>6, ContextFacts DEF FreeLoad, TypeInv, Calls
    <3>4. e \in SlotEntries
      BY <1>1, ContextFacts DEF TypeInv, Calls
    <3> HIDE DEF L, e
    <3>5. QED BY <3>2, <3>3, <3>4, CallReplaced, ContextFacts DEF TypeInv
  <2>2. QED
    BY <1>6, <2>1 DEF FreeLoad, TypeInv, FreeQueues, Buffers, ReadyQueue,
                      TimerQueueType, Flags
<1>7. CASE FreeStore
  <2> DEFINE q == Stored(FQ[e.task], op[Dispatcher].tail, e.index)
  <2>1. q \in QueueOf(n, Indices(e.task))
    BY <1>4
  <2>2. FQ' = [FQ EXCEPT ![e.task] = q]
    BY <1>7 DEF FreeStore
  <2>3. FreeQueues'
    <3> HIDE DEF e, q
    <3>1. QED BY <1>1, <2>1, <2>2, FreeQueueReplaced DEF TypeInv
  <2>4. Calls'
    BY <1>1, <1>7, CallGoesOn, ContextFacts DEF FreeStore, TypeInv
  <2>5. QED
    BY <1>7, <2>3, <2>4 DEF FreeStore, TypeInv, Buffers, ReadyQueue,
                            TimerQueueType, Flags
<1>8. CASE FreePublish
  <2> DEFINE q == Published(FQ[e.task], op[Dispatcher].tail)
  <2>1. q \in QueueOf(n, Indices(e.task))
    BY <1>4
  <2>2. FQ' = [FQ EXCEPT ![e.task] = q]
    BY <1>8 DEF FreePublish
  <2>3. FreeQueues'
    <3> HIDE DEF e, q
    <3>1. QED BY <1>1, <2>1, <2>2, FreeQueueReplaced DEF TypeInv
  <2>4. Calls'
    BY <1>8, CallEnds, ContextFacts DEF FreePublish, TypeInv
  <2>5. QED
    BY <1>8, <2>3, <2>4 DEF FreePublish, TypeInv, Buffers, ReadyQueue,
                            TimerQueueType, Flags
<1>9. QED BY <1>5, <1>6, <1>7, <1>8

LEMMA NextType == TypeInv /\ [Next]_vars => TypeInv'
<1> SUFFICES ASSUME TypeInv, [Next]_vars PROVE TypeInv'
  OBVIOUS
<1>1. CASE UNCHANGED vars
  BY <1>1 DEF vars, TypeInv, FreeQueues, Buffers, ReadyQueue, TimerQueueType, Calls,
              Carries, Flags
<1>2. CASE Next
  <2>1. ASSUME NEW c \in Spawners, CallStep(c) PROVE TypeInv'
    BY <2>1, CallStepType
  <2>2. ASSUME NEW c \in Spawners, NEW t \in Tasks, NEW m \in Messages,
               SpawnClaim(c, t, m)
        PROVE  TypeInv'
    BY <2>2, SpawnClaimType
  <2>3. ASSUME NEW h \in Markers,
               \/ DropHandle(h)
               \/ \E c \in Cancellers : cancel(c, h) \/ reschedule_at(c, h)
        PROVE  TypeInv'
    BY <2>3, HandleType
  <2>4. CASE TimerStart \/ TimerStep
    BY <2>4, TimerType
  <2>5. CASE DispatchStart \/ DispatchStep
    BY <2>5, DispatchLoopType, SlotReturnType DEF DispatchStep
  <2>6. QED BY <1>2, <2>1, <2>2, <2>3, <2>4, <2>5 DEF Next
<1>3. QED BY <1>1, <1>2

(* The queues and buffers keep their types: an index never leaves the      *)
(* range of its own task's buffer, whichever way it travels, and every     *)
(* queue stays one the unchecked operations may be used on.                *)
THEOREM TypeCorrectness == Spec => []TypeOK
<1>1. Spec => []TypeInv
  BY InitType, NextType, PTL DEF Spec
<1>2. QED BY <1>1, TypeInvSuffices, PTL
-----------------------------------------------------------------------------
(* Who has moved, and where to. *)
LEMMA NextWakeup == TypeInv /\ NoLostWakeup /\ [Next]_vars => NoLostWakeup'
<1> SUFFICES ASSUME TypeInv, NoLostWakeup, [Next]_vars PROVE NoLostWakeup'
  OBVIOUS
<1>1. op \in [Contexts -> Locals]
  BY DEF TypeInv, Calls
<1>2. CASE UNCHANGED vars
  BY <1>2 DEF vars, NoLostWakeup
<1>3. ASSUME NEW c \in Spawners, CallStep(c) PROVE NoLostWakeup'
  <2>1. CASE SpawnWrite(c)
    BY <1>1, <2>1, ContextFacts DEF SpawnWrite, At, GoTo, NoLostWakeup
  <2>2. CASE SpawnEnqueue(c)
    BY <1>1, <2>2, ContextFacts DEF SpawnEnqueue, At, GoTo, NoLostWakeup
  <2>3. CASE ScheduleEnqueue(c)
    BY <1>1, <2>3, ContextFacts
       DEF ScheduleEnqueue, At, GoHome, Home, NoCall, NoLostWakeup
  <2>4. CASE SpawnPend(c)
    BY <2>4 DEF SpawnPend, NoLostWakeup
  <2>5. QED BY <1>3, <2>1, <2>2, <2>3, <2>4 DEF CallStep
<1>4. ASSUME NEW c \in Spawners, NEW t \in Tasks, NEW m \in Messages,
             SpawnClaim(c, t, m)
      PROVE  NoLostWakeup'
  BY <1>1, <1>4, ContextFacts DEF SpawnClaim, At, Home, NoLostWakeup
<1>5. ASSUME NEW h \in Markers,
             \/ DropHandle(h)
             \/ \E c \in Cancellers : cancel(c, h) \/ reschedule_at(c, h)
      PROVE  NoLostWakeup'
  BY <1>5 DEF DropHandle, cancel, reschedule_at, NoLostWakeup
<1>6. CASE TimerStart \/ TimerStep
  <2>1. CASE TimerStart
    BY <1>1, <2>1, ContextFacts DEF TimerStart, At, GoTo, NoLostWakeup
  <2>2. CASE TimerDequeue
    BY <1>1, <2>2, ContextFacts DEF TimerDequeue, At, NoLostWakeup
  <2>3. CASE TimerReturn
    BY <1>1, <2>3, ContextFacts DEF TimerReturn, At, NoLostWakeup
  <2>4. CASE TimerEnqueue
    BY <1>1, <2>4, ContextFacts DEF TimerEnqueue, At, GoTo, NoLostWakeup
  <2>5. CASE TimerPend
    BY <2>5 DEF TimerPend, NoLostWakeup
  <2>6. QED BY <1>6, <2>1, <2>2, <2>3, <2>4, <2>5 DEF TimerStep
<1>7. CASE DispatchStart \/ DispatchStep
  <2>1. CASE DispatchStart
    BY <1>1, <2>1, ContextFacts DEF DispatchStart, GoTo, NoLostWakeup
  <2>2. CASE DispatchEmpty
    BY <2>2 DEF DispatchEmpty, NoLostWakeup
  <2>3. CASE DispatchReturn
    BY <1>1, <2>3, ContextFacts DEF DispatchReturn, At, NoLostWakeup
  <2>4. CASE DispatchDequeue
    BY <1>1, <2>4, ContextFacts DEF DispatchDequeue, NoLostWakeup
  <2>5. CASE DispatchRead \/ FreeLoad \/ FreeStore \/ FreePublish \/ TaskReturn
    <3>1. op[Dispatcher] \in Locals
      BY <1>1, ContextFacts
    <3>2. CASE DispatchRead
      BY <1>1, <3>1, <3>2, ContextFacts DEF DispatchRead, GoTo, Locals, NoLostWakeup
    <3>3. CASE FreeLoad
      BY <1>1, <3>1, <3>3, ContextFacts DEF FreeLoad, Locals, NoLostWakeup
    <3>4. CASE FreeStore
      BY <1>1, <3>1, <3>4, ContextFacts DEF FreeStore, GoTo, Locals, NoLostWakeup
    <3>5. CASE FreePublish
      BY <1>1, <3>5, ContextFacts DEF FreePublish, NoCall, NoLostWakeup
    <3>6. CASE TaskReturn
      BY <1>1, <3>1, <3>6, ContextFacts DEF TaskReturn, GoTo, Locals, NoLostWakeup
    <3>7. QED BY <2>5, <3>2, <3>3, <3>4, <3>5, <3>6
  <2>6. QED BY <1>7, <2>1, <2>2, <2>3, <2>4, <2>5 DEF DispatchStep
<1>8. QED BY <1>2, <1>3, <1>4, <1>5, <1>6, <1>7 DEF Next

(* Work in a ready queue is never forgotten, whoever put it there and      *)
(* whatever preempts whom between the unchecked enqueue and the pend.      *)
THEOREM NoLostWakeupHolds == Spec => []NoLostWakeup
<1>1. Init => NoLostWakeup
  BY DEF Init, NoLostWakeup
<1>2. QED BY <1>1, InitType, NextType, NextWakeup, PTL DEF Spec

-----------------------------------------------------------------------------
(* The arithmetic of the rings: `h` counts up to Wrap, the element of a    *)
(* counter is at its remainder by the size of the ring, which divides Wrap. *)
Sizes == {1, 2, 4, 8, 16, 32, 64, 128}

LEMMA ModCases ==
    \A n \in Nat \ {0}, x \in Nat :
       (x < n => x % n = x) /\ (n <= x /\ x < 2 * n => x % n = x - n)
OBVIOUS

LEMMA WrapCases ==
    \A x \in Nat : x < 2 * Wrap => x % Wrap = IF x < Wrap THEN x ELSE x - Wrap
<1>1. Wrap \in Nat \ {0}
  BY WrapAssumption
<1> SUFFICES ASSUME NEW x \in Nat, x < 2 * Wrap
             PROVE  x % Wrap = IF x < Wrap THEN x ELSE x - Wrap
  OBVIOUS
<1>2. /\ x < Wrap => x % Wrap = x
      /\ Wrap <= x /\ x < 2 * Wrap => x % Wrap = x - Wrap
  BY <1>1, ModCases
<1>3. QED BY <1>1, <1>2

LEMMA LengthIs ==
    \A h, t \in 0..(Wrap - 1) :
       (t - h + Wrap) % Wrap = IF t >= h THEN t - h ELSE t - h + Wrap
<1> SUFFICES ASSUME NEW h \in 0..(Wrap - 1), NEW t \in 0..(Wrap - 1)
             PROVE  (t - h + Wrap) % Wrap = IF t >= h THEN t - h ELSE t - h + Wrap
  OBVIOUS
<1>1. Wrap \in Nat \ {0}
  BY WrapAssumption
<1> DEFINE x == t - h + Wrap
<1>2. x \in Nat /\ x < 2 * Wrap /\ (x < Wrap <=> t < h) /\ x - Wrap = t - h
  BY <1>1
<1>3. x % Wrap = IF x < Wrap THEN x ELSE x - Wrap
  BY <1>2, WrapCases
<1>4. QED BY <1>2, <1>3

(* Moving on by one. *)
LEMMA NextIs ==
    \A h \in 0..(Wrap - 1) : /\ (h + 1) % Wrap = IF h + 1 = Wrap THEN 0 ELSE h + 1
                             /\ (h + 1) % Wrap \in 0..(Wrap - 1)
<1>1. Wrap \in Nat \ {0}
  BY WrapAssumption
<1>2. ASSUME NEW h \in 0..(Wrap - 1)
      PROVE  /\ (h + 1) % Wrap = IF h + 1 = Wrap THEN 0 ELSE h + 1
             /\ (h + 1) % Wrap \in 0..(Wrap - 1)
  <2> DEFINE x == h + 1
  <2>1. x \in Nat /\ x < 2 * Wrap /\ (x < Wrap <=> x # Wrap) /\ h \in Nat
    BY <1>1
  <2>2. x % Wrap = IF x < Wrap THEN x ELSE x - Wrap
    BY <2>1, WrapCases
  <2> HIDE DEF x
  <2>3. x % Wrap = (IF x = Wrap THEN 0 ELSE x) /\ x % Wrap \in 0..(Wrap - 1)
    BY <1>1, <2>1, <2>2
  <2>4. QED BY <2>3 DEF x
<1>3. QED BY <1>2

(* Counters less than a ring apart are at different elements. *)
LEMMA PositionsDiffer ==
    ASSUME NEW n \in Sizes, Wrap % n = 0,
           NEW a \in 0..(Wrap - 1), NEW b \in 0..(Wrap - 1),
           NEW d \in 1..(n - 1), b - a = d \/ b - a = d - Wrap
    PROVE  a % n # b % n
<1>1. Wrap \in Nat \ {0} /\ a \in Int /\ b \in Int
  BY WrapAssumption
<1>2. CASE n = 1  BY <1>2
<1>3. CASE n = 2  BY <1>1, <1>3
<1>4. CASE n = 4  BY <1>1, <1>4
<1>5. CASE n = 8  BY <1>1, <1>5
<1>6. CASE n = 16  BY <1>1, <1>6
<1>7. CASE n = 32  BY <1>1, <1>7
<1>8. CASE n = 64  BY <1>1, <1>8
<1>9. CASE n = 128  BY <1>1, <1>9
<1>10. QED
  BY <1>2, <1>3, <1>4, <1>5, <1>6, <1>7, <1>8, <1>9 DEF Sizes

(* The counter of the k-th element from `h`. *)
Counter(h, k) == (h + k - 1) % Wrap

LEMMA CounterIs ==
    \A h \in 0..(Wrap - 1), k \in 1..Wrap :
       /\ Counter(h, k) = IF h + k - 1 < Wrap THEN h + k - 1 ELSE h + k - 1 - Wrap
       /\ Counter(h, k) \in 0..(Wrap - 1)
<1> SUFFICES ASSUME NEW h \in 0..(Wrap - 1), NEW k \in 1..Wrap
             PROVE  /\ Counter(h, k) = IF h + k - 1 < Wrap THEN h + k - 1
                                       ELSE h + k - 1 - Wrap
                    /\ Counter(h, k) \in 0..(Wrap - 1)
  OBVIOUS
<1>1. Wrap \in Nat \ {0}
  BY WrapAssumption
<1> DEFINE x == h + k - 1
<1>2. x \in Nat /\ x < 2 * Wrap
  BY <1>1
<1>3. x % Wrap = IF x < Wrap THEN x ELSE x - Wrap
  BY <1>2, WrapCases
<1>4. x % Wrap \in 0..(Wrap - 1)
  <2> HIDE DEF x
  <2>1. QED BY <1>1, <1>2, <1>3
<1>5. Counter(h, k) = x % Wrap
  BY DEF Counter
<1> HIDE DEF x
<1>6. Counter(h, k) = (IF x < Wrap THEN x ELSE x - Wrap)
        /\ Counter(h, k) \in 0..(Wrap - 1)
  BY <1>3, <1>4, <1>5
<1>7. QED BY <1>1, <1>6 DEF x

(* How far the tail is from the k-th of L elements. *)
LEMMA FromTail ==
    ASSUME NEW W \in Nat \ {0}, NEW h \in 0..(W - 1), NEW t \in 0..(W - 1),
           NEW L \in 0..(W - 1), L = IF t >= h THEN t - h ELSE t - h + W,
           NEW k \in 1..L, NEW a \in 0..(W - 1),
           a = IF h + k - 1 < W THEN h + k - 1 ELSE h + k - 1 - W
    PROVE  t - a = L - k + 1 \/ t - a = L - k + 1 - W
<1>1. CASE t >= h  BY <1>1
<1>2. CASE t < h  BY <1>2
<1>3. QED BY <1>1, <1>2

LEMMA SizeIs ==
    ASSUME NEW n \in Sizes, NEW E, NEW q \in QueueOf(n, E)
    PROVE  /\ n \in Nat \ {0} /\ Size(q) = n
           /\ q.head \in 0..(Wrap - 1) /\ q.tail \in 0..(Wrap - 1)
           /\ Length(q) = IF q.tail >= q.head THEN q.tail - q.head
                          ELSE q.tail - q.head + Wrap
           /\ Length(q) \in 0..(Wrap - 1)
           /\ DOMAIN Elements(q) = 1..Length(q)
           /\ \A k \in 1..Length(q) : Elements(q)[k] = q.buf[Counter(q.head, k) % n]
<1>1. n \in Nat \ {0} /\ Wrap \in Nat \ {0}
  BY WrapAssumption DEF Sizes
<1>2. Size(q) = n
  BY <1>1, RingTypes
<1>3. q.head \in 0..(Wrap - 1) /\ q.tail \in 0..(Wrap - 1)
  BY DEF QueueOf
<1>4. Length(q) = IF q.tail >= q.head THEN q.tail - q.head ELSE q.tail - q.head + Wrap
  BY <1>3, LengthIs DEF Length
<1>5. Length(q) \in 0..(Wrap - 1)
  BY <1>1, <1>3, <1>4
<1>6. /\ DOMAIN Elements(q) = 1..Length(q)
      /\ \A k \in 1..Length(q) : Elements(q)[k] = q.buf[Counter(q.head, k) % n]
  BY <1>2 DEF Elements, Counter
<1>7. QED BY <1>1, <1>2, <1>3, <1>4, <1>5, <1>6

(* The first element is taken: the others move up. *)
LEMMA DequeuedIs ==
    ASSUME NEW n \in Sizes, NEW E, NEW q \in QueueOf(n, E), ~IsEmpty(q)
    PROVE  /\ Length(q) >= 1 /\ Elements(q)[1] = Oldest(q)
           /\ Length(Dequeued(q)) = Length(q) - 1
           /\ \A k \in 1..(Length(q) - 1) :
                 Elements(Dequeued(q))[k] = Elements(q)[k + 1]
<1> DEFINE r == Dequeued(q)
<1>1. Wrap \in Nat \ {0} /\ n \in Nat \ {0}
  BY WrapAssumption DEF Sizes
<1>2. r \in QueueOf(n, E)
  BY <1>1, RingTypes
<1>3. /\ r.buf = q.buf /\ r.tail = q.tail
      /\ r.head = IF q.head + 1 = Wrap THEN 0 ELSE q.head + 1
  BY SizeIs, NextIs DEF Dequeued, QueueOf
<1>4. q.head # q.tail
  BY DEF IsEmpty
<1> DEFINE L == Length(q)
<1>5. L >= 1 /\ Length(r) = L - 1
  <2>1. /\ q.head \in 0..(Wrap - 1) /\ q.tail \in 0..(Wrap - 1)
        /\ L = IF q.tail >= q.head THEN q.tail - q.head
               ELSE q.tail - q.head + Wrap
    BY SizeIs
  <2> HIDE DEF r, L
  <2>2. Length(r) = IF r.tail >= r.head THEN r.tail - r.head
                    ELSE r.tail - r.head + Wrap
    BY <1>2, SizeIs
  <2>3. QED BY <1>1, <1>3, <1>4, <2>1, <2>2
<1>6. Elements(q)[1] = Oldest(q)
  <2>1. Counter(q.head, 1) = q.head
    BY <1>1, SizeIs, CounterIs
  <2>2. 1 \in 1..Length(q)
    BY <1>5, SizeIs
  <2>3. QED BY <2>1, <2>2, SizeIs DEF Oldest
<1>7. ASSUME NEW k \in 1..(L - 1) PROVE Elements(r)[k] = Elements(q)[k + 1]
  <2>1. L \in 0..(Wrap - 1)
    BY SizeIs
  <2>2. k \in 1..Length(r) /\ k + 1 \in 1..L /\ k \in 1..Wrap /\ k + 1 \in 1..Wrap
    BY <1>1, <1>5, <2>1
  <2>3. Counter(r.head, k) = Counter(q.head, k + 1)
    <3>1. q.head \in 0..(Wrap - 1) /\ r.head \in 0..(Wrap - 1)
      BY <1>2, SizeIs
    <3> DEFINE g == q.head
               h == r.head
    <3>2. h = IF g + 1 = Wrap THEN 0 ELSE g + 1
      BY <1>3
    <3>3. /\ Counter(h, k) = IF h + k - 1 < Wrap THEN h + k - 1 ELSE h + k - 1 - Wrap
          /\ Counter(g, k + 1) = IF g + k < Wrap THEN g + k ELSE g + k - Wrap
      <4>1. g \in 0..(Wrap - 1) /\ h \in 0..(Wrap - 1)
        BY <3>1
      <4> HIDE DEF g, h
      <4>2. g + (k + 1) - 1 = g + k
        BY <4>1, <2>2
      <4>3. QED BY <4>1, <4>2, <2>2, CounterIs
    <3>4. g \in 0..(Wrap - 1) /\ h \in 0..(Wrap - 1)
      BY <3>1
    <3> HIDE DEF g, h
    <3>5. Counter(h, k) = Counter(g, k + 1)
      BY <1>1, <2>2, <3>2, <3>3, <3>4
    <3>6. QED BY <3>5 DEF g, h
  <2>4. Elements(r)[k] = r.buf[Counter(r.head, k) % n]
    <3> HIDE DEF r
    <3>1. QED BY <1>2, <2>2, SizeIs
  <2>5. Elements(q)[k + 1] = q.buf[Counter(q.head, k + 1) % n]
    BY <2>2, SizeIs
  <2>6. QED BY <1>3, <2>3, <2>4, <2>5
<1>8. QED BY <1>5, <1>6, <1>7

(* An element is stored behind the last one: nobody sees it yet. *)
LEMMA StoredIs ==
    ASSUME NEW n \in Sizes, Wrap % n = 0, NEW E, NEW q \in QueueOf(n, E),
           Length(q) < n, NEW e \in E
    PROVE  LET r == Stored(q, q.tail, e)
           IN  /\ r \in QueueOf(n, E) /\ r.tail = q.tail
               /\ r.buf[q.tail % n] = e
               /\ Length(r) = Length(q)
               /\ \A k \in 1..Length(q) : Elements(r)[k] = Elements(q)[k]
<1> DEFINE r == Stored(q, q.tail, e)
           L == Length(q)
<1>1. Wrap \in Nat \ {0} /\ n \in Nat \ {0}
  BY WrapAssumption DEF Sizes
<1>2. /\ q.head \in 0..(Wrap - 1) /\ q.tail \in 0..(Wrap - 1) /\ q.tail \in Nat
      /\ q.buf \in [0..(n - 1) -> E] /\ Size(q) = n
  <2>1. q.head \in 0..(Wrap - 1) /\ q.tail \in 0..(Wrap - 1) /\ Size(q) = n
    BY SizeIs
  <2>2. q.buf \in [0..(n - 1) -> E]
    BY DEF QueueOf
  <2>3. q.tail \in Nat
    BY <1>1, <2>1
  <2>4. QED BY <2>1, <2>2, <2>3
<1>3. r \in QueueOf(n, E)
  BY <1>1, <1>2, RingTypes
<1>4. q.tail % n \in 0..(n - 1)
  <2>1. q.tail \in Int
    BY <1>2
  <2>2. QED BY <1>1, <2>1, ModRange
<1>5. /\ r.head = q.head /\ r.tail = q.tail
      /\ r.buf = [q.buf EXCEPT ![q.tail % n] = e]
  BY <1>2 DEF Stored, QueueOf
<1>6. r.buf[q.tail % n] = e
  BY <1>2, <1>4, <1>5
<1>7. Length(r) = L
  BY <1>5 DEF Length
<1>8. ASSUME NEW k \in 1..L PROVE Elements(r)[k] = Elements(q)[k]
  <2> DEFINE a == Counter(q.head, k)
             b == q.tail
             d == L - k + 1
  <2>1. /\ L \in 0..(Wrap - 1)
        /\ L = IF q.tail >= q.head THEN q.tail - q.head ELSE q.tail - q.head + Wrap
    BY SizeIs
  <2>2. k \in 1..Wrap /\ k \in Int
    BY <1>1, <2>1
  <2>3. /\ a = IF q.head + k - 1 < Wrap THEN q.head + k - 1 ELSE q.head + k - 1 - Wrap
        /\ a \in 0..(Wrap - 1)
    BY <1>2, <2>2, CounterIs
  <2>4. d \in 1..(n - 1)
    BY <1>1, <2>1, <2>2
  <2>5. b - a = d \/ b - a = d - Wrap
    <3>1. k \in 1..L
      OBVIOUS
    <3> DEFINE h == q.head
    <3>2. h \in 0..(Wrap - 1) /\ b \in 0..(Wrap - 1)
      BY <1>2
    <3> HIDE DEF a, L, b, h
    <3>3. QED BY <1>1, <2>1, <2>3, <3>1, <3>2, FromTail DEF b, h
  <2>6. a % n # b % n
    <3>1. b \in 0..(Wrap - 1)
      BY <1>2
    <3> HIDE DEF a, b, d
    <3>2. QED BY <2>3, <2>4, <2>5, <3>1, PositionsDiffer
  <2>7. a % n \in 0..(n - 1)
    <3>1. a \in Int
      BY <1>1, <2>3
    <3> HIDE DEF a
    <3>2. QED BY <1>1, <3>1, ModRange
  <2>8. Elements(q)[k] = q.buf[a % n]
    BY SizeIs
  <2>9. Elements(r)[k] = r.buf[a % n]
    <3>1. k \in 1..Length(r)
      BY <1>7
    <3> HIDE DEF r
    <3>2. Elements(r)[k] = r.buf[Counter(r.head, k) % n]
      BY <1>3, <3>1, SizeIs
    <3>3. QED BY <1>5, <3>2
  <2> HIDE DEF a, r
  <2>10. QED BY <1>2, <1>5, <2>6, <2>7, <2>8, <2>9
<1>9. QED BY <1>3, <1>5, <1>6, <1>7, <1>8

(* The tail moves: what is stored behind the last element is now the last. *)
LEMMA PublishedIs ==
    ASSUME NEW n \in Sizes, NEW E, NEW q \in QueueOf(n, E), Length(q) + 1 < Wrap
    PROVE  LET r == Published(q, q.tail)
           IN  /\ r \in QueueOf(n, E)
               /\ Length(r) = Length(q) + 1
               /\ \A k \in 1..Length(q) : Elements(r)[k] = Elements(q)[k]
               /\ Elements(r)[Length(q) + 1] = q.buf[q.tail % n]
<1> DEFINE r == Published(q, q.tail)
           L == Length(q)
<1>1. Wrap \in Nat \ {0} /\ n \in Nat \ {0}
  BY WrapAssumption DEF Sizes
<1>2. q.head \in 0..(Wrap - 1) /\ q.tail \in 0..(Wrap - 1) /\ q.tail \in Nat
  BY SizeIs, WrapAssumption
<1>3. r \in QueueOf(n, E)
  BY <1>1, <1>2, RingTypes
<1>4. /\ r.head = q.head /\ r.buf = q.buf
      /\ r.tail = IF q.tail + 1 = Wrap THEN 0 ELSE q.tail + 1
  BY <1>2, NextIs DEF Published, QueueOf
<1>5. /\ L \in 0..(Wrap - 1)
      /\ L = IF q.tail >= q.head THEN q.tail - q.head ELSE q.tail - q.head + Wrap
  BY SizeIs
<1>6. Length(r) = L + 1
  <2> HIDE DEF r, L
  <2>1. Length(r) = IF r.tail >= r.head THEN r.tail - r.head
                    ELSE r.tail - r.head + Wrap
    BY <1>3, SizeIs
  <2>2. L + 1 < Wrap
    BY DEF L
  <2>3. QED BY <1>1, <1>2, <1>4, <1>5, <2>1, <2>2
<1>7. ASSUME NEW k \in 1..(L + 1)
      PROVE  Elements(r)[k] = q.buf[Counter(q.head, k) % n]
  <2>1. k \in 1..Length(r)
    BY <1>6
  <2> HIDE DEF r
  <2>2. Elements(r)[k] = r.buf[Counter(r.head, k) % n]
    BY <1>3, <2>1, SizeIs
  <2>3. QED BY <1>4, <2>2
<1>8. ASSUME NEW k \in 1..L PROVE Elements(r)[k] = Elements(q)[k]
  <2>1. k \in 1..(L + 1)
    BY <1>5
  <2>2. QED BY <1>7, <2>1, SizeIs
<1>9. Elements(r)[L + 1] = q.buf[q.tail % n]
  <2>1. L + 1 \in 1..(L + 1) /\ L + 1 \in 1..Wrap
    BY <1>1, <1>5
  <2>2. Counter(q.head, L + 1) = q.tail
    <3> HIDE DEF L
    <3>1. Counter(q.head, L + 1) = IF q.head + (L + 1) - 1 < Wrap
                                   THEN q.head + (L + 1) - 1
                                   ELSE q.head + (L + 1) - 1 - Wrap
      BY <1>2, <2>1, CounterIs
    <3>2. QED BY <1>1, <1>2, <1>5, <3>1
  <2>3. QED BY <1>7, <2>1, <2>2
<1>10. QED BY <1>3, <1>6, <1>8, <1>9

(* Both at once. *)
LEMMA EnqueuedIs ==
    ASSUME NEW n \in Sizes, Wrap % n = 0, NEW E, NEW q \in QueueOf(n, E),
           Length(q) < n, Length(q) + 1 < Wrap, NEW e \in E
    PROVE  LET r == Enqueued(q, e)
           IN  /\ Length(r) = Length(q) + 1
               /\ \A k \in 1..Length(q) : Elements(r)[k] = Elements(q)[k]
               /\ Elements(r)[Length(q) + 1] = e
<1> DEFINE s == Stored(q, q.tail, e)
<1>1. /\ s \in QueueOf(n, E) /\ s.tail = q.tail /\ s.buf[q.tail % n] = e
      /\ Length(s) = Length(q)
      /\ \A k \in 1..Length(q) : Elements(s)[k] = Elements(q)[k]
  BY StoredIs
<1>2. Enqueued(q, e) = Published(s, s.tail)
  BY <1>1 DEF Enqueued
<1> HIDE DEF s
<1>3. Length(s) + 1 < Wrap
  BY <1>1
<1>4. /\ Length(Published(s, s.tail)) = Length(s) + 1
      /\ \A k \in 1..Length(s) : Elements(Published(s, s.tail))[k] = Elements(s)[k]
      /\ Elements(Published(s, s.tail))[Length(s) + 1] = s.buf[s.tail % n]
  BY <1>1, <1>3, PublishedIs
<1>5. QED BY <1>1, <1>2, <1>4

-----------------------------------------------------------------------------
(* The places of a slot, one kind at a time.  Each action moves a slot     *)
(* from a place of one kind to one of another, or renumbers a queue.       *)
Free(t, i) == {k \in 1..Length(FQ[t]) : Elements(FQ[t])[k] = i}
Ready(t, i) == {k \in DOMAIN RQ : RQ[k].task = t /\ RQ[k].index = i}
Timed(t, i) == {e \in TQ : e.task = t /\ e.index = i}
Held(t, i) == {c \in Contexts :
                 Carries(c) /\ op[c].entry.task = t /\ op[c].entry.index = i}

One(S) == \E x : S = {x}
OneOf(F, R, T, H) ==
    \/ One(F) /\ R = {} /\ T = {} /\ H = {}
    \/ F = {} /\ One(R) /\ T = {} /\ H = {}
    \/ F = {} /\ R = {} /\ One(T) /\ H = {}
    \/ F = {} /\ R = {} /\ T = {} /\ One(H)

SlotInv ==
    \A t \in Tasks : \A i \in Indices(t) :
       OneOf(Free(t, i), Ready(t, i), Timed(t, i), Held(t, i))

(* While the dispatcher gives a slot back nobody else moves the tail.      *)
ReturnInv ==
    LET d == op[Dispatcher]
        q == FQ[d.entry.task]
    IN  /\ d.pc \in {"store", "publish"} => d.tail = q.tail
        /\ d.pc = "publish" =>
             q.buf[d.tail % RingSize(CAPACITY[d.entry.task])] = d.entry.index

(* No context that may cancel preempts the dispatcher. *)
CancelledBelow == \A c \in Cancellers : PRIORITY[c] <= PRIORITY[Dispatcher]

(* A set of places that is renumbered stays as large as it was. *)
Keeps(S, U) == (S = {} => U = {}) /\ (One(S) => One(U))

LEMMA OneOfKept ==
    ASSUME NEW F, NEW R, NEW T, NEW H, NEW F2, NEW R2, NEW T2, NEW H2,
           OneOf(F, R, T, H), Keeps(F, F2), Keeps(R, R2), Keeps(T, T2), Keeps(H, H2)
    PROVE  OneOf(F2, R2, T2, H2)
BY DEF OneOf, Keeps

LEMMA SameKept == \A S : Keeps(S, S)
BY DEF Keeps

(* A queue that loses its first element is renumbered. *)
LEMMA ShiftKept ==
    ASSUME NEW n \in Nat, NEW S \in SUBSET (1..n), 1 \notin S
    PROVE  Keeps(S, {k \in 1..(n - 1) : k + 1 \in S})
<1> DEFINE U == {k \in 1..(n - 1) : k + 1 \in S}
<1>1. S = {} => U = {}
  OBVIOUS
<1>2. ASSUME NEW x, S = {x} PROVE U = {x - 1}
  <2>1. x \in 1..n /\ x # 1
    BY <1>2
  <2>2. x - 1 \in 1..(n - 1) /\ (x - 1) + 1 = x
    BY <2>1
  <2>3. \A k \in 1..(n - 1) : k + 1 = x => k = x - 1
    BY <2>1
  <2>4. QED BY <1>2, <2>2, <2>3
<1>3. QED BY <1>1, <1>2 DEF Keeps, One

LEMMA QueueFacts ==
    ASSUME FreeQueues, NEW t \in Tasks
    PROVE  /\ RingSize(CAPACITY[t]) \in Sizes /\ CAPACITY[t] <= RingSize(CAPACITY[t])
           /\ Wrap % RingSize(CAPACITY[t]) = 0
           /\ CAPACITY[t] \in 1..128 /\ CAPACITY[t] < Wrap
           /\ FQ[t] \in QueueOf(RingSize(CAPACITY[t]), Indices(t))
           /\ Length(FQ[t]) \in Nat
           /\ \A k \in 1..Length(FQ[t]) : Elements(FQ[t])[k] \in Indices(t)
<1> DEFINE n == RingSize(CAPACITY[t])
<1>1. n \in Sizes /\ CAPACITY[t] <= n /\ CAPACITY[t] \in 1..128
  BY RingSizes DEF Sizes
<1>2. Wrap % n = 0 /\ CAPACITY[t] < Wrap
  BY RingAssumption
<1>3. FQ[t] \in QueueOf(n, Indices(t))
  BY DEF FreeQueues
<1> HIDE DEF n
<1>4. Length(FQ[t]) \in 0..(Wrap - 1) /\ Wrap \in Nat \ {0}
  <2>1. Wrap \in Nat \ {0}
    BY WrapAssumption
  <2>2. QED BY <1>1, <1>3, <2>1, SizeIs
<1>5. ASSUME NEW k \in 1..Length(FQ[t]) PROVE Elements(FQ[t])[k] \in Indices(t)
  <2> DEFINE a == Counter(FQ[t].head, k)
  <2>1. Elements(FQ[t])[k] = FQ[t].buf[a % n]
    BY <1>1, <1>3, SizeIs
  <2>2. FQ[t].head \in 0..(Wrap - 1) /\ k \in 1..Wrap
    <3>1. FQ[t].head \in 0..(Wrap - 1)
      BY <1>1, <1>3, SizeIs
    <3>2. k \in 1..Wrap
      BY <1>4
    <3>3. QED BY <3>1, <3>2
  <2>3. a \in Int
    BY <1>4, <2>2, CounterIs
  <2>4. n \in Nat \ {0}
    BY <1>1 DEF Sizes
  <2>5. a % n \in 0..(n - 1)
    <3> HIDE DEF a
    <3>1. QED BY <2>3, <2>4, ModRange
  <2>6. FQ[t].buf \in [0..(n - 1) -> Indices(t)]
    BY <1>3 DEF QueueOf
  <2>7. QED BY <2>1, <2>5, <2>6
<1>6. QED BY <1>1, <1>2, <1>3, <1>4, <1>5 DEF n

LEMMA IndicesFinite ==
    ASSUME NEW t \in Tasks
    PROVE  IsFiniteSet(Indices(t)) /\ Cardinality(Indices(t)) = CAPACITY[t]
<1> DEFINE c == CAPACITY[t]
<1>1. c \in Int /\ c >= 1
  BY ContextAssumption
<1>2. Indices(t) = 0..(c - 1)
  BY DEF Indices
<1> HIDE DEF c
<1>3. IsFiniteSet(0..(c - 1)) /\ Cardinality(0..(c - 1)) = c
  <2>1. (c - 1) - 0 + 1 = c /\ c - 1 >= 0
    BY <1>1
  <2>2. QED BY <1>1, <2>1, FS_Interval
<1>4. QED BY <1>2, <1>3 DEF c

(* A free queue whose task has a slot elsewhere has room for it: the       *)
(* indices in it are all different.                                        *)
LEMMA Room ==
    ASSUME FreeQueues, SlotInv, NEW t \in Tasks, NEW i \in Indices(t),
           Free(t, i) = {}
    PROVE  Length(FQ[t]) <= CAPACITY[t] - 1
<1> DEFINE L == Length(FQ[t])
           S == 1..L
           T == Indices(t) \ {i}
           f == [k \in S |-> Elements(FQ[t])[k]]
<1>1. L \in Nat /\ CAPACITY[t] \in 1..128
  BY QueueFacts
<1>2. \A k \in S : Elements(FQ[t])[k] \in T
  BY QueueFacts DEF Free
<1>3. ASSUME NEW x \in S, NEW y \in S, f[x] = f[y] PROVE x = y
  <2> DEFINE j == Elements(FQ[t])[x]
  <2>1. j \in Indices(t) /\ x \in Free(t, j) /\ y \in Free(t, j)
    BY <1>2, <1>3 DEF Free
  <2>2. OneOf(Free(t, j), Ready(t, j), Timed(t, j), Held(t, j))
    BY <2>1 DEF SlotInv
  <2>3. One(Free(t, j))
    BY <2>1, <2>2 DEF OneOf
  <2>4. QED BY <2>1, <2>3 DEF One
<1>4. f \in Injection(S, T)
  <2>1. f \in [S -> T]
    BY <1>2
  <2>2. QED BY <1>3, <2>1 DEF Injection, IsInjective
<1>5. IsFiniteSet(T) /\ Cardinality(T) = CAPACITY[t] - 1
  BY IndicesFinite, FS_RemoveElement
<1>6. Cardinality(S) = L /\ IsFiniteSet(S)
  <2>1. L - 1 + 1 = L
    BY <1>1
  <2> HIDE DEF L
  <2>2. QED BY <1>1, <2>1, FS_Interval
<1>7. Cardinality(S) <= Cardinality(T)
  <2> HIDE DEF S, T, f
  <2>1. QED BY <1>4, <1>5, FS_Injection
<1>8. QED BY <1>5, <1>6, <1>7

(* The first slot is taken out of its free queue. *)
LEMMA FreeTaken ==
    ASSUME FreeQueues, SlotInv, NEW t \in Tasks, ~IsEmpty(FQ[t]),
           NEW i, i = Oldest(FQ[t]), FQ' = [FQ EXCEPT ![t] = Dequeued(FQ[t])]
    PROVE  /\ i \in Indices(t) /\ One(Free(t, i)) /\ Free(t, i)' = {}
           /\ \A u \in Tasks : \A j \in Indices(u) :
                 ~(u = t /\ j = i) => Keeps(Free(u, j), Free(u, j)')
<1> DEFINE q == FQ[t]
           r == Dequeued(q)
           L == Length(q)
<1>1. /\ L \in Nat /\ L >= 1 /\ Elements(q)[1] = i /\ Length(r) = L - 1
      /\ \A k \in 1..(L - 1) : Elements(r)[k] = Elements(q)[k + 1]
  BY QueueFacts, DequeuedIs
<1>2. \A u \in Tasks : FQ'[u] = IF u = t THEN r ELSE FQ[u]
  BY DEF FreeQueues
<1>3. i \in Indices(t) /\ 1 \in Free(t, i)
  <2>1. 1 \in 1..L
    BY <1>1
  <2>2. QED BY <1>1, <2>1, QueueFacts DEF Free
<1>4. Free(t, i) = {1}
  <2>1. OneOf(Free(t, i), Ready(t, i), Timed(t, i), Held(t, i))
    BY <1>3 DEF SlotInv
  <2>2. One(Free(t, i))
    BY <1>3, <2>1 DEF OneOf
  <2>3. QED BY <1>3, <2>2 DEF One
<1>5. ASSUME NEW j PROVE Free(t, j)' = {k \in 1..(L - 1) : k + 1 \in Free(t, j)}
  <2>1. Free(t, j)' = {k \in 1..Length(r) : Elements(r)[k] = j}
    BY <1>2 DEF Free
  <2>2. \A k \in 1..(L - 1) : k + 1 \in 1..L
    BY <1>1
  <2>3. QED BY <1>1, <2>1, <2>2 DEF Free
<1>6. Free(t, i)' = {}
  <2>1. \A k \in 1..(L - 1) : k + 1 # 1
    BY <1>1
  <2>2. QED BY <1>4, <1>5, <2>1
<1>7. ASSUME NEW u \in Tasks, NEW j \in Indices(u), ~(u = t /\ j = i)
      PROVE  Keeps(Free(u, j), Free(u, j)')
  <2>1. CASE u # t
    <3>1. Free(u, j)' = Free(u, j)
      BY <1>2, <2>1 DEF Free
    <3>2. QED BY <3>1, SameKept
  <2>2. CASE u = t
    <3>1. 1 \notin Free(t, j)
      BY <1>1, <1>7, <2>2 DEF Free
    <3>2. Free(t, j) \in SUBSET (1..L)
      BY DEF Free
    <3> HIDE DEF L
    <3>3. Keeps(Free(t, j), {k \in 1..(L - 1) : k + 1 \in Free(t, j)})
      BY <1>1, <3>1, <3>2, ShiftKept
    <3>4. QED BY <1>5, <2>2, <3>3
  <2>3. QED BY <2>1, <2>2
<1>8. QED BY <1>3, <1>4, <1>6, <1>7 DEF One

(* A slot is put behind the last of its free queue, at once or in steps. *)
LEMMA FreeAdded ==
    ASSUME FreeQueues, NEW t \in Tasks, NEW i, Free(t, i) = {}, NEW r,
           Length(r) = Length(FQ[t]) + 1,
           \A k \in 1..Length(FQ[t]) : Elements(r)[k] = Elements(FQ[t])[k],
           Elements(r)[Length(FQ[t]) + 1] = i,
           FQ' = [FQ EXCEPT ![t] = r]
    PROVE  /\ One(Free(t, i)')
           /\ \A u \in Tasks : \A j \in Indices(u) :
                 ~(u = t /\ j = i) => Keeps(Free(u, j), Free(u, j)')
<1> DEFINE L == Length(FQ[t])
<1>1. L \in Nat
  BY QueueFacts
<1>2. \A u \in Tasks : FQ'[u] = IF u = t THEN r ELSE FQ[u]
  BY DEF FreeQueues
<1>3. ASSUME NEW j PROVE Free(t, j)' = Free(t, j) \cup {k \in {L + 1} : j = i}
  <2>1. Free(t, j)' = {k \in 1..Length(r) : Elements(r)[k] = j}
    BY <1>2 DEF Free
  <2>2. 1..Length(r) = 1..L \cup {L + 1}
    BY <1>1
  <2>3. L + 1 \notin 1..L
    BY <1>1
  <2> HIDE DEF L
  <2>4. Free(t, j) = {k \in 1..L : Elements(FQ[t])[k] = j}
    BY DEF Free, L
  <2>5. QED BY <2>1, <2>2, <2>3, <2>4 DEF L
<1>4. Free(t, i)' = {L + 1}
  BY <1>3
<1>5. ASSUME NEW u \in Tasks, NEW j \in Indices(u), ~(u = t /\ j = i)
      PROVE  Free(u, j)' = Free(u, j)
  <2>1. CASE u # t
    BY <1>2, <2>1 DEF Free
  <2>2. CASE u = t
    BY <1>3, <1>5, <2>2
  <2>3. QED BY <2>1, <2>2
<1>6. QED BY <1>4, <1>5, SameKept DEF One

(* Whose free queue looks the same. *)
LEMMA FreeSame ==
    ASSUME NEW u, Length(FQ'[u]) = Length(FQ[u]),
           \A k \in 1..Length(FQ[u]) : Elements(FQ'[u])[k] = Elements(FQ[u])[k]
    PROVE  \A j : Free(u, j)' = Free(u, j)
BY DEF Free

(* An entry is put behind the last of the ready queue. *)
LEMMA ReadyAdded ==
    ASSUME ReadyQueue, NEW e, RQ' = Append(RQ, e)
    PROVE  /\ Ready(e.task, e.index) = {} => One(Ready(e.task, e.index)')
           /\ \A u, j : ~(u = e.task /\ j = e.index)
                 => Ready(u, j)' = Ready(u, j)
<1> DEFINE L == Len(RQ)
<1>1. RQ \in Seq(SlotEntries) /\ L \in Nat
  BY DEF ReadyQueue
<1>2. /\ DOMAIN RQ = 1..L /\ DOMAIN RQ' = 1..L \cup {L + 1}
      /\ L + 1 \notin 1..L
      /\ \A k \in 1..L : RQ'[k] = RQ[k]
      /\ RQ'[L + 1] = e
  BY <1>1
<1>3. ASSUME NEW u, NEW j
      PROVE  Ready(u, j)' = Ready(u, j)
                              \cup {k \in {L + 1} : u = e.task /\ j = e.index}
  <2> HIDE DEF L
  <2>1. QED BY <1>2 DEF Ready
<1>4. QED BY <1>3 DEF One

(* The ready queue loses its first entry. *)
LEMMA ReadyTaken ==
    ASSUME ReadyQueue, SlotInv, RQ # <<>>, NEW e, e = Head(RQ), RQ' = Tail(RQ)
    PROVE  /\ e \in SlotEntries /\ One(Ready(e.task, e.index))
           /\ Ready(e.task, e.index)' = {}
           /\ \A u \in Tasks : \A j \in Indices(u) :
                 ~(u = e.task /\ j = e.index) => Keeps(Ready(u, j), Ready(u, j)')
<1> DEFINE L == Len(RQ)
           t == e.task
           i == e.index
<1>1. RQ \in Seq(SlotEntries) /\ L \in Nat /\ L >= 1
  BY DEF ReadyQueue
<1>2. /\ DOMAIN RQ = 1..L /\ DOMAIN RQ' = 1..(L - 1)
      /\ \A k \in 1..(L - 1) : RQ'[k] = RQ[k + 1]
      /\ RQ[1] = e /\ 1 \in 1..L /\ e \in SlotEntries
  BY <1>1
<1>3. t \in Tasks /\ i \in Indices(t)
  BY <1>2 DEF SlotEntries, Entries
<1>4. ASSUME NEW u, NEW j
      PROVE  Ready(u, j)' = {k \in 1..(L - 1) : k + 1 \in Ready(u, j)}
  <2>1. \A k \in 1..(L - 1) : k + 1 \in 1..L
    BY <1>1
  <2> HIDE DEF L
  <2>2. QED BY <1>2, <2>1 DEF Ready
<1>5. Ready(t, i) = {1}
  <2>1. 1 \in Ready(t, i)
    BY <1>2 DEF Ready
  <2>2. OneOf(Free(t, i), Ready(t, i), Timed(t, i), Held(t, i))
    BY <1>3 DEF SlotInv
  <2>3. One(Ready(t, i))
    BY <2>1, <2>2 DEF OneOf
  <2>4. QED BY <2>1, <2>3 DEF One
<1>6. Ready(t, i)' = {}
  <2>1. \A k \in 1..(L - 1) : k + 1 # 1
    BY <1>1
  <2>2. QED BY <1>4, <1>5, <2>1
<1>7. ASSUME NEW u \in Tasks, NEW j \in Indices(u), ~(u = t /\ j = i)
      PROVE  Keeps(Ready(u, j), Ready(u, j)')
  <2>1. 1 \notin Ready(u, j)
    BY <1>2, <1>7 DEF Ready
  <2>2. Ready(u, j) \in SUBSET (1..L)
    BY <1>2 DEF Ready
  <2> HIDE DEF L
  <2>3. Keeps(Ready(u, j), {k \in 1..(L - 1) : k + 1 \in Ready(u, j)})
    BY <1>1, <2>1, <2>2, ShiftKept
  <2>4. QED BY <1>4, <2>3
<1>8. QED BY <1>2, <1>5, <1>6, <1>7 DEF One

(* A context's locals are replaced by L. *)
LEMMA HeldAre ==
    ASSUME Calls, NEW c \in Contexts, NEW L, op' = [op EXCEPT ![c] = L]
    PROVE  \A u, j : Held(u, j)' = (Held(u, j) \ {c}) \cup
                  (IF /\ L.pc \in {"write", "enqueue", "read", "load", "store", "publish"}
                     /\ L.entry.task = u /\ L.entry.index = j
                  THEN {c} ELSE {})
<1>1. \A d \in Contexts : op'[d] = IF d = c THEN L ELSE op[d]
  BY DEF Calls
<1>2. QED BY <1>1 DEF Held, Carries

-----------------------------------------------------------------------------
(* One slot moves, or none: the actions, one at a time. *)
LEMMA Unmoved ==
    ASSUME SlotInv,
           \A t \in Tasks : \A i \in Indices(t) :
              /\ Free(t, i)' = Free(t, i) /\ Ready(t, i)' = Ready(t, i)
              /\ Timed(t, i)' = Timed(t, i) /\ Held(t, i)' = Held(t, i)
    PROVE  SlotInv'
BY DEF SlotInv, Indices

LEMMA Moved ==
    ASSUME SlotInv, NEW t \in Tasks, NEW i \in Indices(t),
           OneOf(Free(t, i)', Ready(t, i)', Timed(t, i)', Held(t, i)'),
           \A u \in Tasks : \A j \in Indices(u) :
              ~(u = t /\ j = i) =>
                 /\ Keeps(Free(u, j), Free(u, j)') /\ Keeps(Ready(u, j), Ready(u, j)')
                 /\ Keeps(Timed(u, j), Timed(u, j)') /\ Keeps(Held(u, j), Held(u, j)')
    PROVE  SlotInv'
<1> SUFFICES ASSUME NEW u \in Tasks, NEW j \in Indices(u)
             PROVE  OneOf(Free(u, j)', Ready(u, j)', Timed(u, j)', Held(u, j)')
  BY DEF SlotInv, Indices
<1>1. CASE u = t /\ j = i
  BY <1>1
<1>2. CASE ~(u = t /\ j = i)
  <2>1. OneOf(Free(u, j), Ready(u, j), Timed(u, j), Held(u, j))
    BY DEF SlotInv
  <2>2. QED BY <1>2, <2>1, OneOfKept
<1>3. QED BY <1>1, <1>2

(* A slot that is in a place of one kind is in none of another. *)
LEMMA Elsewhere ==
    ASSUME SlotInv, NEW t \in Tasks, NEW i \in Indices(t)
    PROVE  /\ Free(t, i) # {} =>
                Ready(t, i) = {} /\ Timed(t, i) = {} /\ Held(t, i) = {}
           /\ Ready(t, i) # {} =>
                Free(t, i) = {} /\ Timed(t, i) = {} /\ Held(t, i) = {}
           /\ Timed(t, i) # {} =>
                Free(t, i) = {} /\ Ready(t, i) = {} /\ Held(t, i) = {}
           /\ Held(t, i) # {} =>
                Free(t, i) = {} /\ Ready(t, i) = {} /\ Timed(t, i) = {}
           /\ \A x \in Free(t, i) : Free(t, i) = {x}
           /\ \A x \in Ready(t, i) : Ready(t, i) = {x}
           /\ \A x \in Timed(t, i) : Timed(t, i) = {x}
           /\ \A x \in Held(t, i) : Held(t, i) = {x}
<1>1. OneOf(Free(t, i), Ready(t, i), Timed(t, i), Held(t, i))
  BY DEF SlotInv
<1>2. QED BY <1>1 DEF OneOf, One

(* What a context carries is held by it alone. *)
LEMMA Carried ==
    ASSUME TypeInv, SlotInv, NEW c \in Contexts, Carries(c), NEW e, e = op[c].entry
    PROVE  /\ e \in SlotEntries /\ e.task \in Tasks /\ e.index \in Indices(e.task)
           /\ e.sent \in Messages
           /\ Held(e.task, e.index) = {c} /\ Free(e.task, e.index) = {}
           /\ Ready(e.task, e.index) = {} /\ Timed(e.task, e.index) = {}
<1>1. e \in SlotEntries
  BY DEF TypeInv, Calls
<1>2. e.task \in Tasks /\ e.index \in Indices(e.task) /\ e.sent \in Messages
  BY <1>1 DEF SlotEntries, Entries
<1>3. c \in Held(e.task, e.index)
  BY DEF Held
<1>4. QED BY <1>1, <1>2, <1>3, Elsewhere

(* A caller carries nothing while it runs user code. *)
LEMMA HomeCarriesNothing ==
    ASSUME NEW c \in Contexts, op[c].pc = Home(c)
    PROVE  ~Carries(c)
BY DEF Home, Carries

LEMMA CancelAlone ==
    ASSUME CancelledBelow, NEW c \in Cancellers, At(c, Home(c))
    PROVE  op[Dispatcher].pc \notin {"store", "publish"}
<1>1. c \in Contexts /\ Dispatcher \in Contexts
  BY ContextFacts
<1>2. PRIORITY[c] \in Nat /\ PRIORITY[Dispatcher] \in Nat
  BY <1>1, ContextAssumption
<1>3. CASE c = Dispatcher
  BY <1>3 DEF At, Home
<1>4. CASE c # Dispatcher
  BY <1>1, <1>2, <1>4 DEF At, Runs, CancelledBelow
<1>5. QED BY <1>3, <1>4

LEMMA SpawnClaimSlots ==
    ASSUME TypeInv, SlotInv, ReturnInv, NEW c \in Spawners, NEW t \in Tasks,
           NEW m \in Messages, SpawnClaim(c, t, m)
    PROVE  SlotInv' /\ ReturnInv'
<1>1. FreeQueues /\ Calls /\ c \in Contexts /\ ~IsEmpty(FQ[t])
  BY ContextFacts DEF TypeInv, SpawnClaim
<1>2. PICK i : i = Oldest(FQ[t])
  OBVIOUS
<1>3. /\ i \in Indices(t) /\ One(Free(t, i)) /\ Free(t, i)' = {}
      /\ \A u \in Tasks : \A j \in Indices(u) :
            ~(u = t /\ j = i) => Keeps(Free(u, j), Free(u, j)')
  <2>1. FQ' = [FQ EXCEPT ![t] = Dequeued(FQ[t])]
    BY DEF SpawnClaim
  <2>2. QED BY <1>1, <1>2, <2>1, FreeTaken
<1>4. PICK L : L = [pc |-> "write", tail |-> 0, entry |-> Entry(t, i, m)]
  OBVIOUS
<1>5. L.pc = "write" /\ L.entry.task = t /\ L.entry.index = i
  BY <1>4 DEF Entry
<1>6. /\ op' = [op EXCEPT ![c] = L]
      /\ \A u, j : Held(u, j)' = (Held(u, j) \ {c}) \cup (IF u = t /\ j = i THEN {c} ELSE {})
  <2>1. op' = [op EXCEPT ![c] = L]
    BY <1>2, <1>4 DEF SpawnClaim
  <2>2. \A u, j : Held(u, j)' = (Held(u, j) \ {c}) \cup
                  (IF /\ L.pc \in {"write", "enqueue", "read", "load", "store", "publish"}
                     /\ L.entry.task = u /\ L.entry.index = j
                  THEN {c} ELSE {})
    BY <1>1, <2>1, HeldAre
  <2>3. QED BY <1>5, <2>1, <2>2
<1>7. \A u, j : c \notin Held(u, j)
  BY <1>1, HomeCarriesNothing DEF SpawnClaim, At, Held
<1>8. \A u, j : Ready(u, j)' = Ready(u, j) /\ Timed(u, j)' = Timed(u, j)
  BY DEF SpawnClaim, Ready, Timed
<1>9. SlotInv'
  <2>1. OneOf(Free(t, i)', Ready(t, i)', Timed(t, i)', Held(t, i)')
    <3>1. Free(t, i) # {}
      BY <1>3 DEF One
    <3>2. Ready(t, i) = {} /\ Timed(t, i) = {} /\ Held(t, i) = {}
      BY <1>3, <3>1, Elsewhere
    <3>3. Held(t, i)' = {c}
      BY <1>6, <3>2
    <3>4. QED BY <1>3, <1>8, <3>2, <3>3 DEF OneOf, One
  <2>2. ASSUME NEW u \in Tasks, NEW j \in Indices(u), ~(u = t /\ j = i)
        PROVE  Held(u, j)' = Held(u, j)
    BY <1>6, <1>7, <2>2
  <2>3. QED BY <1>3, <1>8, <2>1, <2>2, Moved, SameKept
<1>10. ReturnInv'
  <2>1. CASE c = Dispatcher
    BY <1>1, <1>5, <1>6, <2>1 DEF Calls, ReturnInv
  <2>2. CASE c # Dispatcher
    <3>1. op'[Dispatcher] = op[Dispatcher]
      BY <1>1, <1>6, <2>2, ContextFacts DEF Calls
    <3>2. \A u \in Tasks : FQ'[u].tail = FQ[u].tail /\ FQ'[u].buf = FQ[u].buf
      <4>1. /\ Dequeued(FQ[t]).tail = FQ[t].tail /\ Dequeued(FQ[t]).buf = FQ[t].buf
        BY <1>1, QueueFacts DEF Dequeued, QueueOf
      <4>2. FQ' = [FQ EXCEPT ![t] = Dequeued(FQ[t])]
        BY DEF SpawnClaim
      <4>3. QED BY <1>1, <4>1, <4>2 DEF FreeQueues
    <3>3. op[Dispatcher].pc \in {"store", "publish"} => op[Dispatcher].entry.task \in Tasks
      BY ContextFacts DEF TypeInv, Calls, Carries, SlotEntries, Entries
    <3>4. QED BY <3>1, <3>2, <3>3 DEF ReturnInv
  <2>3. QED BY <2>1, <2>2
<1>11. QED BY <1>9, <1>10

(* The dispatcher is not giving a slot back, or nothing it needs changes. *)
LEMMA ReturnKept ==
    ASSUME ReturnInv, FQ' = FQ,
           \/ op'[Dispatcher] = op[Dispatcher]
           \/ op'[Dispatcher].pc \notin {"store", "publish"}
    PROVE  ReturnInv'
BY DEF ReturnInv

(* A context puts the entry it carries into the ready queue. *)
LEMMA EnqueueSlots ==
    ASSUME TypeInv, SlotInv, ReturnInv, NEW c \in Contexts,
           op[c].pc = "enqueue", RQ' = Append(RQ, op[c].entry), GoTo(c, "pend"),
           UNCHANGED <<FQ, TQ>>
    PROVE  SlotInv' /\ ReturnInv'
<1>1. Carries(c) /\ Calls /\ ReadyQueue
  BY DEF Carries, TypeInv
<1>2. PICK e : e = op[c].entry
  OBVIOUS
<1> DEFINE t == e.task
           i == e.index
           L == [op[c] EXCEPT !.pc = "pend"]
<1>3. /\ t \in Tasks /\ i \in Indices(t)
      /\ Held(t, i) = {c} /\ Free(t, i) = {} /\ Ready(t, i) = {} /\ Timed(t, i) = {}
  BY <1>1, <1>2, Carried
<1>4. op' = [op EXCEPT ![c] = L] /\ L.pc = "pend"
  <2>1. op[c] \in Locals
    BY <1>1 DEF Calls
  <2>2. QED BY <2>1 DEF GoTo, Locals
<1>5. \A u, j : Held(u, j)' = Held(u, j) \ {c}
  <2> HIDE DEF L
  <2>1. \A u, j : Held(u, j)' = (Held(u, j) \ {c}) \cup
                  (IF /\ L.pc \in {"write", "enqueue", "read", "load", "store", "publish"}
                     /\ L.entry.task = u /\ L.entry.index = j
                  THEN {c} ELSE {})
    BY <1>1, <1>4, HeldAre
  <2>2. QED BY <1>4, <2>1
<1>6. /\ Ready(t, i) = {} => One(Ready(t, i)')
      /\ \A u, j : ~(u = t /\ j = i) => Ready(u, j)' = Ready(u, j)
  BY <1>1, <1>2, ReadyAdded
<1>7. \A u, j : Free(u, j)' = Free(u, j) /\ Timed(u, j)' = Timed(u, j)
  BY DEF Free, Timed
<1>8. OneOf(Free(t, i)', Ready(t, i)', Timed(t, i)', Held(t, i)')
  BY <1>3, <1>5, <1>6, <1>7 DEF OneOf
<1>9. ASSUME NEW u \in Tasks, NEW j \in Indices(u), ~(u = t /\ j = i)
      PROVE  Held(u, j)' = Held(u, j)
  <2>1. c \notin Held(u, j)
    BY <1>2, <1>9 DEF Held
  <2>2. QED BY <1>5, <2>1
<1>10. SlotInv'
  <2> HIDE DEF t, i
  <2>1. QED BY <1>3, <1>6, <1>7, <1>8, <1>9, Moved, SameKept
<1>11. ReturnInv'
  <2>1. op'[Dispatcher] = op[Dispatcher] \/ op'[Dispatcher].pc = "pend"
    BY <1>1, <1>4, ContextFacts DEF Calls
  <2>2. QED BY <2>1, ReturnKept
<1>12. QED BY <1>10, <1>11

(* A context goes on or ends, and no slot changes hands. *)
LEMMA QuietSlots ==
    ASSUME TypeInv, SlotInv, UNCHANGED <<FQ, RQ, TQ>>, NEW c \in Contexts, NEW L,
           op' = [op EXCEPT ![c] = L],
           L.pc \in {"write", "enqueue", "read", "load", "store", "publish"}
             <=> Carries(c),
           Carries(c) => L.entry = op[c].entry
    PROVE  SlotInv'
<1>1. Calls
  BY DEF TypeInv
<1>2. \A u, j : Held(u, j)' = (Held(u, j) \ {c}) \cup
                  (IF /\ L.pc \in {"write", "enqueue", "read", "load", "store", "publish"}
                     /\ L.entry.task = u /\ L.entry.index = j
                  THEN {c} ELSE {})
  BY <1>1, HeldAre
<1>3. ASSUME NEW u, NEW j PROVE Held(u, j)' = Held(u, j)
  <2>1. c \in Held(u, j) <=> /\ Carries(c) /\ op[c].entry.task = u
                             /\ op[c].entry.index = j
    BY DEF Held
  <2>2. QED BY <1>2, <2>1
<1>4. \A u, j : /\ Free(u, j)' = Free(u, j) /\ Ready(u, j)' = Ready(u, j)
                /\ Timed(u, j)' = Timed(u, j)
  BY DEF Free, Ready, Timed
<1>5. QED BY <1>3, <1>4, Unmoved

LEMMA CallStepSlots ==
    ASSUME TypeInv, SlotInv, ReturnInv, NEW c \in Spawners, CallStep(c)
    PROVE  SlotInv' /\ ReturnInv'
<1>1. c \in Contexts /\ Dispatcher \in Contexts /\ Calls /\ op[c] \in Locals
  BY ContextFacts DEF TypeInv, Calls
<1>2. CASE SpawnWrite(c)
  <2>1. PICK L : L = [op[c] EXCEPT !.pc = "enqueue"]
    OBVIOUS
  <2>2. L.pc = "enqueue" /\ L.entry = op[c].entry /\ op' = [op EXCEPT ![c] = L]
    BY <1>1, <1>2, <2>1 DEF SpawnWrite, GoTo, Locals
  <2>3. Carries(c) /\ FQ' = FQ /\ RQ' = RQ /\ TQ' = TQ
    BY <1>2 DEF SpawnWrite, At, Carries
  <2>4. SlotInv'
    BY <1>1, <2>2, <2>3, QuietSlots
  <2>5. op'[Dispatcher] = op[Dispatcher] \/ op'[Dispatcher].pc = "enqueue"
    BY <1>1, <2>2 DEF Calls
  <2>6. QED BY <2>3, <2>4, <2>5, ReturnKept
<1>3. CASE SpawnEnqueue(c)
  BY <1>1, <1>3, EnqueueSlots DEF SpawnEnqueue, At
<1>4. CASE ScheduleEnqueue(c)
  <2>1. PICK e : e = op[c].entry
    OBVIOUS
  <2>2. PICK f : TQ' = TQ \cup {f} /\ \E m \in Markers :
           f = [task |-> e.task, index |-> e.index, sent |-> e.sent, marker |-> m]
    BY <1>4, <2>1 DEF ScheduleEnqueue
  <2>3. f.task = e.task /\ f.index = e.index
    BY <2>2
  <2> DEFINE t == e.task
             i == e.index
  <2>4. /\ t \in Tasks /\ i \in Indices(t)
        /\ Held(t, i) = {c} /\ Free(t, i) = {} /\ Ready(t, i) = {} /\ Timed(t, i) = {}
    <3>1. Carries(c)
      BY <1>4 DEF ScheduleEnqueue, At, Carries
    <3>2. QED BY <1>1, <2>1, <3>1, Carried
  <2>5. PICK L : L = [NoCall EXCEPT !.pc = Home(c)]
    OBVIOUS
  <2>6. L.pc \in {"idle", "run"} /\ op' = [op EXCEPT ![c] = L] /\ FQ' = FQ /\ RQ' = RQ
    BY <1>1, <1>4, <2>5 DEF ScheduleEnqueue, GoHome, Home, NoCall
  <2>7. \A u, j : Held(u, j)' = Held(u, j) \ {c}
    <3>1. \A u, j : Held(u, j)' = (Held(u, j) \ {c}) \cup
                  (IF /\ L.pc \in {"write", "enqueue", "read", "load", "store", "publish"}
                     /\ L.entry.task = u /\ L.entry.index = j
                  THEN {c} ELSE {})
      BY <1>1, <2>6, HeldAre
    <3>2. QED BY <2>6, <3>1
  <2>8. \A u, j : Free(u, j)' = Free(u, j) /\ Ready(u, j)' = Ready(u, j)
    BY <2>6 DEF Free, Ready
  <2>9. \A u, j : Timed(u, j)' = Timed(u, j) \cup
                                   (IF u = t /\ j = i THEN {f} ELSE {})
    BY <2>2, <2>3 DEF Timed
  <2>10. OneOf(Free(t, i)', Ready(t, i)', Timed(t, i)', Held(t, i)')
    BY <2>4, <2>7, <2>8, <2>9 DEF OneOf, One
  <2>11. ASSUME NEW u \in Tasks, NEW j \in Indices(u), ~(u = t /\ j = i)
         PROVE  Held(u, j)' = Held(u, j) /\ Timed(u, j)' = Timed(u, j)
    <3>1. c \notin Held(u, j)
      BY <2>1, <2>11 DEF Held
    <3>2. QED BY <2>7, <2>9, <2>11, <3>1
  <2>12. SlotInv'
    <3> HIDE DEF t, i
    <3>1. QED BY <2>4, <2>8, <2>10, <2>11, Moved, SameKept
  <2>13. op'[Dispatcher] = op[Dispatcher] \/ op'[Dispatcher].pc \in {"idle", "run"}
    BY <1>1, <2>6 DEF Calls
  <2>14. QED BY <2>6, <2>12, <2>13, ReturnKept
<1>5. CASE SpawnPend(c)
  <2>1. PICK L : L = [NoCall EXCEPT !.pc = Home(c)]
    OBVIOUS
  <2>2. L.pc \in {"idle", "run"} /\ op' = [op EXCEPT ![c] = L]
    BY <1>1, <1>5, <2>1 DEF SpawnPend, GoHome, Home, NoCall
  <2>3. ~Carries(c) /\ FQ' = FQ /\ RQ' = RQ /\ TQ' = TQ
    BY <1>5 DEF SpawnPend, At, Carries
  <2>4. SlotInv'
    BY <1>1, <2>2, <2>3, QuietSlots
  <2>5. op'[Dispatcher] = op[Dispatcher] \/ op'[Dispatcher].pc \in {"idle", "run"}
    BY <1>1, <2>2 DEF Calls
  <2>6. QED BY <2>3, <2>4, <2>5, ReturnKept
<1>6. QED BY <1>2, <1>3, <1>4, <1>5 DEF CallStep

LEMMA HandleSlots ==
    ASSUME TypeInv, SlotInv, ReturnInv, CancelledBelow, NEW h \in Markers,
           \/ DropHandle(h)
           \/ \E c \in Cancellers : cancel(c, h) \/ reschedule_at(c, h)
    PROVE  SlotInv' /\ ReturnInv'
<1>1. ASSUME FQ' = FQ, RQ' = RQ, TQ' = TQ, op' = op PROVE SlotInv' /\ ReturnInv'
  <2>1. \A u, j : /\ Free(u, j)' = Free(u, j) /\ Ready(u, j)' = Ready(u, j)
                  /\ Timed(u, j)' = Timed(u, j) /\ Held(u, j)' = Held(u, j)
    BY <1>1 DEF Free, Ready, Timed, Held, Carries
  <2>2. QED BY <1>1, <2>1, Unmoved, ReturnKept
<1>2. CASE DropHandle(h)
  BY <1>1, <1>2 DEF DropHandle
<1>3. ASSUME NEW e \in TQ
      PROVE  /\ e.task \in Tasks /\ e.index \in Indices(e.task)
             /\ Timed(e.task, e.index) = {e} /\ Free(e.task, e.index) = {}
             /\ Ready(e.task, e.index) = {} /\ Held(e.task, e.index) = {}
  <2>1. e.task \in Tasks /\ e.index \in Indices(e.task)
    BY DEF TypeInv, TimerQueueType, TimerSlots, TimerEntries
  <2>2. e \in Timed(e.task, e.index)
    BY DEF Timed
  <2>3. QED BY <2>1, <2>2, Elsewhere
<1>4. ASSUME NEW c \in Cancellers, cancel(c, h) PROVE SlotInv' /\ ReturnInv'
  <2>1. CASE \E e \in TQ : e.marker = h
    <3>1. PICK e \in TQ : /\ TQ' = TQ \ {e}
                          /\ FQ' = [FQ EXCEPT ![e.task] = Enqueued(FQ[e.task], e.index)]
      BY <1>4, <2>1 DEF cancel
    <3>2. RQ' = RQ /\ op' = op
      BY <1>4 DEF cancel
    <3> DEFINE t == e.task
               i == e.index
               q == FQ[t]
               r == Enqueued(q, i)
    <3>3. /\ t \in Tasks /\ i \in Indices(t)
          /\ Timed(t, i) = {e} /\ Free(t, i) = {} /\ Ready(t, i) = {} /\ Held(t, i) = {}
      BY <1>3
    <3>4. FreeQueues
      BY DEF TypeInv
    <3>5. /\ Length(r) = Length(q) + 1
          /\ \A k \in 1..Length(q) : Elements(r)[k] = Elements(q)[k]
          /\ Elements(r)[Length(q) + 1] = i
      <4> DEFINE n == RingSize(CAPACITY[t])
                 E == Indices(t)
      <4>1. /\ n \in Sizes /\ CAPACITY[t] <= n /\ Wrap % n = 0 /\ CAPACITY[t] \in 1..128
            /\ CAPACITY[t] < Wrap /\ q \in QueueOf(n, E) /\ Length(q) \in Nat
        BY <3>3, <3>4, QueueFacts
      <4>2. Length(q) <= CAPACITY[t] - 1
        BY <3>3, <3>4, Room
      <4>3. Length(q) < n /\ Length(q) + 1 < Wrap /\ i \in E
        <5>1. n \in Int /\ Wrap \in Int
          BY <4>1, WrapAssumption DEF Sizes
        <5> HIDE DEF n, q
        <5>2. QED BY <3>3, <4>1, <4>2, <5>1
      <4> HIDE DEF n, E, q, i
      <4>4. QED BY <4>1, <4>3, EnqueuedIs
    <3>6. /\ One(Free(t, i)')
          /\ \A u \in Tasks : \A j \in Indices(u) :
                ~(u = t /\ j = i) => Keeps(Free(u, j), Free(u, j)')
      <4> HIDE DEF r
      <4>1. FQ' = [FQ EXCEPT ![t] = r]
        BY <3>1 DEF r
      <4> HIDE DEF t, i
      <4>2. QED BY <3>3, <3>4, <3>5, <4>1, FreeAdded DEF q
    <3>7. \A u, j : Ready(u, j)' = Ready(u, j) /\ Held(u, j)' = Held(u, j)
      BY <3>2 DEF Ready, Held, Carries
    <3>8. \A u, j : Timed(u, j)' = Timed(u, j) \ {e}
      BY <3>1 DEF Timed
    <3>9. OneOf(Free(t, i)', Ready(t, i)', Timed(t, i)', Held(t, i)')
      BY <3>3, <3>6, <3>7, <3>8 DEF OneOf
    <3>10. \A u \in Tasks : \A j \in Indices(u) :
              ~(u = t /\ j = i) => Timed(u, j)' = Timed(u, j)
      BY <3>8 DEF Timed
    <3>11. SlotInv'
      <4> HIDE DEF t, i
      <4>1. QED BY <3>3, <3>6, <3>7, <3>9, <3>10, Moved, SameKept
    <3>12. ReturnInv'
      <4>1. op[Dispatcher].pc \notin {"store", "publish"}
        BY <1>4, CancelAlone DEF cancel
      <4>2. QED BY <3>2, <4>1 DEF ReturnInv
    <3>13. QED BY <3>11, <3>12
  <2>2. CASE ~ \E e \in TQ : e.marker = h
    <3>1. TQ' = TQ /\ FQ' = FQ /\ RQ' = RQ /\ op' = op
      BY <1>4, <2>2, Zenon DEF cancel
    <3>2. QED BY <1>1, <3>1
  <2>3. QED BY <2>1, <2>2
<1>5. ASSUME NEW c \in Cancellers, reschedule_at(c, h) PROVE SlotInv' /\ ReturnInv'
  <2>1. FQ' = FQ /\ RQ' = RQ /\ op' = op
    BY <1>5 DEF reschedule_at
  <2>2. CASE \E e \in TQ : e.marker = h
    <3>1. PICK e \in TQ, m \in Markers :
             TQ' = (TQ \ {e}) \cup {[e EXCEPT !.marker = m]}
      BY <1>5, <2>2 DEF reschedule_at
    <3>2. PICK f : f = [e EXCEPT !.marker = m]
      OBVIOUS
    <3>3. f.task = e.task /\ f.index = e.index
      BY <3>2 DEF TypeInv, TimerQueueType, TimerSlots, TimerEntries
    <3> DEFINE t == e.task
               i == e.index
    <3>4. /\ t \in Tasks /\ i \in Indices(t)
          /\ Timed(t, i) = {e} /\ Free(t, i) = {} /\ Ready(t, i) = {} /\ Held(t, i) = {}
      BY <1>3
    <3>5. \A u, j : Timed(u, j)' = (Timed(u, j) \ {e}) \cup
                                     (IF u = t /\ j = i THEN {f} ELSE {})
      BY <3>1, <3>2, <3>3 DEF Timed
    <3>6. \A u, j : /\ Free(u, j)' = Free(u, j) /\ Ready(u, j)' = Ready(u, j)
                    /\ Held(u, j)' = Held(u, j)
      BY <2>1 DEF Free, Ready, Held, Carries
    <3>7. OneOf(Free(t, i)', Ready(t, i)', Timed(t, i)', Held(t, i)')
      BY <3>4, <3>5, <3>6 DEF OneOf, One
    <3>8. \A u \in Tasks : \A j \in Indices(u) :
             ~(u = t /\ j = i) => Timed(u, j)' = Timed(u, j)
      BY <3>5 DEF Timed
    <3>9. SlotInv'
      <4> HIDE DEF t, i
      <4>1. QED BY <3>4, <3>6, <3>7, <3>8, Moved, SameKept
    <3>10. QED BY <2>1, <3>9, ReturnKept
  <2>3. CASE ~ \E e \in TQ : e.marker = h
    <3>1. TQ' = TQ
      BY <1>5, <2>3, Zenon DEF reschedule_at
    <3>2. QED BY <1>1, <2>1, <3>1
  <2>4. QED BY <2>2, <2>3
<1>6. QED BY <1>2, <1>4, <1>5

LEMMA TimerSlotsKept ==
    ASSUME TypeInv, SlotInv, ReturnInv, TimerStart \/ TimerStep
    PROVE  SlotInv' /\ ReturnInv'
<1>1. /\ Timer \in Contexts /\ Dispatcher \in Contexts /\ Timer # Dispatcher /\ Calls
      /\ op[Timer] \in Locals
  BY ContextFacts DEF TypeInv, Calls
<1>2. ASSUME NEW L, op' = [op EXCEPT ![Timer] = L],
             L.pc \notin {"write", "enqueue", "read", "load", "store", "publish"},
             ~Carries(Timer), UNCHANGED <<FQ, RQ, TQ>>
      PROVE  SlotInv' /\ ReturnInv'
  <2>1. SlotInv'
    BY <1>1, <1>2, QuietSlots
  <2>2. op'[Dispatcher] = op[Dispatcher]
    BY <1>1, <1>2 DEF Calls
  <2>3. QED BY <1>2, <2>1, <2>2, ReturnKept
<1>3. CASE TimerStart
  <2>1. PICK L : L = [op[Timer] EXCEPT !.pc = "dequeue"]
    OBVIOUS
  <2>2. L.pc = "dequeue" /\ op' = [op EXCEPT ![Timer] = L]
    BY <1>1, <1>3, <2>1 DEF TimerStart, GoTo, Locals
  <2>3. ~Carries(Timer) /\ UNCHANGED <<FQ, RQ, TQ>>
    BY <1>3 DEF TimerStart, At, Carries
  <2>4. QED BY <1>2, <2>2, <2>3
<1>4. CASE TimerReturn
  <2>1. PICK L : L = NoCall
    OBVIOUS
  <2>2. L.pc = "idle" /\ op' = [op EXCEPT ![Timer] = L]
    BY <1>4, <2>1 DEF TimerReturn, NoCall
  <2>3. ~Carries(Timer) /\ UNCHANGED <<FQ, RQ, TQ>>
    BY <1>4 DEF TimerReturn, At, Carries
  <2>4. QED BY <1>2, <2>2, <2>3
<1>5. CASE TimerPend
  <2>1. PICK L : L = [NoCall EXCEPT !.pc = "dequeue"]
    OBVIOUS
  <2>2. L.pc = "dequeue" /\ op' = [op EXCEPT ![Timer] = L]
    BY <1>5, <2>1 DEF TimerPend, NoCall
  <2>3. ~Carries(Timer) /\ UNCHANGED <<FQ, RQ, TQ>>
    BY <1>5 DEF TimerPend, At, Carries
  <2>4. QED BY <1>2, <2>2, <2>3
<1>6. CASE TimerEnqueue
  BY <1>1, <1>6, EnqueueSlots DEF TimerEnqueue, At
<1>7. CASE TimerDequeue
  <2>1. PICK e \in TQ :
           /\ TQ' = TQ \ {e}
           /\ op' = [op EXCEPT ![Timer] =
                       [pc |-> "enqueue", tail |-> 0,
                        entry |-> Entry(e.task, e.index, e.sent)]]
    BY <1>7 DEF TimerDequeue
  <2>2. PICK L : L = [pc |-> "enqueue", tail |-> 0,
                      entry |-> Entry(e.task, e.index, e.sent)]
    OBVIOUS
  <2> DEFINE t == e.task
             i == e.index
  <2>3. /\ op' = [op EXCEPT ![Timer] = L]
        /\ L.pc = "enqueue" /\ L.entry.task = t /\ L.entry.index = i
    BY <2>1, <2>2 DEF Entry
  <2>4. FQ' = FQ /\ RQ' = RQ /\ ~Carries(Timer)
    BY <1>7 DEF TimerDequeue, At, Carries
  <2>5. /\ t \in Tasks /\ i \in Indices(t)
        /\ Timed(t, i) = {e} /\ Free(t, i) = {} /\ Ready(t, i) = {} /\ Held(t, i) = {}
    <3>1. t \in Tasks /\ i \in Indices(t)
      BY DEF TypeInv, TimerQueueType, TimerSlots, TimerEntries
    <3>2. e \in Timed(t, i)
      BY DEF Timed
    <3>3. QED BY <3>1, <3>2, Elsewhere
  <2>6. \A u, j : Held(u, j)' = (Held(u, j) \ {Timer})
                                  \cup (IF u = t /\ j = i THEN {Timer} ELSE {})
    <3>1. \A u, j : Held(u, j)' = (Held(u, j) \ {Timer}) \cup
                  (IF /\ L.pc \in {"write", "enqueue", "read", "load", "store", "publish"}
                     /\ L.entry.task = u /\ L.entry.index = j
                  THEN {Timer} ELSE {})
      BY <1>1, <2>3, HeldAre
    <3>2. QED BY <2>3, <3>1
  <2>7. \A u, j : Timer \notin Held(u, j)
    BY <2>4 DEF Held
  <2>8. \A u, j : Timed(u, j)' = Timed(u, j) \ {e}
    BY <2>1 DEF Timed
  <2>9. \A u, j : Free(u, j)' = Free(u, j) /\ Ready(u, j)' = Ready(u, j)
    BY <2>4 DEF Free, Ready
  <2>10. OneOf(Free(t, i)', Ready(t, i)', Timed(t, i)', Held(t, i)')
    BY <2>5, <2>6, <2>8, <2>9 DEF OneOf, One
  <2>11. ASSUME NEW u \in Tasks, NEW j \in Indices(u), ~(u = t /\ j = i)
         PROVE  Held(u, j)' = Held(u, j) /\ Timed(u, j)' = Timed(u, j)
    <3>1. e \notin Timed(u, j)
      BY <2>11 DEF Timed
    <3>2. QED BY <2>6, <2>7, <2>8, <2>11, <3>1
  <2>12. SlotInv'
    <3> HIDE DEF t, i
    <3>1. QED BY <2>5, <2>9, <2>10, <2>11, Moved, SameKept
  <2>13. op'[Dispatcher] = op[Dispatcher]
    BY <1>1, <2>3 DEF Calls
  <2>14. QED BY <2>4, <2>12, <2>13, ReturnKept
<1>8. QED BY <1>3, <1>4, <1>5, <1>6, <1>7 DEF TimerStep

LEMMA DispatchLoopSlots ==
    ASSUME TypeInv, SlotInv, ReturnInv,
           \/ DispatchStart \/ DispatchEmpty \/ DispatchReturn \/ TaskReturn
           \/ DispatchRead \/ FreeLoad \/ DispatchDequeue
    PROVE  SlotInv' /\ ReturnInv'
<1> DEFINE D == Dispatcher
<1>1. D \in Contexts /\ Calls /\ op[D] \in Locals
  BY ContextFacts DEF TypeInv, Calls
<1>2. ASSUME NEW L, op' = [op EXCEPT ![D] = L],
             L.pc \in {"write", "enqueue", "read", "load", "store", "publish"}
               <=> Carries(D),
             Carries(D) => L.entry = op[D].entry,
             UNCHANGED <<FQ, RQ, TQ>>, L.pc \notin {"store", "publish"}
      PROVE  SlotInv' /\ ReturnInv'
  <2>1. SlotInv'
    BY <1>1, <1>2, QuietSlots
  <2>2. op'[D] = L
    BY <1>1, <1>2 DEF Calls
  <2>3. QED BY <1>2, <2>1, <2>2, ReturnKept
<1>3. ASSUME NEW pc, GoTo(D, pc)
      PROVE  \E L : /\ op' = [op EXCEPT ![D] = L] /\ L.pc = pc
                    /\ L.entry = op[D].entry
  <2>1. PICK L : L = [op[D] EXCEPT !.pc = pc]
    OBVIOUS
  <2>2. L.pc = pc /\ L.entry = op[D].entry
    BY <1>1, <2>1 DEF Locals
  <2>3. op' = [op EXCEPT ![D] = L]
    BY <1>1, <1>3, <2>1 DEF GoTo
  <2>4. QED BY <2>2, <2>3
<1>4. CASE DispatchStart
  <2>1. GoTo(D, "dequeue") /\ ~Carries(D) /\ UNCHANGED <<FQ, RQ, TQ>>
    BY <1>4 DEF DispatchStart, At, Carries
  <2>2. QED BY <1>2, <1>3, <2>1
<1>5. CASE DispatchEmpty
  <2>1. GoTo(D, "return") /\ ~Carries(D) /\ UNCHANGED <<FQ, RQ, TQ>>
    BY <1>5 DEF DispatchEmpty, At, Carries
  <2>2. QED BY <1>2, <1>3, <2>1
<1>6. CASE DispatchReturn
  <2>1. PICK L : L = NoCall
    OBVIOUS
  <2>2. L.pc = "idle" /\ op' = [op EXCEPT ![D] = L]
    BY <1>6, <2>1 DEF DispatchReturn, NoCall
  <2>3. ~Carries(D) /\ UNCHANGED <<FQ, RQ, TQ>>
    BY <1>6 DEF DispatchReturn, At, Carries
  <2>4. QED BY <1>2, <2>2, <2>3
<1>7. CASE TaskReturn
  <2>1. GoTo(D, "dequeue") /\ ~Carries(D) /\ UNCHANGED <<FQ, RQ, TQ>>
    BY <1>7 DEF TaskReturn, At, Carries
  <2>2. QED BY <1>2, <1>3, <2>1
<1>8. CASE DispatchRead
  <2>1. GoTo(D, "load") /\ Carries(D) /\ UNCHANGED <<FQ, RQ, TQ>>
    BY <1>8 DEF DispatchRead, At, Carries
  <2>2. QED BY <1>2, <1>3, <2>1
<1>9. CASE FreeLoad
  <2>1. PICK L : L = [op[D] EXCEPT !.pc = "store", !.tail = FQ[op[D].entry.task].tail]
    OBVIOUS
  <2>2. /\ L.pc = "store" /\ L.entry = op[D].entry
        /\ L.tail = FQ[op[D].entry.task].tail
    BY <1>1, <2>1 DEF Locals
  <2>3. op' = [op EXCEPT ![D] = L]
    BY <1>1, <1>9, <2>1 DEF FreeLoad, Calls
  <2>4. Carries(D) /\ UNCHANGED <<FQ, RQ, TQ>>
    BY <1>9 DEF FreeLoad, At, Carries
  <2>5. SlotInv'
    BY <1>1, <2>2, <2>3, <2>4, QuietSlots
  <2>6. op'[D] = L
    BY <1>1, <2>3 DEF Calls
  <2>7. ReturnInv'
    BY <2>2, <2>4, <2>6 DEF ReturnInv
  <2>8. QED BY <2>5, <2>7
<1>10. CASE DispatchDequeue
  <2>1. PICK e : e = Head(RQ)
    OBVIOUS
  <2>2. PICK L : L = [pc |-> "read", entry |-> e, tail |-> 0]
    OBVIOUS
  <2>3. /\ op' = [op EXCEPT ![D] = L] /\ L.pc = "read" /\ L.entry = e
        /\ FQ' = FQ /\ TQ' = TQ /\ RQ' = Tail(RQ) /\ RQ # <<>> /\ ~Carries(D)
    BY <1>10, <2>1, <2>2 DEF DispatchDequeue, At, Carries
  <2> DEFINE t == e.task
             i == e.index
  <2>4. /\ e \in SlotEntries /\ One(Ready(t, i)) /\ Ready(t, i)' = {}
        /\ \A u \in Tasks : \A j \in Indices(u) :
              ~(u = t /\ j = i) => Keeps(Ready(u, j), Ready(u, j)')
    BY <2>1, <2>3, ReadyTaken DEF TypeInv
  <2>5. t \in Tasks /\ i \in Indices(t)
    BY <2>4 DEF SlotEntries, Entries
  <2>6. Free(t, i) = {} /\ Timed(t, i) = {} /\ Held(t, i) = {}
    BY <2>4, <2>5, Elsewhere DEF One
  <2>7. \A u, j : Held(u, j)' = (Held(u, j) \ {D})
                                  \cup (IF u = t /\ j = i THEN {D} ELSE {})
    <3>1. \A u, j : Held(u, j)' = (Held(u, j) \ {D}) \cup
                  (IF /\ L.pc \in {"write", "enqueue", "read", "load", "store", "publish"}
                     /\ L.entry.task = u /\ L.entry.index = j
                  THEN {D} ELSE {})
      BY <1>1, <2>3, HeldAre
    <3>2. QED BY <2>3, <3>1
  <2>8. \A u, j : D \notin Held(u, j)
    BY <2>3 DEF Held
  <2>9. \A u, j : Free(u, j)' = Free(u, j) /\ Timed(u, j)' = Timed(u, j)
    BY <2>3 DEF Free, Timed
  <2>10. OneOf(Free(t, i)', Ready(t, i)', Timed(t, i)', Held(t, i)')
    BY <2>4, <2>6, <2>7, <2>9 DEF OneOf, One
  <2>11. \A u \in Tasks : \A j \in Indices(u) :
            ~(u = t /\ j = i) => Held(u, j)' = Held(u, j)
    BY <2>7, <2>8
  <2>12. SlotInv'
    <3> HIDE DEF t, i
    <3>1. QED BY <2>4, <2>5, <2>9, <2>10, <2>11, Moved, SameKept
  <2>13. op'[D].pc = "read"
    BY <1>1, <2>3 DEF Calls
  <2>14. QED BY <2>3, <2>12, <2>13, ReturnKept
<1>11. QED BY <1>4, <1>5, <1>6, <1>7, <1>8, <1>9, <1>10

(* The dispatcher gives a slot back: the index is stored, then published. *)
LEMMA SlotReturnSlots ==
    ASSUME TypeInv, SlotInv, ReturnInv, FreeStore \/ FreePublish
    PROVE  SlotInv' /\ ReturnInv'
<1> DEFINE D == Dispatcher
<1>1. D \in Contexts /\ Calls /\ FreeQueues /\ op[D] \in Locals /\ Carries(D)
  BY ContextFacts DEF TypeInv, Calls, FreeStore, FreePublish, At, Carries
<1>2. PICK e : e = op[D].entry
  OBVIOUS
<1> DEFINE t == e.task
           i == e.index
           q == FQ[t]
           n == RingSize(CAPACITY[t])
           E == Indices(t)
           L == Length(q)
<1>3. /\ t \in Tasks /\ i \in Indices(t)
      /\ Held(t, i) = {D} /\ Free(t, i) = {} /\ Ready(t, i) = {} /\ Timed(t, i) = {}
  BY <1>1, <1>2, Carried
<1>4. /\ n \in Sizes /\ CAPACITY[t] <= n /\ Wrap % n = 0 /\ CAPACITY[t] \in 1..128
      /\ CAPACITY[t] < Wrap /\ q \in QueueOf(n, E) /\ L \in Nat
  BY <1>1, <1>3, QueueFacts
<1>5. L < n /\ L + 1 < Wrap /\ i \in E
  <2>1. L <= CAPACITY[t] - 1
    BY <1>1, <1>3, Room
  <2>2. n \in Int /\ Wrap \in Int /\ i \in E
    BY <1>3, <1>4, WrapAssumption DEF Sizes
  <2> HIDE DEF n, L, t, E, i
  <2>3. QED BY <1>4, <2>1, <2>2
<1>6. op[D].tail = q.tail
  BY <1>2 DEF FreeStore, FreePublish, At, ReturnInv
<1>7. CASE FreeStore
  <2> DEFINE r == Stored(q, q.tail, i)
  <2>1. FQ' = [FQ EXCEPT ![t] = r] /\ RQ' = RQ /\ TQ' = TQ
    BY <1>2, <1>6, <1>7 DEF FreeStore
  <2>2. /\ r.tail = q.tail /\ r.buf[q.tail % n] = i /\ Length(r) = Length(q)
        /\ \A k \in 1..Length(q) : Elements(r)[k] = Elements(q)[k]
    <3> HIDE DEF n, E, q, i
    <3>1. QED BY <1>4, <1>5, StoredIs DEF L
  <2>3. PICK K : K = [op[D] EXCEPT !.pc = "publish"]
    OBVIOUS
  <2>4. /\ K.pc = "publish" /\ K.entry = e /\ K.tail = op[D].tail
        /\ op' = [op EXCEPT ![D] = K]
    BY <1>1, <1>2, <1>7, <2>3 DEF FreeStore, GoTo, Locals
  <2>5. FQ'[t] = r /\ \A u \in Tasks : u # t => FQ'[u] = FQ[u]
    <3> HIDE DEF r
    <3>1. QED BY <1>1, <1>3, <2>1 DEF FreeQueues
  <2>6. \A u \in Tasks : \A j : Free(u, j)' = Free(u, j)
    <3>1. ASSUME NEW u \in Tasks
          PROVE  /\ Length(FQ'[u]) = Length(FQ[u])
                 /\ \A k \in 1..Length(FQ[u]) :
                       Elements(FQ'[u])[k] = Elements(FQ[u])[k]
      <4> HIDE DEF r
      <4>1. CASE u = t
        BY <2>2, <2>5, <4>1
      <4>2. CASE u # t
        BY <2>5, <4>2
      <4>3. QED BY <4>1, <4>2
    <3>2. QED BY <3>1, FreeSame
  <2>7. \A u, j : Ready(u, j)' = Ready(u, j) /\ Timed(u, j)' = Timed(u, j)
    BY <2>1 DEF Ready, Timed
  <2>8. \A u, j : Held(u, j)' = Held(u, j)
    <3>1. \A u, j : Held(u, j)' = (Held(u, j) \ {D}) \cup
                  (IF /\ K.pc \in {"write", "enqueue", "read", "load", "store", "publish"}
                     /\ K.entry.task = u /\ K.entry.index = j
                  THEN {D} ELSE {})
      BY <1>1, <2>4, HeldAre
    <3>2. \A u, j : D \in Held(u, j) <=> e.task = u /\ e.index = j
      BY <1>1, <1>2 DEF Held
    <3>3. QED BY <2>4, <3>1, <3>2
  <2>9. SlotInv'
    BY <2>6, <2>7, <2>8, Unmoved
  <2>10. op'[D] = K
    BY <1>1, <2>4 DEF Calls
  <2>11. ReturnInv'
    <3> HIDE DEF r
    <3>1. /\ op'[D].pc = "publish" /\ op'[D].entry = e
          /\ op'[D].tail = q.tail /\ FQ'[t] = r
      BY <1>6, <2>4, <2>5, <2>10
    <3>2. r.tail = q.tail /\ r.buf[q.tail % n] = i
      BY <2>2
    <3> HIDE DEF q
    <3>3. QED BY <3>1, <3>2 DEF ReturnInv
  <2>12. QED BY <2>9, <2>11
<1>8. CASE FreePublish
  <2> DEFINE r == Published(q, q.tail)
  <2>1. FQ' = [FQ EXCEPT ![t] = r] /\ RQ' = RQ /\ TQ' = TQ
    BY <1>2, <1>6, <1>8 DEF FreePublish
  <2>2. q.buf[q.tail % n] = i
    <3>1. op[D].pc = "publish"
      BY <1>8 DEF FreePublish, At
    <3>2. q.buf[op[D].tail % n] = i
      BY <1>2, <3>1 DEF ReturnInv
    <3> HIDE DEF q, n, i, D
    <3>3. QED BY <1>6, <3>2
  <2>3. /\ Length(r) = Length(q) + 1
        /\ \A k \in 1..Length(q) : Elements(r)[k] = Elements(q)[k]
        /\ Elements(r)[Length(q) + 1] = i
    <3> HIDE DEF n, E, q
    <3>1. QED BY <1>4, <1>5, <2>2, PublishedIs DEF L
  <2>4. PICK K : K = [NoCall EXCEPT !.pc = "run"]
    OBVIOUS
  <2>5. K.pc = "run" /\ op' = [op EXCEPT ![D] = K]
    BY <1>8, <2>4 DEF FreePublish, NoCall
  <2>6. /\ One(Free(t, i)')
        /\ \A u \in Tasks : \A j \in Indices(u) :
              ~(u = t /\ j = i) => Keeps(Free(u, j), Free(u, j)')
    <3> HIDE DEF r, t, i
    <3>1. QED BY <1>1, <1>3, <2>1, <2>3, FreeAdded DEF q
  <2>7. \A u, j : Ready(u, j)' = Ready(u, j) /\ Timed(u, j)' = Timed(u, j)
    BY <2>1 DEF Ready, Timed
  <2>8. \A u, j : Held(u, j)' = Held(u, j) \ {D}
    <3>1. \A u, j : Held(u, j)' = (Held(u, j) \ {D}) \cup
                  (IF /\ K.pc \in {"write", "enqueue", "read", "load", "store", "publish"}
                     /\ K.entry.task = u /\ K.entry.index = j
                  THEN {D} ELSE {})
      BY <1>1, <2>5, HeldAre
    <3>2. QED BY <2>5, <3>1
  <2>9. OneOf(Free(t, i)', Ready(t, i)', Timed(t, i)', Held(t, i)')
    BY <1>3, <2>6, <2>7, <2>8 DEF OneOf
  <2>10. ASSUME NEW u \in Tasks, NEW j \in Indices(u), ~(u = t /\ j = i)
         PROVE  Held(u, j)' = Held(u, j)
    <3>1. D \notin Held(u, j)
      BY <1>2, <2>10 DEF Held
    <3>2. QED BY <2>8, <3>1
  <2>11. SlotInv'
    <3> HIDE DEF t, i
    <3>1. QED BY <1>3, <2>6, <2>7, <2>9, <2>10, Moved, SameKept
  <2>12. op'[D].pc = "run"
    BY <1>1, <2>5 DEF Calls
  <2>13. ReturnInv'
    BY <2>12 DEF ReturnInv
  <2>14. QED BY <2>11, <2>13
<1>9. QED BY <1>7, <1>8

LEMMA InitSlots == Init => SlotInv /\ ReturnInv
<1> SUFFICES ASSUME Init PROVE SlotInv /\ ReturnInv
  OBVIOUS
<1>1. ReturnInv
  BY ContextFacts DEF Init, NoCall, ReturnInv
<1>2. ASSUME NEW t \in Tasks, NEW i \in Indices(t)
      PROVE  OneOf(Free(t, i), Ready(t, i), Timed(t, i), Held(t, i))
  <2>1. Ready(t, i) = {} /\ Timed(t, i) = {} /\ Held(t, i) = {}
    BY DEF Init, NoCall, Ready, Timed, Held, Carries
  <2> DEFINE n == RingSize(CAPACITY[t])
             C == CAPACITY[t]
             q == FreeQueue(t)
  <2>2. FQ[t] = q
    BY DEF Init
  <2>3. n \in Sizes /\ C <= n /\ C \in 1..128 /\ C < Wrap /\ q \in QueueOf(n, Indices(t))
    <3>1. FreeQueues
      BY InitType DEF TypeInv
    <3>2. QED BY <2>2, <3>1, QueueFacts
  <2>4. n \in Nat /\ Wrap \in Nat \ {0} /\ Indices(t) = 0..(C - 1) /\ C \in Nat
    <3>1. n \in Nat /\ C \in Nat
      BY <2>3 DEF Sizes
    <3>2. Wrap \in Nat \ {0}
      BY WrapAssumption
    <3>3. QED BY <3>1, <3>2 DEF Indices
  <2>5. /\ q.buf = [k \in 0..(n - 1) |-> IF k < C THEN k ELSE 0]
        /\ q.head = 0 /\ q.tail = C
    <3>1. q.buf = [k \in 0..(n - 1) |-> IF k < C THEN k ELSE 0]
            /\ q.head = 0 /\ q.tail = C % Wrap
      BY DEF FreeQueue, Filled
    <3>2. C % Wrap = C
      <4> HIDE DEF C
      <4>1. QED BY <2>3, <2>4, ModCases
    <3>3. QED BY <3>1, <3>2
  <2> HIDE DEF q, n, C
  <2>6. Length(q) = C
    <3>1. Length(q) = IF q.tail >= q.head THEN q.tail - q.head
                      ELSE q.tail - q.head + Wrap
      BY <2>3, SizeIs
    <3>2. QED BY <2>4, <2>5, <3>1
  <2>7. ASSUME NEW k \in 1..C PROVE Elements(q)[k] = k - 1
    <3>1. Elements(q)[k] = q.buf[Counter(0, k) % n]
      BY <2>3, <2>5, <2>6, SizeIs
    <3>2. Counter(0, k) = k - 1
      <4>1. 0 \in 0..(Wrap - 1) /\ k \in 1..Wrap /\ 0 + k - 1 = k - 1 /\ k - 1 < Wrap
        BY <2>3, <2>4
      <4>2. QED BY <4>1, CounterIs
    <3>3. (k - 1) % n = k - 1
      <4> DEFINE x == k - 1
      <4>1. x \in Nat /\ x < n /\ n \in Nat \ {0}
        BY <2>3, <2>4
      <4> HIDE DEF x
      <4>2. x % n = x
        BY <4>1, ModCases
      <4>3. QED BY <4>2 DEF x
    <3>4. k - 1 \in 0..(n - 1) /\ k - 1 < C
      BY <2>3, <2>4
    <3>5. QED BY <2>5, <3>1, <3>2, <3>3, <3>4
  <2>8. Free(t, i) = {i + 1}
    <3>1. \A k \in 1..C : k - 1 = i <=> k = i + 1
      BY <2>4
    <3>2. i + 1 \in 1..C
      BY <2>4
    <3>3. QED BY <2>2, <2>6, <2>7, <3>1, <3>2 DEF Free
  <2>9. QED BY <2>1, <2>8 DEF OneOf, One
<1>3. QED BY <1>1, <1>2 DEF SlotInv

LEMMA NextSlots ==
    ASSUME CancelledBelow, TypeInv, SlotInv, ReturnInv, [Next]_vars
    PROVE  SlotInv' /\ ReturnInv'
<1>1. CASE UNCHANGED vars
  <2>1. \A u, j : /\ Free(u, j)' = Free(u, j) /\ Ready(u, j)' = Ready(u, j)
                  /\ Timed(u, j)' = Timed(u, j) /\ Held(u, j)' = Held(u, j)
    BY <1>1 DEF vars, Free, Ready, Timed, Held, Carries
  <2>2. FQ' = FQ /\ op' = op
    BY <1>1 DEF vars
  <2>3. QED BY <2>1, <2>2, Unmoved, ReturnKept
<1>2. CASE Next
  <2>1. ASSUME NEW c \in Spawners, CallStep(c) PROVE SlotInv' /\ ReturnInv'
    BY <2>1, CallStepSlots
  <2>2. ASSUME NEW c \in Spawners, NEW t \in Tasks, NEW m \in Messages,
               SpawnClaim(c, t, m)
        PROVE  SlotInv' /\ ReturnInv'
    BY <2>2, SpawnClaimSlots
  <2>3. ASSUME NEW h \in Markers,
               \/ DropHandle(h)
               \/ \E c \in Cancellers : cancel(c, h) \/ reschedule_at(c, h)
        PROVE  SlotInv' /\ ReturnInv'
    BY <2>3, HandleSlots
  <2>4. CASE TimerStart \/ TimerStep
    BY <2>4, TimerSlotsKept
  <2>5. CASE DispatchStart \/ DispatchStep
    BY <2>5, DispatchLoopSlots, SlotReturnSlots DEF DispatchStep
  <2>6. QED BY <1>2, <2>1, <2>2, <2>3, <2>4, <2>5 DEF Next
<1>3. QED BY <1>1, <1>2

LEMMA SlotsSuffice == SlotInv => SlotsConserved
<1> SUFFICES ASSUME SlotInv, NEW t \in Tasks, NEW i \in Indices(t)
             PROVE  Cardinality(Places(t, i)) = 1
  BY DEF SlotsConserved
<1> DEFINE F == {<<"free", k>> : k \in Free(t, i)}
           R == {<<"ready", k>> : k \in Ready(t, i)}
           T == {<<"timer", e>> : e \in Timed(t, i)}
           H == {<<"context", c>> : c \in Held(t, i)}
<1>1. Places(t, i) = F \cup R \cup T \cup H
  BY DEF Places, Free, Ready, Timed, Held
<1>2. OneOf(Free(t, i), Ready(t, i), Timed(t, i), Held(t, i))
  BY DEF SlotInv
<1>3. \E p : F \cup R \cup T \cup H = {p}
  <2>1. ASSUME NEW k, Free(t, i) = {k} PROVE F = {<<"free", k>>}
    BY <2>1
  <2>2. ASSUME NEW k, Ready(t, i) = {k} PROVE R = {<<"ready", k>>}
    BY <2>2
  <2>3. ASSUME NEW e, Timed(t, i) = {e} PROVE T = {<<"timer", e>>}
    BY <2>3
  <2>4. ASSUME NEW c, Held(t, i) = {c} PROVE H = {<<"context", c>>}
    BY <2>4
  <2>5. /\ Free(t, i) = {} => F = {}
        /\ Ready(t, i) = {} => R = {}
        /\ Timed(t, i) = {} => T = {}
        /\ Held(t, i) = {} => H = {}
    OBVIOUS
  <2> HIDE DEF F, R, T, H
  <2>6. OneOf(F, R, T, H)
    BY <1>2, <2>1, <2>2, <2>3, <2>4, <2>5 DEF OneOf, One
  <2>7. QED BY <2>6 DEF OneOf, One
<1>4. QED BY <1>1, <1>3, FS_Singleton

(* The fixed number of slots circulates: as long as no context that may    *)
(* preempt the dispatcher cancels, each slot of each task is in one place, *)
(* so that none is lost or handed out twice and no unchecked enqueue of an *)
(* index meets a full queue.                                               *)
THEOREM SlotsConservedHolds ==
    ASSUME CancelledBelow PROVE Spec => []SlotsConserved
<1>1. TypeInv /\ SlotInv /\ ReturnInv /\ [Next]_vars => SlotInv' /\ ReturnInv'
  BY NextSlots
<1>2. Init => TypeInv /\ SlotInv /\ ReturnInv
  BY InitType, InitSlots
<1>3. QED BY <1>1, <1>2, NextType, SlotsSuffice, PTL DEF Spec
-----------------------------------------------------------------------------
(* The slot of an entry holds the message the entry stands for, from the   *)
(* time the caller has written it until the dispatcher has read it.        *)
Intact(e) == INPUTS[e.task][e.index] = e.sent

MessageInv ==
    /\ \A k \in DOMAIN RQ : Intact(RQ[k])
    /\ \A e \in TQ : Intact(e)
    /\ \A c \in Contexts : op[c].pc \in {"enqueue", "read"} => Intact(op[c].entry)
    /\ MessageIntact

(* A message is written into a slot that no other entry stands for. *)
LEMMA WriteMessage ==
    ASSUME TypeInv, SlotInv, MessageInv, NEW c \in Spawners, SpawnWrite(c)
    PROVE  MessageInv'
<1>1. c \in Contexts /\ Calls /\ Buffers /\ op[c] \in Locals /\ Carries(c)
  BY ContextFacts DEF TypeInv, Calls, SpawnWrite, At, Carries
<1>2. PICK e : e = op[c].entry
  OBVIOUS
<1>3. /\ e.task \in Tasks /\ e.index \in Indices(e.task)
      /\ Held(e.task, e.index) = {c}
      /\ Ready(e.task, e.index) = {} /\ Timed(e.task, e.index) = {}
  BY <1>1, <1>2, Carried
<1>4. INPUTS' = [INPUTS EXCEPT ![e.task][e.index] = e.sent]
  BY <1>2 DEF SpawnWrite
<1>5. INPUTS'[e.task][e.index] = e.sent
  BY <1>1, <1>3, <1>4 DEF Buffers
<1>6. ASSUME NEW t \in Tasks, NEW i \in Indices(t), ~(t = e.task /\ i = e.index)
      PROVE  INPUTS'[t][i] = INPUTS[t][i]
  BY <1>1, <1>3, <1>4, <1>6 DEF Buffers
<1>7. ASSUME NEW k \in DOMAIN RQ PROVE INPUTS'[RQ[k].task][RQ[k].index] = RQ[k].sent
  <2>1. RQ[k].task \in Tasks /\ RQ[k].index \in Indices(RQ[k].task)
    BY DEF TypeInv, ReadyQueue, SlotEntries, Entries
  <2>2. ~(RQ[k].task = e.task /\ RQ[k].index = e.index)
    BY <1>3 DEF Ready
  <2>3. QED BY <1>6, <2>1, <2>2 DEF MessageInv, Intact
<1>8. ASSUME NEW f \in TQ PROVE INPUTS'[f.task][f.index] = f.sent
  <2>1. f.task \in Tasks /\ f.index \in Indices(f.task)
    BY DEF TypeInv, TimerQueueType, TimerSlots, TimerEntries
  <2>2. ~(f.task = e.task /\ f.index = e.index)
    BY <1>3 DEF Timed
  <2>3. QED BY <1>6, <2>1, <2>2 DEF MessageInv, Intact
<1>9. /\ RQ' = RQ /\ TQ' = TQ /\ outcome' = outcome
      /\ op'[c].entry = e
      /\ \A d \in Contexts \ {c} : op'[d] = op[d]
  BY <1>1, <1>2 DEF SpawnWrite, GoTo, Locals
<1>10. ASSUME NEW d \in Contexts, op'[d].pc \in {"enqueue", "read"}
       PROVE  INPUTS'[op'[d].entry.task][op'[d].entry.index] = op'[d].entry.sent
  <2>1. CASE d = c
    BY <1>5, <1>9, <2>1
  <2>2. CASE d # c
    <3>1. PICK f : f = op[d].entry
      OBVIOUS
    <3>2. op'[d] = op[d] /\ Carries(d)
      BY <1>9, <1>10, <2>2 DEF Carries
    <3>3. f.task \in Tasks /\ f.index \in Indices(f.task)
      BY <1>1, <3>1, <3>2 DEF Calls, SlotEntries, Entries
    <3>4. ~(f.task = e.task /\ f.index = e.index)
      BY <1>3, <2>2, <3>1, <3>2 DEF Held
    <3>5. QED BY <1>6, <1>10, <3>1, <3>2, <3>3, <3>4 DEF MessageInv, Intact
  <2>3. QED BY <2>1, <2>2
<1>11. QED
  BY <1>7, <1>8, <1>9, <1>10 DEF MessageInv, Intact, MessageIntact

(* Everywhere else a message only travels, or is given out. *)
LEMMA TravelMessage ==
    ASSUME TypeInv, MessageInv, INPUTS' = INPUTS,
           \A k \in DOMAIN RQ' : Intact(RQ'[k]),
           \A e \in TQ' : Intact(e),
           \A c \in Contexts : op'[c].pc \in {"enqueue", "read"} => Intact(op'[c].entry),
           \/ outcome' = outcome
           \/ \E e : Intact(e) /\ outcome' = [sent |-> e.sent,
                                              got |-> INPUTS[e.task][e.index]]
    PROVE  MessageInv'
BY DEF MessageInv, Intact, MessageIntact

LEMMA CallReplacedIntact ==
    ASSUME TypeInv, MessageInv, NEW c \in Contexts, NEW L, op' = [op EXCEPT ![c] = L],
           L.pc \in {"enqueue", "read"} => Intact(L.entry)
    PROVE  \A d \in Contexts :
              op'[d].pc \in {"enqueue", "read"} => Intact(op'[d].entry)
<1>1. \A d \in Contexts : op'[d] = IF d = c THEN L ELSE op[d]
  BY DEF TypeInv, Calls
<1>2. QED BY <1>1 DEF MessageInv

LEMMA CallMovesIntact ==
    ASSUME TypeInv, MessageInv, NEW c \in Contexts, NEW pc, GoTo(c, pc),
           pc \notin {"enqueue", "read"}
    PROVE  \A d \in Contexts :
              op'[d].pc \in {"enqueue", "read"} => Intact(op'[d].entry)
<1>1. PICK L : L = [op[c] EXCEPT !.pc = pc]
  OBVIOUS
<1>2. op[c] \in Locals
  BY DEF TypeInv, Calls
<1>3. L.pc = pc /\ op' = [op EXCEPT ![c] = L]
  BY <1>1, <1>2 DEF GoTo, Locals
<1>4. QED BY <1>3, CallReplacedIntact

LEMMA SpawnMessage ==
    ASSUME TypeInv, SlotInv, MessageInv, NEW c \in Spawners,
           \/ CallStep(c)
           \/ \E t \in Tasks, m \in Messages : SpawnClaim(c, t, m)
    PROVE  MessageInv'
<1>1. c \in Contexts /\ RQ \in Seq(SlotEntries)
  BY ContextFacts DEF TypeInv, ReadyQueue
<1>2. CASE SpawnWrite(c)
  BY <1>2, WriteMessage
<1>3. CASE SpawnEnqueue(c)
  <2>1. \A k \in DOMAIN RQ' : Intact(RQ'[k])
    <3>1. PICK e : e = op[c].entry
      OBVIOUS
    <3>2. Intact(e) /\ RQ' = Append(RQ, e)
      BY <1>1, <1>3, <3>1 DEF SpawnEnqueue, At, MessageInv
    <3>3. \A k \in DOMAIN RQ' : RQ'[k] = e \/ (k \in DOMAIN RQ /\ RQ'[k] = RQ[k])
      BY <1>1, <3>2
    <3>4. QED BY <3>2, <3>3 DEF MessageInv
  <2>2. QED
    BY <1>1, <1>3, <2>1, CallMovesIntact, TravelMessage DEF SpawnEnqueue, MessageInv
<1>4. CASE ScheduleEnqueue(c)
  <2>1. PICK e : e = op[c].entry
    OBVIOUS
  <2>2. PICK f : TQ' = TQ \cup {f} /\ \E m \in Markers :
           f = [task |-> e.task, index |-> e.index, sent |-> e.sent, marker |-> m]
    BY <1>4, <2>1 DEF ScheduleEnqueue
  <2>3. Intact(f)
    BY <1>1, <1>4, <2>1, <2>2 DEF ScheduleEnqueue, At, MessageInv, Intact
  <2>4. PICK L : L = [NoCall EXCEPT !.pc = Home(c)]
    OBVIOUS
  <2>5. L.pc \notin {"enqueue", "read"} /\ op' = [op EXCEPT ![c] = L]
    BY <1>4, <2>4 DEF ScheduleEnqueue, GoHome, Home, NoCall
  <2>6. \A d \in Contexts :
           op'[d].pc \in {"enqueue", "read"} => Intact(op'[d].entry)
    BY <1>1, <2>5, CallReplacedIntact
  <2>7. INPUTS' = INPUTS /\ RQ' = RQ /\ outcome' = outcome
    BY <1>4 DEF ScheduleEnqueue
  <2>8. QED BY <2>2, <2>3, <2>6, <2>7, TravelMessage DEF MessageInv
<1>5. CASE SpawnPend(c)
  <2>1. PICK L : L = [NoCall EXCEPT !.pc = Home(c)]
    OBVIOUS
  <2>2. L.pc \notin {"enqueue", "read"} /\ op' = [op EXCEPT ![c] = L]
    BY <1>5, <2>1 DEF SpawnPend, GoHome, Home, NoCall
  <2>3. \A d \in Contexts :
           op'[d].pc \in {"enqueue", "read"} => Intact(op'[d].entry)
    BY <1>1, <2>2, CallReplacedIntact
  <2>4. INPUTS' = INPUTS /\ RQ' = RQ /\ TQ' = TQ /\ outcome' = outcome
    BY <1>5 DEF SpawnPend
  <2>5. QED BY <2>3, <2>4, TravelMessage DEF MessageInv
<1>6. ASSUME NEW t \in Tasks, NEW m \in Messages, SpawnClaim(c, t, m)
      PROVE  MessageInv'
  <2>1. PICK L : L = [pc |-> "write", tail |-> 0, entry |-> Entry(t, Oldest(FQ[t]), m)]
    OBVIOUS
  <2>2. L.pc = "write" /\ op' = [op EXCEPT ![c] = L]
    BY <1>6, <2>1 DEF SpawnClaim
  <2>3. \A d \in Contexts :
           op'[d].pc \in {"enqueue", "read"} => Intact(op'[d].entry)
    BY <1>1, <2>2, CallReplacedIntact
  <2>4. INPUTS' = INPUTS /\ RQ' = RQ /\ TQ' = TQ /\ outcome' = outcome
    BY <1>6 DEF SpawnClaim
  <2>5. QED BY <2>3, <2>4, TravelMessage DEF MessageInv
<1>7. QED BY <1>2, <1>3, <1>4, <1>5, <1>6 DEF CallStep

LEMMA HandleMessage ==
    ASSUME TypeInv, MessageInv, NEW h \in Markers,
           \/ DropHandle(h)
           \/ \E c \in Cancellers : cancel(c, h) \/ reschedule_at(c, h)
    PROVE  MessageInv'
<1>1. INPUTS' = INPUTS /\ RQ' = RQ /\ op' = op
  BY DEF DropHandle, cancel, reschedule_at
<1>2. ASSUME \A e \in TQ' : Intact(e),
             \/ outcome' = outcome
             \/ \E e : Intact(e) /\ outcome' = [sent |-> e.sent,
                                                got |-> INPUTS[e.task][e.index]]
      PROVE  MessageInv'
  BY <1>1, <1>2, TravelMessage DEF MessageInv
<1>3. CASE DropHandle(h)
  BY <1>2, <1>3 DEF DropHandle, MessageInv
<1>4. ASSUME NEW c \in Cancellers, cancel(c, h) PROVE MessageInv'
  <2>1. CASE \E e \in TQ : e.marker = h
    <3>1. PICK e \in TQ :
             /\ TQ' = TQ \ {e}
             /\ outcome' = [sent |-> e.sent, got |-> INPUTS[e.task][e.index]]
      BY <1>4, <2>1 DEF cancel
    <3>2. QED BY <1>2, <3>1 DEF MessageInv
  <2>2. CASE ~ \E e \in TQ : e.marker = h
    <3>1. TQ' = TQ /\ outcome' = outcome
      BY <1>4, <2>2, Zenon DEF cancel
    <3>2. QED BY <1>2, <3>1 DEF MessageInv
  <2>3. QED BY <2>1, <2>2
<1>5. ASSUME NEW c \in Cancellers, reschedule_at(c, h) PROVE MessageInv'
  <2>1. outcome' = outcome
    BY <1>5 DEF reschedule_at
  <2>2. CASE \E e \in TQ : e.marker = h
    <3>1. PICK e \in TQ, m \in Markers :
             TQ' = (TQ \ {e}) \cup {[e EXCEPT !.marker = m]}
      BY <1>5, <2>2 DEF reschedule_at
    <3>2. PICK f : f = [e EXCEPT !.marker = m]
      OBVIOUS
    <3>3. f.task = e.task /\ f.index = e.index /\ f.sent = e.sent
      BY <3>2 DEF TypeInv, TimerQueueType, TimerSlots, TimerEntries
    <3>4. Intact(e) /\ Intact(f)
      BY <3>3 DEF MessageInv, Intact
    <3>5. QED BY <1>2, <2>1, <3>1, <3>2, <3>4 DEF MessageInv
  <2>3. CASE ~ \E e \in TQ : e.marker = h
    <3>1. TQ' = TQ
      BY <1>5, <2>3, Zenon DEF reschedule_at
    <3>2. QED BY <1>2, <2>1, <3>1 DEF MessageInv
  <2>4. QED BY <2>2, <2>3
<1>6. QED BY <1>3, <1>4, <1>5

LEMMA TimerMessage ==
    ASSUME TypeInv, MessageInv, TimerStart \/ TimerStep
    PROVE  MessageInv'
<1>1. Timer \in Contexts /\ RQ \in Seq(SlotEntries)
  BY ContextFacts DEF TypeInv, ReadyQueue
<1>2. ASSUME NEW L, op' = [op EXCEPT ![Timer] = L], L.pc \notin {"enqueue", "read"},
             UNCHANGED <<INPUTS, RQ, TQ, outcome>>
      PROVE  MessageInv'
  <2>1. \A d \in Contexts :
           op'[d].pc \in {"enqueue", "read"} => Intact(op'[d].entry)
    BY <1>1, <1>2, CallReplacedIntact
  <2>2. QED BY <1>2, <2>1, TravelMessage DEF MessageInv
<1>3. CASE TimerStart
  BY <1>1, <1>3, CallMovesIntact, TravelMessage DEF TimerStart, MessageInv
<1>4. CASE TimerReturn
  BY <1>2, <1>4 DEF TimerReturn, NoCall
<1>5. CASE TimerPend
  <2>1. PICK L : L = [NoCall EXCEPT !.pc = "dequeue"]
    OBVIOUS
  <2>2. L.pc = "dequeue"
    BY <2>1 DEF NoCall
  <2>3. QED BY <1>2, <1>5, <2>1, <2>2 DEF TimerPend
<1>6. CASE TimerEnqueue
  <2>1. \A k \in DOMAIN RQ' : Intact(RQ'[k])
    <3>1. PICK e : e = op[Timer].entry
      OBVIOUS
    <3>2. Intact(e) /\ RQ' = Append(RQ, e)
      BY <1>1, <1>6, <3>1 DEF TimerEnqueue, At, MessageInv
    <3>3. \A k \in DOMAIN RQ' : RQ'[k] = e \/ (k \in DOMAIN RQ /\ RQ'[k] = RQ[k])
      BY <1>1, <3>2
    <3>4. QED BY <3>2, <3>3 DEF MessageInv
  <2>2. QED
    BY <1>1, <1>6, <2>1, CallMovesIntact, TravelMessage DEF TimerEnqueue, MessageInv
<1>7. CASE TimerDequeue
  <2>1. PICK e \in TQ :
           /\ TQ' = TQ \ {e}
           /\ op' = [op EXCEPT ![Timer] =
                       [pc |-> "enqueue", tail |-> 0,
                        entry |-> Entry(e.task, e.index, e.sent)]]
    BY <1>7 DEF TimerDequeue
  <2>2. PICK L : L = [pc |-> "enqueue", tail |-> 0,
                      entry |-> Entry(e.task, e.index, e.sent)]
    OBVIOUS
  <2>3. Intact(L.entry) /\ op' = [op EXCEPT ![Timer] = L]
    BY <2>1, <2>2 DEF MessageInv, Intact, Entry
  <2>4. \A d \in Contexts :
           op'[d].pc \in {"enqueue", "read"} => Intact(op'[d].entry)
    BY <1>1, <2>3, CallReplacedIntact
  <2>5. INPUTS' = INPUTS /\ RQ' = RQ /\ outcome' = outcome
    BY <1>7 DEF TimerDequeue
  <2>6. QED BY <2>1, <2>4, <2>5, TravelMessage DEF MessageInv
<1>8. QED BY <1>3, <1>4, <1>5, <1>6, <1>7 DEF TimerStep

LEMMA DispatchMessage ==
    ASSUME TypeInv, MessageInv, DispatchStart \/ DispatchStep
    PROVE  MessageInv'
<1>1. /\ Dispatcher \in Contexts /\ RQ \in Seq(SlotEntries)
      /\ op[Dispatcher] \in Locals
  BY ContextFacts DEF TypeInv, ReadyQueue, Calls
<1>2. ASSUME NEW L, op' = [op EXCEPT ![Dispatcher] = L],
             L.pc \notin {"enqueue", "read"}, UNCHANGED <<INPUTS, RQ, TQ, outcome>>
      PROVE  MessageInv'
  <2>1. \A d \in Contexts :
           op'[d].pc \in {"enqueue", "read"} => Intact(op'[d].entry)
    BY <1>1, <1>2, CallReplacedIntact
  <2>2. QED BY <1>2, <2>1, TravelMessage DEF MessageInv
<1>3. ASSUME NEW pc \in {"dequeue", "return", "publish"}, GoTo(Dispatcher, pc),
             UNCHANGED <<INPUTS, RQ, TQ, outcome>>
      PROVE  MessageInv'
  <2>1. \A d \in Contexts :
           op'[d].pc \in {"enqueue", "read"} => Intact(op'[d].entry)
    BY <1>1, <1>3, CallMovesIntact
  <2>2. QED BY <1>3, <2>1, TravelMessage DEF MessageInv
<1>4. CASE DispatchStart
  BY <1>3, <1>4 DEF DispatchStart
<1>5. CASE DispatchEmpty
  BY <1>3, <1>5 DEF DispatchEmpty
<1>6. CASE DispatchReturn
  BY <1>2, <1>6 DEF DispatchReturn, NoCall
<1>7. CASE TaskReturn
  BY <1>3, <1>7 DEF TaskReturn
<1>8. CASE FreeStore
  BY <1>3, <1>8 DEF FreeStore
<1>9. CASE FreeLoad
  <2>1. PICK L : L = [op[Dispatcher] EXCEPT !.pc = "store",
                                            !.tail = FQ[op[Dispatcher].entry.task].tail]
    OBVIOUS
  <2>2. L.pc = "store" /\ op' = [op EXCEPT ![Dispatcher] = L]
    BY <1>1, <1>9, <2>1 DEF FreeLoad, Locals, TypeInv, Calls
  <2>3. QED BY <1>2, <1>9, <2>2 DEF FreeLoad
<1>10. CASE FreePublish
  <2>1. PICK L : L = [NoCall EXCEPT !.pc = "run"]
    OBVIOUS
  <2>2. L.pc = "run"
    BY <2>1 DEF NoCall
  <2>3. QED BY <1>2, <1>10, <2>1, <2>2 DEF FreePublish
<1>11. CASE DispatchRead
  <2>1. PICK e : e = op[Dispatcher].entry
    OBVIOUS
  <2>2. Intact(e) /\ outcome' = [sent |-> e.sent, got |-> INPUTS[e.task][e.index]]
    BY <1>1, <1>11, <2>1 DEF DispatchRead, At, MessageInv
  <2>3. \A d \in Contexts :
           op'[d].pc \in {"enqueue", "read"} => Intact(op'[d].entry)
    BY <1>1, <1>11, CallMovesIntact DEF DispatchRead
  <2>4. INPUTS' = INPUTS /\ RQ' = RQ /\ TQ' = TQ
    BY <1>11 DEF DispatchRead
  <2>5. QED BY <2>2, <2>3, <2>4, TravelMessage DEF MessageInv
<1>12. CASE DispatchDequeue
  <2>1. PICK e : e = Head(RQ)
    OBVIOUS
  <2>2. /\ RQ' = Tail(RQ) /\ RQ # <<>>
        /\ INPUTS' = INPUTS /\ TQ' = TQ /\ outcome' = outcome
    BY <1>12 DEF DispatchDequeue
  <2>3. /\ 1 \in DOMAIN RQ /\ e = RQ[1]
        /\ \A k \in DOMAIN RQ' : k + 1 \in DOMAIN RQ /\ RQ'[k] = RQ[k + 1]
    BY <1>1, <2>1, <2>2
  <2>4. Intact(e) /\ \A k \in DOMAIN RQ' : Intact(RQ'[k])
    BY <2>3 DEF MessageInv
  <2>5. PICK L : L = [pc |-> "read", entry |-> e, tail |-> 0]
    OBVIOUS
  <2>6. op' = [op EXCEPT ![Dispatcher] = L] /\ L.entry = e
    BY <1>12, <2>1, <2>5 DEF DispatchDequeue
  <2>7. \A d \in Contexts :
           op'[d].pc \in {"enqueue", "read"} => Intact(op'[d].entry)
    BY <1>1, <2>4, <2>6, CallReplacedIntact
  <2>8. QED BY <2>2, <2>4, <2>7, TravelMessage DEF MessageInv
<1>13. QED
  BY <1>4, <1>5, <1>6, <1>7, <1>8, <1>9, <1>10, <1>11, <1>12 DEF DispatchStep

LEMMA NextMessage == TypeInv /\ SlotInv /\ MessageInv /\ [Next]_vars => MessageInv'
<1> SUFFICES ASSUME TypeInv, SlotInv, MessageInv, [Next]_vars PROVE MessageInv'
  OBVIOUS
<1>1. CASE UNCHANGED vars
  BY <1>1 DEF vars, MessageInv, Intact, MessageIntact
<1>2. CASE Next
  <2>1. ASSUME NEW c \in Spawners,
               \/ CallStep(c)
               \/ \E t \in Tasks, m \in Messages : SpawnClaim(c, t, m)
        PROVE  MessageInv'
    BY <2>1, SpawnMessage
  <2>2. ASSUME NEW h \in Markers,
               \/ DropHandle(h)
               \/ \E c \in Cancellers : cancel(c, h) \/ reschedule_at(c, h)
        PROVE  MessageInv'
    BY <2>2, HandleMessage
  <2>3. CASE TimerStart \/ TimerStep
    BY <2>3, TimerMessage
  <2>4. CASE DispatchStart \/ DispatchStep
    BY <2>4, DispatchMessage
  <2>5. QED BY <1>2, <2>1, <2>2, <2>3, <2>4 DEF Next
<1>3. QED BY <1>1, <1>2

(* Whoever gets a message, the task or who cancels, gets the one its entry *)
(* was made for: nobody writes into a slot that an entry still stands for. *)
THEOREM MessageIntactHolds ==
    ASSUME CancelledBelow PROVE Spec => []MessageIntact
<1>1. TypeInv /\ SlotInv /\ ReturnInv /\ [Next]_vars => SlotInv' /\ ReturnInv'
  BY NextSlots
<1>2. Init => TypeInv /\ SlotInv /\ ReturnInv /\ MessageInv
  <2>1. Init => MessageInv
    BY DEF Init, NoCall, MessageInv, MessageIntact
  <2>2. QED BY <2>1, InitType, InitSlots
<1>3. MessageInv => MessageIntact
  BY DEF MessageInv
<1>4. QED BY <1>1, <1>2, <1>3, NextType, NextMessage, PTL DEF Spec

-----------------------------------------------------------------------------
(* The mailbox.  Slot i of task t waits with message m while its entry is  *)
(* queued, or in the hands of a context that has not read the message.     *)
For(e, t, i, m) == e.task = t /\ e.index = i /\ e.sent = m

HasMail(pc) == pc \in {"write", "enqueue", "read"}

InReady(t, i, m) == \E k \in DOMAIN RQ : For(RQ[k], t, i, m)
InTimer(t, i, m) == \E e \in TQ : For(e, t, i, m)
InHands(t, i, m) == \E c \in Contexts : HasMail(op[c].pc) /\ For(op[c].entry, t, i, m)

Waits(t, i, m) == InReady(t, i, m) \/ InTimer(t, i, m) \/ InHands(t, i, m)

InBox(t, m) == {i \in Indices(t) : Waits(t, i, m)}

(* What a step does to the boxes: nothing, or one message of one slot is   *)
(* accepted or given out.                                                  *)
MailStays ==
    /\ \A t \in Tasks : \A i \in Indices(t), m \in Messages :
          Waits(t, i, m)' <=> Waits(t, i, m)
    /\ outcome' = outcome

MailComes(t, i, m) ==
    /\ \A k \in Messages : ~Waits(t, i, k)
    /\ \A u \in Tasks : \A j \in Indices(u), k \in Messages :
          Waits(u, j, k)' <=> Waits(u, j, k) \/ (u = t /\ j = i /\ k = m)
    /\ outcome' = outcome

MailGoes(t, i, m) ==
    /\ Waits(t, i, m)
    /\ \A u \in Tasks : \A j \in Indices(u), k \in Messages :
          Waits(u, j, k)' <=> Waits(u, j, k) /\ ~(u = t /\ j = i /\ k = m)
    /\ outcome'.got = m

MailMoves ==
    \/ MailStays
    \/ \E t \in Tasks : \E i \in Indices(t), m \in Messages :
          MailComes(t, i, m) \/ MailGoes(t, i, m)

(* A slot waits with one message at most, and a free one with none. *)
LEMMA OneMessage ==
    ASSUME TypeInv, SlotInv, NEW t \in Tasks, NEW i \in Indices(t), NEW m, Waits(t, i, m)
    PROVE  /\ Free(t, i) = {}
           /\ \A k : Waits(t, i, k) => k = m
<1> SUFFICES ASSUME NEW k, Waits(t, i, k) PROVE Free(t, i) = {} /\ k = m
  BY DEF Waits
<1>1. \A n : /\ InReady(t, i, n) => \E x \in Ready(t, i) : RQ[x].sent = n
             /\ InTimer(t, i, n) => \E x \in Timed(t, i) : x.sent = n
             /\ InHands(t, i, n) => \E x \in Held(t, i) : op[x].entry.sent = n
  BY DEF InReady, InTimer, InHands, For, HasMail, Ready, Timed, Held, Carries
<1>2. CASE InReady(t, i, m)
  <2>1. PICK x \in Ready(t, i) : RQ[x].sent = m
    BY <1>1, <1>2
  <2>2. Ready(t, i) = {x} /\ Timed(t, i) = {} /\ Held(t, i) = {} /\ Free(t, i) = {}
    BY <2>1, Elsewhere
  <2>3. QED BY <1>1, <2>1, <2>2 DEF Waits
<1>3. CASE InTimer(t, i, m)
  <2>1. PICK x \in Timed(t, i) : x.sent = m
    BY <1>1, <1>3
  <2>2. Timed(t, i) = {x} /\ Ready(t, i) = {} /\ Held(t, i) = {} /\ Free(t, i) = {}
    BY <2>1, Elsewhere
  <2>3. QED BY <1>1, <2>1, <2>2 DEF Waits
<1>4. CASE InHands(t, i, m)
  <2>1. PICK x \in Held(t, i) : op[x].entry.sent = m
    BY <1>1, <1>4
  <2>2. Held(t, i) = {x} /\ Ready(t, i) = {} /\ Timed(t, i) = {} /\ Free(t, i) = {}
    BY <2>1, Elsewhere
  <2>3. QED BY <1>1, <2>1, <2>2 DEF Waits
<1>5. QED BY <1>2, <1>3, <1>4 DEF Waits

(* The mail in the hands of the others, when c's locals are replaced. *)
Others(c, t, i, m) ==
    \E d \in Contexts \ {c} : HasMail(op[d].pc) /\ For(op[d].entry, t, i, m)

LEMMA HandsAre ==
    ASSUME Calls, NEW c \in Contexts, NEW L, op' = [op EXCEPT ![c] = L]
    PROVE  \A t, i, m :
              /\ InHands(t, i, m) <=> \/ Others(c, t, i, m)
                                      \/ HasMail(op[c].pc) /\ For(op[c].entry, t, i, m)
              /\ InHands(t, i, m)' <=> \/ Others(c, t, i, m)
                                       \/ HasMail(L.pc) /\ For(L.entry, t, i, m)
<1>1. \A d \in Contexts : op'[d] = IF d = c THEN L ELSE op[d]
  BY DEF Calls
<1> SUFFICES ASSUME NEW t, NEW i, NEW m
             PROVE  /\ InHands(t, i, m) <=>
                          \/ Others(c, t, i, m)
                          \/ HasMail(op[c].pc) /\ For(op[c].entry, t, i, m)
                    /\ InHands(t, i, m)' <=> \/ Others(c, t, i, m)
                                             \/ HasMail(L.pc) /\ For(L.entry, t, i, m)
  OBVIOUS
<1>2. InHands(t, i, m)' <=> \E d \in Contexts :
                               HasMail(op'[d].pc) /\ For(op'[d].entry, t, i, m)
  BY DEF InHands, HasMail, For
<1>3. QED BY <1>1, <1>2 DEF InHands, Others

(* A call goes on without mail, or with the same. *)
LEMMA QuietMail ==
    ASSUME TypeInv, NEW c \in Contexts, NEW L, op' = [op EXCEPT ![c] = L],
           HasMail(L.pc) <=> HasMail(op[c].pc),
           HasMail(L.pc) => L.entry = op[c].entry,
           UNCHANGED <<RQ, TQ, outcome>>
    PROVE  MailStays
<1>1. \A t, i, m : InHands(t, i, m)' <=> InHands(t, i, m)
  BY HandsAre DEF TypeInv
<1>2. \A t, i, m : /\ InReady(t, i, m)' <=> InReady(t, i, m)
                   /\ InTimer(t, i, m)' <=> InTimer(t, i, m)
  BY DEF InReady, InTimer
<1>3. QED BY <1>1, <1>2 DEF MailStays, Waits

LEMMA MailAppended ==
    ASSUME ReadyQueue, NEW e, RQ' = Append(RQ, e)
    PROVE  \A t, i, m : InReady(t, i, m)' <=> InReady(t, i, m) \/ For(e, t, i, m)
<1>1. /\ DOMAIN RQ' = DOMAIN RQ \cup {Len(RQ) + 1}
      /\ RQ'[Len(RQ) + 1] = e
      /\ \A k \in DOMAIN RQ : RQ'[k] = RQ[k]
  BY DEF ReadyQueue
<1>2. \A t, i, m : InReady(t, i, m)' <=> \E k \in DOMAIN RQ' : For(RQ'[k], t, i, m)
  BY DEF InReady, For
<1>3. QED BY <1>1, <1>2 DEF InReady

LEMMA EnqueueMail ==
    ASSUME TypeInv, NEW c \in Contexts, op[c].pc = "enqueue",
           RQ' = Append(RQ, op[c].entry), GoTo(c, "pend"), UNCHANGED <<TQ, outcome>>
    PROVE  MailStays
<1>1. PICK e : e = op[c].entry
  OBVIOUS
<1>2. \A t, i, m : InReady(t, i, m)' <=> InReady(t, i, m) \/ For(e, t, i, m)
  BY <1>1, MailAppended DEF TypeInv
<1>3. PICK L : L = [op[c] EXCEPT !.pc = "pend"]
  OBVIOUS
<1>4. L.pc = "pend" /\ op' = [op EXCEPT ![c] = L]
  <2>1. op[c] \in Locals
    BY DEF TypeInv, Calls
  <2>2. QED BY <1>3, <2>1 DEF GoTo, Locals
<1>5. \A t, i, m : /\ InHands(t, i, m) <=> Others(c, t, i, m) \/ For(e, t, i, m)
                   /\ InHands(t, i, m)' <=> Others(c, t, i, m)
  <2>1. Calls
    BY DEF TypeInv
  <2>2. HasMail(op[c].pc) /\ ~HasMail(L.pc)
    BY <1>4 DEF HasMail
  <2>3. QED BY <1>1, <1>4, <2>1, <2>2, HandsAre
<1>6. \A t, i, m : InTimer(t, i, m)' <=> InTimer(t, i, m)
  BY DEF InTimer
<1>7. QED BY <1>2, <1>5, <1>6 DEF MailStays, Waits

LEMMA SpawnClaimMail ==
    ASSUME TypeInv, SlotInv, NEW c \in Spawners, NEW t \in Tasks,
           NEW m \in Messages, SpawnClaim(c, t, m)
    PROVE  \E i \in Indices(t) : MailComes(t, i, m)
<1>1. FreeQueues /\ Calls /\ c \in Contexts /\ ~IsEmpty(FQ[t])
  BY ContextFacts DEF TypeInv, SpawnClaim
<1>2. PICK i : i = Oldest(FQ[t])
  OBVIOUS
<1>3. i \in Indices(t) /\ One(Free(t, i))
  <2>1. FQ' = [FQ EXCEPT ![t] = Dequeued(FQ[t])]
    BY DEF SpawnClaim
  <2>2. QED BY <1>1, <1>2, <2>1, FreeTaken
<1>4. \A k \in Messages : ~Waits(t, i, k)
  BY <1>3, OneMessage DEF One
<1>5. PICK L : L = [pc |-> "write", tail |-> 0, entry |-> Entry(t, i, m)]
  OBVIOUS
<1>6. /\ op' = [op EXCEPT ![c] = L] /\ HasMail(L.pc)
      /\ L.entry.task = t /\ L.entry.index = i /\ L.entry.sent = m
  BY <1>2, <1>5 DEF SpawnClaim, HasMail, Entry
<1>7. ~HasMail(op[c].pc)
  BY DEF SpawnClaim, At, Home, HasMail
<1>8. \A u, j, k : /\ InHands(u, j, k) <=> Others(c, u, j, k)
                   /\ InHands(u, j, k)' <=> Others(c, u, j, k) \/ For(L.entry, u, j, k)
  BY <1>1, <1>6, <1>7, HandsAre
<1>9. \A u, j, k : /\ InReady(u, j, k)' <=> InReady(u, j, k)
                   /\ InTimer(u, j, k)' <=> InTimer(u, j, k)
  BY DEF SpawnClaim, InReady, InTimer
<1>10. \A u, j, k : For(L.entry, u, j, k) <=> (u = t /\ j = i /\ k = m)
  BY <1>6 DEF For
<1>11. outcome' = outcome
  BY DEF SpawnClaim
<1>12. MailComes(t, i, m)
  BY <1>4, <1>8, <1>9, <1>10, <1>11 DEF MailComes, Waits
<1>13. QED BY <1>3, <1>12

LEMMA CallStepMail ==
    ASSUME TypeInv, NEW c \in Spawners, CallStep(c)
    PROVE  MailStays
<1>1. c \in Contexts /\ Calls /\ op[c] \in Locals
  BY ContextFacts DEF TypeInv, Calls
<1>2. CASE SpawnWrite(c)
  <2>1. PICK L : L = [op[c] EXCEPT !.pc = "enqueue"]
    OBVIOUS
  <2>2. /\ HasMail(L.pc) /\ HasMail(op[c].pc)
        /\ L.entry = op[c].entry /\ op' = [op EXCEPT ![c] = L]
    BY <1>1, <1>2, <2>1 DEF SpawnWrite, At, GoTo, Locals, HasMail
  <2>3. RQ' = RQ /\ TQ' = TQ /\ outcome' = outcome
    BY <1>2 DEF SpawnWrite
  <2>4. QED BY <1>1, <2>2, <2>3, QuietMail
<1>3. CASE SpawnEnqueue(c)
  BY <1>1, <1>3, EnqueueMail DEF SpawnEnqueue, At
<1>4. CASE ScheduleEnqueue(c)
  <2>1. PICK e : e = op[c].entry
    OBVIOUS
  <2>2. PICK f : TQ' = TQ \cup {f} /\ \E m \in Markers :
           f = [task |-> e.task, index |-> e.index, sent |-> e.sent, marker |-> m]
    BY <1>4, <2>1 DEF ScheduleEnqueue
  <2>3. PICK L : L = [NoCall EXCEPT !.pc = Home(c)]
    OBVIOUS
  <2>4. ~HasMail(L.pc) /\ HasMail(op[c].pc) /\ op' = [op EXCEPT ![c] = L]
    BY <1>4, <2>3 DEF ScheduleEnqueue, At, GoHome, Home, NoCall, HasMail
  <2>5. \A t, i, m : /\ InHands(t, i, m) <=> Others(c, t, i, m) \/ For(e, t, i, m)
                     /\ InHands(t, i, m)' <=> Others(c, t, i, m)
    BY <1>1, <2>1, <2>4, HandsAre
  <2>6. \A t, i, m : InTimer(t, i, m)' <=> InTimer(t, i, m) \/ For(e, t, i, m)
    <3>1. \A t, i, m : For(f, t, i, m) <=> For(e, t, i, m)
      BY <2>2 DEF For
    <3>2. \A t, i, m : InTimer(t, i, m)' <=> \E g \in TQ' : For(g, t, i, m)
      BY DEF InTimer, For
    <3>3. QED BY <2>2, <3>1, <3>2 DEF InTimer
  <2>7. \A t, i, m : InReady(t, i, m)' <=> InReady(t, i, m)
    BY <1>4 DEF ScheduleEnqueue, InReady
  <2>8. outcome' = outcome
    BY <1>4 DEF ScheduleEnqueue
  <2>9. QED BY <2>5, <2>6, <2>7, <2>8 DEF MailStays, Waits
<1>5. CASE SpawnPend(c)
  <2>1. PICK L : L = [NoCall EXCEPT !.pc = Home(c)]
    OBVIOUS
  <2>2. ~HasMail(L.pc) /\ ~HasMail(op[c].pc) /\ op' = [op EXCEPT ![c] = L]
    BY <1>5, <2>1 DEF SpawnPend, At, GoHome, Home, NoCall, HasMail
  <2>3. RQ' = RQ /\ TQ' = TQ /\ outcome' = outcome
    BY <1>5 DEF SpawnPend
  <2>4. QED BY <1>1, <2>2, <2>3, QuietMail
<1>6. QED BY <1>2, <1>3, <1>4, <1>5 DEF CallStep

(* The message a step takes out of a slot was the only one it waited with. *)
LEMMA Given ==
    ASSUME TypeInv, SlotInv, MessageInv, NEW e, e.task \in Tasks,
           e.index \in Indices(e.task), e.sent \in Messages,
           Waits(e.task, e.index, e.sent), Intact(e),
           \A t, i, m : For(e, t, i, m) => ~Waits(t, i, m)',
           \A t, i, m : ~For(e, t, i, m) => (Waits(t, i, m)' <=> Waits(t, i, m)),
           outcome' = [sent |-> e.sent, got |-> INPUTS[e.task][e.index]]
    PROVE  MailMoves
<1>1. outcome'.got = e.sent
  BY DEF Intact
<1>2. \A t, i, m : For(e, t, i, m) <=> (t = e.task /\ i = e.index /\ m = e.sent)
  BY DEF For
<1>3. MailGoes(e.task, e.index, e.sent)
  BY <1>1, <1>2 DEF MailGoes
<1>4. QED BY <1>3 DEF MailMoves

LEMMA HandleMail ==
    ASSUME TypeInv, SlotInv, MessageInv, NEW h \in Markers,
           \/ DropHandle(h)
           \/ \E c \in Cancellers : cancel(c, h) \/ reschedule_at(c, h)
    PROVE  MailMoves
<1>1. RQ' = RQ /\ op' = op
  BY DEF DropHandle, cancel, reschedule_at
<1>2. \A t, i, m : /\ InReady(t, i, m)' <=> InReady(t, i, m)
                   /\ InHands(t, i, m)' <=> InHands(t, i, m)
  BY <1>1 DEF InReady, InHands
<1>3. \A t, i, m : InTimer(t, i, m)' <=> \E f \in TQ' : For(f, t, i, m)
  BY DEF InTimer, For
<1>4. ASSUME TQ' = TQ, outcome' = outcome PROVE MailMoves
  <2>1. MailStays
    BY <1>2, <1>3, <1>4 DEF MailStays, Waits, InTimer
  <2>2. QED BY <2>1 DEF MailMoves
<1>5. CASE DropHandle(h)
  BY <1>4, <1>5 DEF DropHandle
<1>6. ASSUME NEW c \in Cancellers, cancel(c, h) PROVE MailMoves
  <2>1. CASE \E e \in TQ : e.marker = h
    <3>1. PICK e \in TQ :
             /\ TQ' = TQ \ {e}
             /\ outcome' = [sent |-> e.sent, got |-> INPUTS[e.task][e.index]]
      BY <1>6, <2>1 DEF cancel
    <3>2. /\ e.task \in Tasks /\ e.index \in Indices(e.task) /\ e.sent \in Messages
          /\ Intact(e)
      BY DEF TypeInv, TimerQueueType, TimerSlots, TimerEntries, MessageInv
    <3>3. Waits(e.task, e.index, e.sent)
      BY DEF Waits, InTimer, For
    <3>4. /\ e \in Timed(e.task, e.index)
          /\ Timed(e.task, e.index) = {e}
          /\ Ready(e.task, e.index) = {} /\ Held(e.task, e.index) = {}
      <4>1. e \in Timed(e.task, e.index)
        BY DEF Timed
      <4>2. QED BY <3>2, <4>1, Elsewhere
    <3>5. ASSUME NEW t, NEW i, NEW m, For(e, t, i, m) PROVE ~Waits(t, i, m)'
      <4>1. ~InReady(t, i, m)
        BY <3>4, <3>5 DEF InReady, For, Ready
      <4>2. ~InHands(t, i, m)
        BY <3>4, <3>5 DEF InHands, HasMail, For, Held, Carries
      <4>3. ~ \E f \in TQ \ {e} : For(f, t, i, m)
        BY <3>4, <3>5 DEF For, Timed
      <4>4. ~InTimer(t, i, m)'
        BY <1>3, <3>1, <4>3
      <4>5. QED BY <1>2, <4>1, <4>2, <4>4 DEF Waits
    <3>6. ASSUME NEW t, NEW i, NEW m, ~For(e, t, i, m)
          PROVE  Waits(t, i, m)' <=> Waits(t, i, m)
      BY <1>2, <1>3, <3>1, <3>6 DEF Waits, InTimer
    <3>7. QED BY <3>1, <3>2, <3>3, <3>5, <3>6, Given
  <2>2. CASE ~ \E e \in TQ : e.marker = h
    <3>1. TQ' = TQ /\ outcome' = outcome
      BY <1>6, <2>2, Zenon DEF cancel
    <3>2. QED BY <1>4, <3>1
  <2>3. QED BY <2>1, <2>2
<1>7. ASSUME NEW c \in Cancellers, reschedule_at(c, h) PROVE MailMoves
  <2>1. outcome' = outcome
    BY <1>7 DEF reschedule_at
  <2>2. CASE \E e \in TQ : e.marker = h
    <3>1. PICK e \in TQ, m \in Markers :
             TQ' = (TQ \ {e}) \cup {[e EXCEPT !.marker = m]}
      BY <1>7, <2>2 DEF reschedule_at
    <3>2. PICK f : f = [e EXCEPT !.marker = m]
      OBVIOUS
    <3>3. f.task = e.task /\ f.index = e.index /\ f.sent = e.sent
      BY <3>2 DEF TypeInv, TimerQueueType, TimerSlots, TimerEntries
    <3>4. \A t, i, n : For(f, t, i, n) <=> For(e, t, i, n)
      BY <3>3 DEF For
    <3>5. \A t, i, n : InTimer(t, i, n)' <=> InTimer(t, i, n)
      BY <1>3, <3>1, <3>2, <3>4 DEF InTimer
    <3>6. MailStays
      BY <1>2, <2>1, <3>5 DEF MailStays, Waits
    <3>7. QED BY <3>6 DEF MailMoves
  <2>3. CASE ~ \E e \in TQ : e.marker = h
    <3>1. TQ' = TQ
      BY <1>7, <2>3, Zenon DEF reschedule_at
    <3>2. QED BY <1>4, <2>1, <3>1
  <2>4. QED BY <2>2, <2>3
<1>8. QED BY <1>5, <1>6, <1>7

LEMMA TimerMail ==
    ASSUME TypeInv, TimerStart \/ TimerStep
    PROVE  MailStays
<1>1. Timer \in Contexts /\ Calls /\ op[Timer] \in Locals
  BY ContextFacts DEF TypeInv, Calls
<1>2. ASSUME NEW L, op' = [op EXCEPT ![Timer] = L], ~HasMail(L.pc),
             ~HasMail(op[Timer].pc), UNCHANGED <<RQ, TQ, outcome>>
      PROVE  MailStays
  BY <1>1, <1>2, QuietMail
<1>3. CASE TimerStart
  <2>1. PICK L : L = [op[Timer] EXCEPT !.pc = "dequeue"]
    OBVIOUS
  <2>2. /\ ~HasMail(L.pc) /\ ~HasMail(op[Timer].pc) /\ op' = [op EXCEPT ![Timer] = L]
        /\ RQ' = RQ /\ TQ' = TQ /\ outcome' = outcome
    BY <1>1, <1>3, <2>1 DEF TimerStart, At, GoTo, Locals, HasMail
  <2>3. QED BY <1>2, <2>2
<1>4. CASE TimerReturn
  BY <1>2, <1>4 DEF TimerReturn, At, NoCall, HasMail
<1>5. CASE TimerPend
  <2>1. PICK L : L = [NoCall EXCEPT !.pc = "dequeue"]
    OBVIOUS
  <2>2. /\ ~HasMail(L.pc) /\ ~HasMail(op[Timer].pc) /\ op' = [op EXCEPT ![Timer] = L]
        /\ RQ' = RQ /\ TQ' = TQ /\ outcome' = outcome
    BY <1>5, <2>1 DEF TimerPend, At, NoCall, HasMail
  <2>3. QED BY <1>2, <2>2
<1>6. CASE TimerEnqueue
  BY <1>1, <1>6, EnqueueMail DEF TimerEnqueue, At
<1>7. CASE TimerDequeue
  <2>1. PICK e \in TQ :
           /\ TQ' = TQ \ {e}
           /\ op' = [op EXCEPT ![Timer] =
                       [pc |-> "enqueue", tail |-> 0,
                        entry |-> Entry(e.task, e.index, e.sent)]]
    BY <1>7 DEF TimerDequeue
  <2>2. PICK L : L = [pc |-> "enqueue", tail |-> 0,
                      entry |-> Entry(e.task, e.index, e.sent)]
    OBVIOUS
  <2>3. /\ op' = [op EXCEPT ![Timer] = L] /\ HasMail(L.pc) /\ ~HasMail(op[Timer].pc)
        /\ L.entry.task = e.task /\ L.entry.index = e.index /\ L.entry.sent = e.sent
    BY <1>7, <2>1, <2>2 DEF TimerDequeue, At, HasMail, Entry
  <2>4. \A t, i, m : For(L.entry, t, i, m) <=> For(e, t, i, m)
    BY <2>3 DEF For
  <2>5. \A t, i, m : /\ InHands(t, i, m) <=> Others(Timer, t, i, m)
                     /\ InHands(t, i, m)' <=> Others(Timer, t, i, m) \/ For(e, t, i, m)
    BY <1>1, <2>3, <2>4, HandsAre
  <2>6. \A t, i, m : InTimer(t, i, m) <=> InTimer(t, i, m)' \/ For(e, t, i, m)
    <3>1. \A t, i, m : InTimer(t, i, m)' <=> \E f \in TQ' : For(f, t, i, m)
      BY DEF InTimer, For
    <3>2. QED BY <2>1, <3>1 DEF InTimer
  <2>7. RQ' = RQ /\ outcome' = outcome
    BY <1>7 DEF TimerDequeue
  <2>8. \A t, i, m : InReady(t, i, m)' <=> InReady(t, i, m)
    BY <2>7 DEF InReady
  <2>9. QED BY <2>5, <2>6, <2>7, <2>8 DEF MailStays, Waits
<1>8. QED BY <1>3, <1>4, <1>5, <1>6, <1>7 DEF TimerStep

LEMMA DispatchMail ==
    ASSUME TypeInv, SlotInv, MessageInv, DispatchStart \/ DispatchStep
    PROVE  MailMoves
<1> DEFINE D == Dispatcher
<1>1. D \in Contexts /\ Calls /\ op[D] \in Locals /\ RQ \in Seq(SlotEntries)
  BY ContextFacts DEF TypeInv, ReadyQueue, Calls
<1>2. ASSUME NEW L, op' = [op EXCEPT ![D] = L], ~HasMail(L.pc),
             ~HasMail(op[D].pc), UNCHANGED <<RQ, TQ, outcome>>
      PROVE  MailMoves
  <2>1. MailStays
    BY <1>1, <1>2, QuietMail
  <2>2. QED BY <2>1 DEF MailMoves
<1>3. ASSUME NEW pc, GoTo(D, pc), ~HasMail(pc), ~HasMail(op[D].pc),
             UNCHANGED <<RQ, TQ, outcome>>
      PROVE  MailMoves
  <2>1. PICK L : L = [op[D] EXCEPT !.pc = pc]
    OBVIOUS
  <2>2. L.pc = pc /\ op' = [op EXCEPT ![D] = L]
    BY <1>1, <1>3, <2>1 DEF GoTo, Locals
  <2>3. QED BY <1>2, <1>3, <2>2
<1>4. CASE DispatchStart
  BY <1>3, <1>4 DEF DispatchStart, At, HasMail
<1>5. CASE DispatchEmpty
  BY <1>3, <1>5 DEF DispatchEmpty, At, HasMail
<1>6. CASE DispatchReturn
  BY <1>2, <1>6 DEF DispatchReturn, NoCall, At, HasMail
<1>7. CASE TaskReturn
  BY <1>3, <1>7 DEF TaskReturn, At, HasMail
<1>8. CASE FreeStore
  BY <1>3, <1>8 DEF FreeStore, At, HasMail
<1>9. CASE FreeLoad
  <2>1. PICK L : L = [op[D] EXCEPT !.pc = "store", !.tail = FQ[op[D].entry.task].tail]
    OBVIOUS
  <2>2. L.pc = "store" /\ op' = [op EXCEPT ![D] = L]
    BY <1>1, <1>9, <2>1 DEF FreeLoad, Locals, TypeInv, Calls
  <2>3. ~HasMail(L.pc) /\ ~HasMail(op[D].pc) /\ RQ' = RQ /\ TQ' = TQ
          /\ outcome' = outcome
    BY <1>9, <2>2 DEF FreeLoad, At, HasMail
  <2>4. QED BY <1>2, <2>2, <2>3
<1>10. CASE FreePublish
  <2>1. PICK L : L = [NoCall EXCEPT !.pc = "run"]
    OBVIOUS
  <2>2. /\ ~HasMail(L.pc) /\ ~HasMail(op[D].pc) /\ op' = [op EXCEPT ![D] = L]
        /\ RQ' = RQ /\ TQ' = TQ /\ outcome' = outcome
    BY <1>10, <2>1 DEF FreePublish, At, NoCall, HasMail
  <2>3. QED BY <1>2, <2>2
<1>11. CASE DispatchRead
  <2>1. PICK e : e = op[D].entry
    OBVIOUS
  <2>2. PICK L : L = [op[D] EXCEPT !.pc = "load"]
    OBVIOUS
  <2>3. ~HasMail(L.pc) /\ HasMail(op[D].pc) /\ Carries(D) /\ op' = [op EXCEPT ![D] = L]
    BY <1>1, <1>11, <2>2 DEF DispatchRead, At, GoTo, Locals, HasMail, Carries
  <2>4. /\ Intact(e) /\ outcome' = [sent |-> e.sent, got |-> INPUTS[e.task][e.index]]
        /\ RQ' = RQ /\ TQ' = TQ
    BY <1>1, <1>11, <2>1 DEF DispatchRead, At, MessageInv
  <2>5. /\ e.task \in Tasks /\ e.index \in Indices(e.task) /\ e.sent \in Messages
        /\ Held(e.task, e.index) = {D}
        /\ Ready(e.task, e.index) = {} /\ Timed(e.task, e.index) = {}
    BY <1>1, <2>1, <2>3, Carried
  <2>6. \A t, i, m : /\ InHands(t, i, m) <=> Others(D, t, i, m) \/ For(e, t, i, m)
                     /\ InHands(t, i, m)' <=> Others(D, t, i, m)
    BY <1>1, <2>1, <2>3, HandsAre
  <2>7. \A t, i, m : /\ InReady(t, i, m)' <=> InReady(t, i, m)
                     /\ InTimer(t, i, m)' <=> InTimer(t, i, m)
    BY <2>4 DEF InReady, InTimer
  <2>8. Waits(e.task, e.index, e.sent)
    BY <2>6 DEF Waits, For
  <2>9. ASSUME NEW t, NEW i, NEW m, For(e, t, i, m) PROVE ~Waits(t, i, m)'
    <3>1. ~InReady(t, i, m)
      BY <2>5, <2>9 DEF InReady, For, Ready
    <3>2. ~InTimer(t, i, m)
      BY <2>5, <2>9 DEF InTimer, For, Timed
    <3>3. ~Others(D, t, i, m)
      BY <2>5, <2>9 DEF Others, HasMail, For, Held, Carries
    <3>4. QED BY <2>6, <2>7, <3>1, <3>2, <3>3 DEF Waits
  <2>10. ASSUME NEW t, NEW i, NEW m, ~For(e, t, i, m)
         PROVE  Waits(t, i, m)' <=> Waits(t, i, m)
    BY <2>6, <2>7, <2>10 DEF Waits
  <2>11. QED BY <2>4, <2>5, <2>8, <2>9, <2>10, Given
<1>12. CASE DispatchDequeue
  <2>1. PICK e : e = Head(RQ)
    OBVIOUS
  <2>2. RQ' = Tail(RQ) /\ RQ # <<>> /\ TQ' = TQ /\ outcome' = outcome
    BY <1>12 DEF DispatchDequeue
  <2>3. PICK L : L = [pc |-> "read", entry |-> e, tail |-> 0]
    OBVIOUS
  <2>4. /\ op' = [op EXCEPT ![D] = L] /\ L.entry = e
        /\ HasMail(L.pc) /\ ~HasMail(op[D].pc)
    BY <1>12, <2>1, <2>3 DEF DispatchDequeue, At, HasMail
  <2>5. \A t, i, m : /\ InHands(t, i, m) <=> Others(D, t, i, m)
                     /\ InHands(t, i, m)' <=> Others(D, t, i, m) \/ For(e, t, i, m)
    BY <1>1, <2>4, HandsAre
  <2>6. \A t, i, m : InReady(t, i, m) <=> InReady(t, i, m)' \/ For(e, t, i, m)
    <3>1. /\ e = RQ[1] /\ 1 \in DOMAIN RQ
          /\ \A k \in DOMAIN RQ' : k + 1 \in DOMAIN RQ /\ RQ'[k] = RQ[k + 1]
          /\ \A k \in DOMAIN RQ : k # 1 =>
                k - 1 \in DOMAIN RQ' /\ RQ'[k - 1] = RQ[k]
      BY <1>1, <2>1, <2>2
    <3>2. \A t, i, m : InReady(t, i, m)' <=> \E k \in DOMAIN RQ' : For(RQ'[k], t, i, m)
      BY DEF InReady, For
    <3>3. QED BY <3>1, <3>2 DEF InReady
  <2>7. \A t, i, m : InTimer(t, i, m)' <=> InTimer(t, i, m)
    BY <2>2 DEF InTimer
  <2>8. MailStays
    BY <2>2, <2>5, <2>6, <2>7 DEF MailStays, Waits
  <2>9. QED BY <2>8 DEF MailMoves
<1>13. QED
  BY <1>4, <1>5, <1>6, <1>7, <1>8, <1>9, <1>10, <1>11, <1>12 DEF DispatchStep

LEMMA NextMail ==
    ASSUME TypeInv, SlotInv, MessageInv, [Next]_vars
    PROVE  MailMoves
<1>1. CASE UNCHANGED vars
  <2>1. \A t, i, m : Waits(t, i, m)' <=> Waits(t, i, m)
    BY <1>1 DEF vars, Waits, InReady, InTimer, InHands
  <2>2. QED BY <1>1, <2>1 DEF vars, MailMoves, MailStays
<1>2. CASE Next
  <2>1. ASSUME NEW c \in Spawners, CallStep(c) PROVE MailMoves
    BY <2>1, CallStepMail DEF MailMoves
  <2>2. ASSUME NEW c \in Spawners, NEW t \in Tasks, NEW m \in Messages,
               SpawnClaim(c, t, m)
        PROVE  MailMoves
    BY <2>2, SpawnClaimMail DEF MailMoves
  <2>3. ASSUME NEW h \in Markers,
               \/ DropHandle(h)
               \/ \E c \in Cancellers : cancel(c, h) \/ reschedule_at(c, h)
        PROVE  MailMoves
    BY <2>3, HandleMail
  <2>4. CASE TimerStart \/ TimerStep
    BY <2>4, TimerMail DEF MailMoves
  <2>5. CASE DispatchStart \/ DispatchStep
    BY <2>5, DispatchMail
  <2>6. QED BY <1>2, <2>1, <2>2, <2>3, <2>4, <2>5 DEF Next
<1>3. QED BY <1>1, <1>2

-----------------------------------------------------------------------------
(* How many messages wait is how many slots wait with one. *)
LEMMA SameSize ==
    ASSUME NEW A, NEW I, IsFiniteSet(I), NEW f \in [A -> I],
           \A x, y \in A : f[x] = f[y] => x = y,
           \A i \in I : \E x \in A : f[x] = i
    PROVE  IsFiniteSet(A) /\ Cardinality(A) = Cardinality(I)
<1>1. f \in Injection(A, I)
  BY DEF Injection, IsInjective
<1>2. f \in Surjection(A, I)
  BY DEF Surjection
<1>3. QED BY <1>1, <1>2, FS_Injection

LEMMA Disjoint ==
    ASSUME NEW A, NEW B, IsFiniteSet(A), IsFiniteSet(B), A \cap B = {}
    PROVE  /\ IsFiniteSet(A \cup B)
           /\ Cardinality(A \cup B) = Cardinality(A) + Cardinality(B)
<1>1. Cardinality(A) \in Nat /\ Cardinality(B) \in Nat
  BY FS_CardinalityType
<1>2. /\ IsFiniteSet(A \cup B)
      /\ Cardinality(A \cup B) = Cardinality(A) + Cardinality(B) - 0
  BY FS_Union, FS_EmptySet
<1>3. QED BY <1>1, <1>2

LEMMA OutstandingIs ==
    ASSUME TypeInv, SlotInv, NEW t \in Tasks, NEW m \in Messages
    PROVE  /\ IsFiniteSet(InBox(t, m)) /\ Cardinality(InBox(t, m)) \in Nat
           /\ Outstanding(t, m) = Cardinality(InBox(t, m))
<1> DEFINE R == {k \in DOMAIN RQ : RQ[k].task = t /\ RQ[k].sent = m}
           T == {e \in TQ : e.task = t /\ e.sent = m}
           H == {c \in Contexts : /\ op[c].pc \in {"write", "enqueue", "read"}
                                  /\ op[c].entry.task = t /\ op[c].entry.sent = m}
           IR == {i \in Indices(t) : InReady(t, i, m)}
           IT == {i \in Indices(t) : InTimer(t, i, m)}
           IH == {i \in Indices(t) : InHands(t, i, m)}
<1>1. Outstanding(t, m) = Cardinality(R) + Cardinality(T) + Cardinality(H)
  BY DEF Outstanding
<1>2. InBox(t, m) = (IR \cup IT) \cup IH
  BY DEF InBox, Waits
<1>3. IsFiniteSet(IR) /\ IsFiniteSet(IT) /\ IsFiniteSet(IH)
  <2>1. IR \in SUBSET Indices(t) /\ IT \in SUBSET Indices(t) /\ IH \in SUBSET Indices(t)
    OBVIOUS
  <2> HIDE DEF IR, IT, IH
  <2>2. QED BY <2>1, IndicesFinite, FS_Subset
<1>4. \A i \in Indices(t) :
         /\ InReady(t, i, m) => Ready(t, i) # {}
         /\ InTimer(t, i, m) => Timed(t, i) # {}
         /\ InHands(t, i, m) => Held(t, i) # {}
  BY DEF InReady, InTimer, InHands, For, HasMail, Ready, Timed, Held, Carries
<1>5. IR \cap IT = {} /\ (IR \cup IT) \cap IH = {}
  BY <1>4, Elsewhere
<1>6. Cardinality(R) = Cardinality(IR)
  <2> DEFINE f == [k \in R |-> RQ[k].index]
  <2>1. ASSUME NEW k \in R
        PROVE  f[k] \in IR /\ k \in Ready(t, f[k])
    <3>1. RQ[k].index \in Indices(t)
      BY DEF TypeInv, ReadyQueue, SlotEntries, Entries
    <3>2. QED BY <3>1 DEF InReady, For, Ready
  <2>2. f \in [R -> IR]
    BY <2>1
  <2>3. ASSUME NEW x \in R, NEW y \in R, f[x] = f[y] PROVE x = y
    <3>1. f[x] \in Indices(t) /\ x \in Ready(t, f[x]) /\ y \in Ready(t, f[x])
      BY <2>1, <2>3
    <3> HIDE DEF f, R
    <3>2. QED BY <3>1, Elsewhere
  <2>4. ASSUME NEW i \in IR PROVE \E x \in R : f[x] = i
    BY DEF InReady, For
  <2> HIDE DEF f, R, IR
  <2>5. QED BY <1>3, <2>2, <2>3, <2>4, SameSize
<1>7. Cardinality(T) = Cardinality(IT)
  <2> DEFINE f == [e \in T |-> e.index]
  <2>1. ASSUME NEW e \in T
        PROVE  f[e] \in IT /\ e \in Timed(t, f[e])
    <3>1. e.index \in Indices(t)
      BY DEF TypeInv, TimerQueueType, TimerSlots, TimerEntries
    <3>2. QED BY <3>1 DEF InTimer, For, Timed
  <2>2. f \in [T -> IT]
    BY <2>1
  <2>3. ASSUME NEW x \in T, NEW y \in T, f[x] = f[y] PROVE x = y
    <3>1. f[x] \in Indices(t) /\ x \in Timed(t, f[x]) /\ y \in Timed(t, f[x])
      BY <2>1, <2>3
    <3> HIDE DEF f, T
    <3>2. QED BY <3>1, Elsewhere
  <2>4. ASSUME NEW i \in IT PROVE \E x \in T : f[x] = i
    BY DEF InTimer, For
  <2> HIDE DEF f, T, IT
  <2>5. QED BY <1>3, <2>2, <2>3, <2>4, SameSize
<1>8. Cardinality(H) = Cardinality(IH)
  <2> DEFINE f == [c \in H |-> op[c].entry.index]
  <2>1. ASSUME NEW c \in H
        PROVE  f[c] \in IH /\ c \in Held(t, f[c])
    <3>1. Carries(c)
      BY DEF Carries
    <3>2. op[c].entry.index \in Indices(t)
      BY <3>1 DEF TypeInv, Calls, SlotEntries, Entries
    <3>3. QED BY <3>1, <3>2 DEF InHands, HasMail, For, Held
  <2>2. f \in [H -> IH]
    BY <2>1
  <2>3. ASSUME NEW x \in H, NEW y \in H, f[x] = f[y] PROVE x = y
    <3>1. f[x] \in Indices(t) /\ x \in Held(t, f[x]) /\ y \in Held(t, f[x])
      BY <2>1, <2>3
    <3> HIDE DEF f, H
    <3>2. QED BY <3>1, Elsewhere
  <2>4. ASSUME NEW i \in IH PROVE \E x \in H : f[x] = i
    BY DEF InHands, HasMail, For
  <2> HIDE DEF f, H, IH
  <2>5. QED BY <1>3, <2>2, <2>3, <2>4, SameSize
<1> HIDE DEF R, T, H, IR, IT, IH
<1>9. /\ IsFiniteSet((IR \cup IT) \cup IH)
      /\ Cardinality((IR \cup IT) \cup IH)
           = (Cardinality(IR) + Cardinality(IT)) + Cardinality(IH)
  <2>1. /\ IsFiniteSet(IR \cup IT)
        /\ Cardinality(IR \cup IT) = Cardinality(IR) + Cardinality(IT)
    BY <1>3, <1>5, Disjoint
  <2> DEFINE S == IR \cup IT
  <2>2. IsFiniteSet(S) /\ S \cap IH = {}
    BY <1>5, <2>1
  <2> HIDE DEF S
  <2>3. /\ IsFiniteSet(S \cup IH)
        /\ Cardinality(S \cup IH) = Cardinality(S) + Cardinality(IH)
    BY <1>3, <2>2, Disjoint
  <2>4. QED BY <2>1, <2>3 DEF S
<1>10. QED BY <1>1, <1>2, <1>6, <1>7, <1>8, <1>9, FS_CardinalityType

(* While a slot does not wait, the messages of its task do not fill the    *)
(* box.                                                                    *)
LEMMA BoxNotFull ==
    ASSUME TypeInv, SlotInv, IsFiniteSet(Messages), NEW t \in Tasks,
           NEW i \in Indices(t), \A m \in Messages : ~Waits(t, i, m),
           NEW b, DOMAIN b = Messages, \A m \in Messages : b[m] = Outstanding(t, m)
    PROVE  Total(Messages, b) < CAPACITY[t]
<1> DEFINE B == [m \in Messages |-> InBox(t, m)]
           U == UNION {B[m] : m \in Messages}
<1>1. Total(Messages, b) = Cardinality(U)
  <2>1. \A m \in Messages : IsFiniteSet(B[m]) /\ b[m] = Cardinality(B[m])
    BY OutstandingIs
  <2>2. \A m, k \in Messages : m # k => B[m] \cap B[k] = {}
    BY OneMessage DEF InBox
  <2> HIDE DEF B
  <2>3. QED BY <2>1, <2>2, TotalOfSizes
<1>2. U \in SUBSET (Indices(t) \ {i})
  BY DEF InBox
<1>3. IsFiniteSet(Indices(t) \ {i}) /\ Cardinality(Indices(t) \ {i}) = CAPACITY[t] - 1
  BY IndicesFinite, FS_RemoveElement
<1>4. Cardinality(U) <= CAPACITY[t] - 1 /\ Cardinality(U) \in Nat
  <2> HIDE DEF U
  <2>1. QED BY <1>2, <1>3, FS_Subset, FS_CardinalityType
<1>5. CAPACITY[t] \in Int
  BY ContextAssumption
<1>6. QED BY <1>1, <1>4, <1>5

(* TaskMailbox adds up a box with a fold. *)
LEMMA BoxTotal ==
    ASSUME NEW c, DOMAIN c = Messages, NEW t, Total(Messages, c) < CAPACITY[t]
    PROVE  Mailbox!FoldFunction(+, 0, c) < CAPACITY[t]
BY DEF Mailbox!FoldFunction, Mailbox!FoldFunctionOnSet, Mailbox!MapThenFoldSet,
       Total, Summation, SumsUp, First

(* The boxes as TaskMailbox counts them, now and after a step. *)
Boxes == [t \in Tasks |-> [m \in Messages |-> Outstanding(t, m)]]

Counted ==
    \A t \in Tasks, m \in Messages :
       /\ Outstanding(t, m) = Cardinality(InBox(t, m))
       /\ IsFiniteSet(InBox(t, m)) /\ Cardinality(InBox(t, m)) \in Nat

LEMMA BoxesCounted == TypeInv /\ SlotInv => Counted
BY OutstandingIs DEF Counted

LEMMA BoxesCountedAfter == TypeInv' /\ SlotInv' => Counted'
BY BoxesCounted, PTL

LEMMA BoxesMove ==
    ASSUME IsFiniteSet(Messages), TypeInv, SlotInv, TypeInv', SlotInv', MailMoves
    PROVE  [Mailbox!Next]_<<Boxes, outcome.got>>
<1>1. PICK b : b = Boxes
  OBVIOUS
<1>2. PICK n : n = Boxes'
  OBVIOUS
<1>3. /\ b = [t \in Tasks |-> [m \in Messages |-> Outstanding(t, m)]]
      /\ b \in [Tasks -> [Messages -> Nat]]
      /\ \A t \in Tasks, m \in Messages : /\ b[t][m] = Outstanding(t, m)
                                          /\ b[t][m] = Cardinality(InBox(t, m))
                                          /\ IsFiniteSet(InBox(t, m))
  BY <1>1, BoxesCounted DEF Boxes, Counted
<1>4. /\ n = [t \in Tasks |-> [m \in Messages |-> Outstanding(t, m)']]
      /\ n \in [Tasks -> [Messages -> Nat]]
      /\ \A t \in Tasks, m \in Messages : n[t][m] = Cardinality(InBox(t, m)')
  BY <1>2, BoxesCountedAfter DEF Boxes, Counted
<1>5. \A t \in Tasks, m \in Messages :
         InBox(t, m)' = {i \in Indices(t) : Waits(t, i, m)'}
  BY DEF InBox, Indices
<1>6. CASE MailStays
  <2>1. \A t \in Tasks, m \in Messages : InBox(t, m)' = InBox(t, m)
    BY <1>5, <1>6 DEF MailStays, InBox
  <2>2. n = b
    BY <1>3, <1>4, <2>1
  <2>3. Boxes' = Boxes /\ outcome'.got = outcome.got
    BY <1>1, <1>2, <1>6, <2>2 DEF MailStays
  <2>4. QED BY <2>3
<1>7. ASSUME NEW t \in Tasks, NEW i \in Indices(t), NEW m \in Messages,
             MailComes(t, i, m)
      PROVE  Mailbox!Next
  <2>1. InBox(t, m)' = InBox(t, m) \cup {i} /\ i \notin InBox(t, m)
    BY <1>5, <1>7 DEF MailComes, InBox
  <2>2. \A u \in Tasks, k \in Messages :
           ~(u = t /\ k = m) => InBox(u, k)' = InBox(u, k)
    BY <1>5, <1>7 DEF MailComes, InBox
  <2>3. n[t][m] = b[t][m] + 1
    BY <1>3, <1>4, <2>1, FS_AddElement
  <2>4. \A u \in Tasks, k \in Messages : ~(u = t /\ k = m) => n[u][k] = b[u][k]
    BY <1>3, <1>4, <2>2
  <2>5. n = [b EXCEPT ![t][m] = b[t][m] + 1]
    BY <1>3, <1>4, <2>3, <2>4
  <2>6. Total(Messages, b[t]) < CAPACITY[t]
    <3>1. PICK c : c = b[t]
      OBVIOUS
    <3>2. DOMAIN c = Messages /\ \A k \in Messages : c[k] = Outstanding(t, k)
      BY <1>3, <3>1
    <3>3. \A k \in Messages : ~Waits(t, i, k)
      BY <1>7 DEF MailComes
    <3>4. Total(Messages, c) < CAPACITY[t]
      BY <3>2, <3>3, BoxNotFull
    <3>5. QED BY <3>1, <3>4
  <2>7. Mailbox!FoldFunction(+, 0, b[t]) < CAPACITY[t]
    BY <1>3, <2>6, BoxTotal
  <2>8. Boxes' = [Boxes EXCEPT ![t][m] = Boxes[t][m] + 1]
    BY <1>1, <1>2, <2>5
  <2>9. Mailbox!FoldFunction(+, 0, Boxes[t]) < CAPACITY[t]
    BY <1>1, <2>7
  <2>10. outcome'.got = outcome.got
    BY <1>7 DEF MailComes
  <2>11. Mailbox!Accept(t, m)
    BY <2>8, <2>9, <2>10 DEF Mailbox!Accept, Boxes
  <2>12. QED BY <2>11 DEF Mailbox!Next
<1>8. ASSUME NEW t \in Tasks, NEW i \in Indices(t), NEW m \in Messages,
             MailGoes(t, i, m)
      PROVE  Mailbox!Next
  <2>1. InBox(t, m)' = InBox(t, m) \ {i} /\ i \in InBox(t, m)
    BY <1>5, <1>8 DEF MailGoes, InBox
  <2>2. \A u \in Tasks, k \in Messages :
           ~(u = t /\ k = m) => InBox(u, k)' = InBox(u, k)
    BY <1>5, <1>8 DEF MailGoes, InBox
  <2>3. n[t][m] = b[t][m] - 1
    BY <1>3, <1>4, <2>1, FS_RemoveElement
  <2>4. \A u \in Tasks, k \in Messages : ~(u = t /\ k = m) => n[u][k] = b[u][k]
    BY <1>3, <1>4, <2>2
  <2>5. n = [b EXCEPT ![t][m] = b[t][m] - 1]
    BY <1>3, <1>4, <2>3, <2>4
  <2>6. b[t][m] > 0
    <3>1. b[t][m] \in Nat /\ n[t][m] \in Nat
      BY <1>3, <1>4
    <3>2. QED BY <2>3, <3>1
  <2>7. outcome'.got = m
    BY <1>8 DEF MailGoes
  <2>8. Mailbox!Give(t, m)
    BY <1>1, <1>2, <2>5, <2>6, <2>7 DEF Mailbox!Give, Boxes
  <2>9. QED BY <2>8 DEF Mailbox!Next
<1>9. QED BY <1>6, <1>7, <1>8 DEF MailMoves

LEMMA BoxesStart == Init => Mailbox!Init
<1> SUFFICES ASSUME Init PROVE Mailbox!Init
  OBVIOUS
<1>1. \A t, m : Outstanding(t, m) = 0
  <2> SUFFICES ASSUME NEW t, NEW m PROVE Outstanding(t, m) = 0
    OBVIOUS
  <2> DEFINE R == {k \in DOMAIN RQ : RQ[k].task = t /\ RQ[k].sent = m}
             T == {e \in TQ : e.task = t /\ e.sent = m}
             H == {c \in Contexts : /\ op[c].pc \in {"write", "enqueue", "read"}
                                    /\ op[c].entry.task = t /\ op[c].entry.sent = m}
  <2>1. R = {} /\ T = {} /\ H = {}
    BY DEF Init, NoCall
  <2>2. Outstanding(t, m) = Cardinality(R) + Cardinality(T) + Cardinality(H)
    BY DEF Outstanding
  <2> HIDE DEF R, T, H
  <2>3. QED BY <2>1, <2>2, FS_EmptySet
<1>2. outcome.got = None
  BY DEF Init
<1>3. QED BY <1>1, <1>2 DEF Mailbox!Init

(* Seen from outside, the queues, the buffers and the contexts that move   *)
(* indices between them are one bounded box per task: what is accepted is  *)
(* given out once, unchanged and to its own task, and never more than the  *)
(* task's capacity is in the box, under every preemption but that of the   *)
(* dispatcher by a context that cancels.                                   *)
THEOREM MailboxImplemented ==
    ASSUME CancelledBelow, IsFiniteSet(Messages) PROVE Spec => ImplementsMailbox
<1>1. TypeInv /\ SlotInv /\ ReturnInv /\ [Next]_vars => SlotInv' /\ ReturnInv'
  BY NextSlots
<1>2. Init => TypeInv /\ SlotInv /\ ReturnInv /\ MessageInv
  <2>1. Init => MessageInv
    BY DEF Init, NoCall, MessageInv, MessageIntact
  <2>2. QED BY <2>1, InitType, InitSlots
<1>3. TypeInv /\ SlotInv /\ MessageInv /\ TypeInv' /\ SlotInv' /\ [Next]_vars
        => [Mailbox!Next]_<<Boxes, outcome.got>>
  <2> SUFFICES ASSUME TypeInv, SlotInv, MessageInv, TypeInv', SlotInv', [Next]_vars
               PROVE  [Mailbox!Next]_<<Boxes, outcome.got>>
    OBVIOUS
  <2>1. MailMoves
    BY NextMail
  <2>2. QED BY <2>1, BoxesMove
<1>4. QED
  BY <1>1, <1>2, <1>3, BoxesStart, NextType, NextMessage, PTL
  DEF Spec, ImplementsMailbox, Mailbox!Spec, Boxes

-----------------------------------------------------------------------------
(* What is told apart within a finite set is as many as its images.        *)
LEMMA AsMany ==
    ASSUME NEW U, IsFiniteSet(U), NEW S, NEW f \in [S -> U],
           \A x, y \in S : f[x] = f[y] => x = y
    PROVE  LET T == {f[x] : x \in S}
           IN  /\ IsFiniteSet(S) /\ IsFiniteSet(T)
               /\ Cardinality(S) = Cardinality(T)
<1> DEFINE T == {f[x] : x \in S}
<1>1. f \in Injection(S, U)
  BY DEF Injection, IsInjective
<1>2. IsFiniteSet(S)
  BY <1>1, FS_Injection
<1>3. f \in Surjection(S, T) /\ f \in Injection(S, T)
  BY DEF Surjection, Injection, IsInjective
<1> HIDE DEF T
<1>4. IsFiniteSet(T) /\ Cardinality(T) = Cardinality(S)
  BY <1>2, <1>3, FS_Surjection
<1>5. QED BY <1>2, <1>4 DEF T

(* All slots, and how many there are. *)
Slots == UNION {{t} \X Indices(t) : t \in Tasks}
TotalCapacity == MapThenSumSet(LAMBDA t : CAPACITY[t], Tasks)

LEMMA SlotsCounted ==
    ASSUME IsFiniteSet(Tasks)
    PROVE  IsFiniteSet(Slots) /\ Cardinality(Slots) = TotalCapacity
<1> DEFINE B == [t \in Tasks |-> {t} \X Indices(t)]
<1>1. ASSUME NEW t \in Tasks
      PROVE  IsFiniteSet(B[t]) /\ CAPACITY[t] = Cardinality(B[t])
  <2> DEFINE f == [p \in B[t] |-> p[2]]
             I == {f[p] : p \in B[t]}
  <2>1. f \in [B[t] -> Indices(t)] /\ \A p, q \in B[t] : f[p] = f[q] => p = q
    OBVIOUS
  <2>2. I = Indices(t)
    <3>1. \A i \in Indices(t) : <<t, i>> \in B[t] /\ f[<<t, i>>] = i
      OBVIOUS
    <3>2. \A p \in B[t] : f[p] \in Indices(t)
      OBVIOUS
    <3> HIDE DEF f, B
    <3>3. QED BY <3>1, <3>2
  <2> HIDE DEF f, B
  <2>3. IsFiniteSet(B[t]) /\ Cardinality(B[t]) = Cardinality(I)
    BY <2>1, IndicesFinite, AsMany
  <2>4. QED BY <2>2, <2>3, IndicesFinite
<1>2. \A t, u \in Tasks : t # u => B[t] \cap B[u] = {}
  OBVIOUS
<1>3. Slots = UNION {B[t] : t \in Tasks}
  BY DEF Slots
<1> HIDE DEF B
<1>4. Total(Tasks, CAPACITY) = Cardinality(Slots)
  BY <1>1, <1>2, <1>3, TotalOfSizes
<1>5. TotalCapacity = Total(Tasks, CAPACITY)
  BY DEF TotalCapacity, MapThenSumSet, MapThenFoldSet, Total, Summation, SumsUp, First
<1>6. IsFiniteSet(Slots)
  <2>1. \A s \in SUBSET Tasks : IsFiniteSet(Union(B, s))
    BY <1>1, <1>2, SizesSumUp
  <2>2. QED BY <1>3, <2>1 DEF Union
<1>7. QED BY <1>4, <1>5, <1>6

(* In each queue the slots are all different, and no slot is in two.       *)
LEMMA SlotsApart ==
    ASSUME TypeInv, SlotInv
    PROVE  /\ \A k \in 1..Len(RQ) : RQ[k] \in SlotEntries
           /\ \A j, k \in 1..Len(RQ) :
                 RQ[j].task = RQ[k].task /\ RQ[j].index = RQ[k].index => j = k
           /\ \A d, e \in TQ : d.task = e.task /\ d.index = e.index => d = e
           /\ \A k \in 1..Len(RQ), e \in TQ : ~(RQ[k].task = e.task /\ RQ[k].index = e.index)
<1>1. RQ \in Seq(SlotEntries) /\ TQ \subseteq TimerSlots
  BY DEF TypeInv, ReadyQueue, TimerQueueType
<1>2. \A k \in 1..Len(RQ) : k \in DOMAIN RQ /\ RQ[k] \in SlotEntries
  BY <1>1
<1>3. \A k \in 1..Len(RQ) : RQ[k].task \in Tasks /\ RQ[k].index \in Indices(RQ[k].task)
  BY <1>2 DEF SlotEntries, Entries
<1>4. \A e \in TQ : e.task \in Tasks /\ e.index \in Indices(e.task)
  BY <1>1 DEF TimerSlots, TimerEntries
<1>5. ASSUME NEW t \in Tasks, NEW i \in Indices(t)
      PROVE  /\ \A j, k \in Ready(t, i) : j = k
             /\ \A d, e \in Timed(t, i) : d = e
             /\ Ready(t, i) = {} \/ Timed(t, i) = {}
  <2>1. OneOf(Free(t, i), Ready(t, i), Timed(t, i), Held(t, i))
    BY DEF SlotInv
  <2>2. QED BY <2>1 DEF OneOf, One
<1>6. ASSUME NEW j \in 1..Len(RQ), NEW k \in 1..Len(RQ),
             RQ[j].task = RQ[k].task, RQ[j].index = RQ[k].index
      PROVE  j = k
  <2>1. {j, k} \subseteq Ready(RQ[k].task, RQ[k].index)
    BY <1>2, <1>6 DEF Ready
  <2>2. QED BY <1>3, <1>5, <2>1
<1>7. ASSUME NEW d \in TQ, NEW e \in TQ, d.task = e.task, d.index = e.index
      PROVE  d = e
  <2>1. {d, e} \subseteq Timed(e.task, e.index)
    BY <1>7 DEF Timed
  <2>2. QED BY <1>4, <1>5, <2>1
<1>8. ASSUME NEW k \in 1..Len(RQ), NEW e \in TQ, RQ[k].task = e.task, RQ[k].index = e.index
      PROVE  FALSE
  <2>1. k \in Ready(e.task, e.index) /\ e \in Timed(e.task, e.index)
    BY <1>2, <1>8 DEF Ready, Timed
  <2>2. QED BY <1>4, <1>5, <2>1
<1>9. QED BY <1>2, <1>6, <1>7, <1>8

(* The free queue of a task holds its indices at most, and the messages    *)
(* that wait are no more than there are slots.                             *)
QueuesBounded ==
    /\ \A t \in Tasks : Length(FQ[t]) <= CAPACITY[t]
    /\ Len(RQ) + Cardinality(TQ) <= TotalCapacity

LEMMA WaitingBounded ==
    ASSUME IsFiniteSet(Tasks), TypeInv, SlotInv
    PROVE  Len(RQ) + Cardinality(TQ) <= TotalCapacity
<1> DEFINE P == 1..Len(RQ)
           f == [k \in P |-> <<RQ[k].task, RQ[k].index>>]
           g == [e \in TQ |-> <<e.task, e.index>>]
           R == {f[k] : k \in P}
           T == {g[e] : e \in TQ}
<1>1. TQ \subseteq TimerSlots /\ Len(RQ) \in Nat
  BY DEF TypeInv, ReadyQueue, TimerQueueType
<1>2. f \in [P -> Slots]
  <2>1. \A k \in P : RQ[k].task \in Tasks /\ RQ[k].index \in Indices(RQ[k].task)
    BY SlotsApart DEF SlotEntries, Entries
  <2>2. QED BY <2>1 DEF Slots
<1>3. g \in [TQ -> Slots]
  <2>1. \A e \in TQ : e.task \in Tasks /\ e.index \in Indices(e.task)
    BY <1>1 DEF TimerSlots, TimerEntries
  <2>2. QED BY <2>1 DEF Slots
<1>4. /\ \A j, k \in P : f[j] = f[k] => j = k
      /\ \A d, e \in TQ : g[d] = g[e] => d = e
      /\ R \cap T = {}
  <2>1. \A j, k \in P : f[j] = f[k] => j = k
    BY SlotsApart
  <2>2. \A d, e \in TQ : g[d] = g[e] => d = e
    BY SlotsApart
  <2>3. \A k \in P, e \in TQ : f[k] # g[e]
    BY SlotsApart
  <2>4. R \cap T = {}
    BY <2>3
  <2>5. QED BY <2>1, <2>2, <2>4
<1>5. IsFiniteSet(Slots) /\ Cardinality(Slots) = TotalCapacity
  BY SlotsCounted
<1>6. R \subseteq Slots /\ T \subseteq Slots
  BY <1>2, <1>3
<1>7. Cardinality(P) = Len(RQ)
  <2>1. ASSUME NEW n \in Nat PROVE Cardinality(1..n) = n
    <3>1. n - 1 + 1 = n
      OBVIOUS
    <3>2. QED BY <3>1, FS_Interval
  <2>2. QED BY <1>1, <2>1
<1> HIDE DEF P, f, g
<1>8. IsFiniteSet(R) /\ Cardinality(R) = Len(RQ)
  BY <1>2, <1>4, <1>5, <1>7, AsMany
<1>9. IsFiniteSet(T) /\ Cardinality(T) = Cardinality(TQ)
  BY <1>3, <1>4, <1>5, AsMany
<1> HIDE DEF R, T
<1>10. Cardinality(R \cup T) = Len(RQ) + Cardinality(TQ)
  <2>1. Cardinality(R \cup T) = Cardinality(R) + Cardinality(T) - Cardinality(R \cap T)
    BY <1>8, <1>9, FS_Union
  <2>2. Cardinality(R \cap T) = 0
    BY <1>4, FS_EmptySet
  <2>3. Cardinality(T) \in Nat
    BY <1>9, FS_CardinalityType
  <2>4. QED BY <1>1, <1>8, <1>9, <2>1, <2>2, <2>3
<1>11. Cardinality(R \cup T) <= Cardinality(Slots)
  <2>1. R \cup T \in SUBSET Slots
    BY <1>6
  <2>2. QED BY <1>5, <2>1, FS_Subset
<1>12. QED BY <1>5, <1>10, <1>11

LEMMA FreeBounded ==
    ASSUME TypeInv, SlotInv, NEW t \in Tasks
    PROVE  Length(FQ[t]) <= CAPACITY[t]
<1> DEFINE L == Length(FQ[t])
           f == [k \in 1..L |-> Elements(FQ[t])[k]]
<1>1. FreeQueues
  BY DEF TypeInv
<1>2. L \in Nat /\ \A k \in 1..L : Elements(FQ[t])[k] \in Indices(t)
  BY <1>1, QueueFacts
<1>3. ASSUME NEW x \in 1..L, NEW y \in 1..L, f[x] = f[y] PROVE x = y
  <2> DEFINE j == Elements(FQ[t])[x]
  <2>1. j \in Indices(t) /\ x \in Free(t, j) /\ y \in Free(t, j)
    BY <1>2, <1>3 DEF Free
  <2>2. OneOf(Free(t, j), Ready(t, j), Timed(t, j), Held(t, j))
    BY <2>1 DEF SlotInv
  <2>3. QED BY <2>1, <2>2 DEF One, OneOf
<1>4. f \in Injection(1..L, Indices(t))
  <2>1. f \in [1..L -> Indices(t)]
    BY <1>2
  <2>2. QED BY <1>3, <2>1 DEF Injection, IsInjective
<1>5. Cardinality(1..L) = L
  <2>1. L - 1 + 1 = L
    BY <1>2
  <2> HIDE DEF L
  <2>2. QED BY <1>2, <2>1, FS_Interval
<1>6. Cardinality(1..L) <= Cardinality(Indices(t))
  <2> HIDE DEF L, f
  <2>1. QED BY <1>4, IndicesFinite, FS_Injection
<1>7. QED BY <1>5, <1>6, IndicesFinite

(* No enqueue checks for a full queue, and none has to: with tasks that    *)
(* are finitely many, the free queue of a task never holds more than its   *)
(* capacity, nor the ready queue and the timer queue together more than    *)
(* the sum of the capacities.  By QueuesLargeEnough of AppGeneration the   *)
(* queues that are generated have room for this.  So the ready queue may   *)
(* be a sequence here, without an end.                                     *)
THEOREM QueuesBoundedHolds ==
    ASSUME CancelledBelow, IsFiniteSet(Tasks) PROVE Spec => []QueuesBounded
<1>1. TypeInv /\ SlotInv /\ ReturnInv /\ [Next]_vars => SlotInv' /\ ReturnInv'
  BY NextSlots
<1>2. Init => TypeInv /\ SlotInv /\ ReturnInv
  BY InitType, InitSlots
<1>3. TypeInv /\ SlotInv => QueuesBounded
  BY FreeBounded, WaitingBounded DEF QueuesBounded
<1>4. QED BY <1>1, <1>2, <1>3, NextType, PTL DEF Spec
=============================================================================
