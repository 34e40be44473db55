---------------------------- MODULE SoftwareTasks ----------------------------
(***************************************************************************)
(* Message passing between contexts: `spawn` and `spawn_at` claim a slot   *)
(* of the task's INPUTS buffer from its free queue (FQ), write the message *)
(* into it and pass the slot's index on, through the ready queue (RQ) of   *)
(* the task's priority or through the timer queue (TQ); the dispatcher     *)
(* reads the message, gives the slot back and calls the task; `cancel`     *)
(* takes the entry out of the timer queue again.                           *)
(*                                                                         *)
(* The contexts run on one core and preempt each other by priority: each   *)
(* action is what a context does without being preempted, that is a        *)
(* section of interrupt::free or one access to the shared memory.  The     *)
(* order of deadlines is left to TimerQueue: here any entry may expire.    *)
(***************************************************************************)
EXTENDS Integers, Sequences, FiniteSets, FiniteSetsExt, SpscQueue

CONSTANTS
    Tasks,        (* the software tasks of one priority                    *)
    CAPACITY,     (* their capacities                                      *)
    Callers,      (* contexts that spawn: tasks of other priorities, idle  *)
    Cancellers,   (* those that cancel what is scheduled                   *)
    Dispatcher,   (* the interrupt handler of the tasks' priority          *)
    Timer,        (* the interrupt handler of the timer queue              *)
    PRIORITY,     (* of every context                                      *)
    Messages,
    Markers,      (* the values of SpawnHandle::marker                     *)
    None          (* no message, no entry: memory not yet written          *)

Contexts == Callers \cup {Dispatcher, Timer}

ASSUME ContextAssumption ==
    /\ Dispatcher # Timer /\ Dispatcher \notin Callers /\ Timer \notin Callers
    /\ Cancellers \subseteq Callers \cup {Dispatcher}
    /\ None \notin Messages
    /\ PRIORITY \in [Contexts -> Nat]
    /\ CAPACITY \in [Tasks -> 1..128]

(* The rings are powers of two, of at most 128 elements, and the counters  *)
(* are u8: they wrap at the end of a ring, and a full queue does not look  *)
(* like an empty one.                                                      *)
ASSUME RingAssumption ==
    \A t \in Tasks : CAPACITY[t] < Wrap /\ Wrap % RingSize(CAPACITY[t]) = 0

VARIABLES
    FQ,        (* of each task: the free indices                           *)
    INPUTS,    (* of each task: the message buffer                         *)
    RQ,        (* the ready queue of (task, index): its producers are in   *)
               (* interrupt::free, its one consumer only moves the head    *)
    TQ,        (* the timer queue: a set of entries with their markers     *)
    handles,   (* SpawnHandles not yet used or dropped                     *)
    pended,    (* the dispatcher's interrupt is pending                    *)
    op,        (* program counter and locals of each context               *)
    outcome    (* history: the last message delivered or handed back       *)

vars == <<FQ, INPUTS, RQ, TQ, handles, pended, op, outcome>>

-----------------------------------------------------------------------------
Indices(t) == 0..(CAPACITY[t] - 1)
SlotIndex == UNION {Indices(t) : t \in Tasks}

(* An index under way.  `sent` is history: the message it was claimed for. *)
Entries == [task : Tasks, index : SlotIndex, sent : Messages]
TimerEntries == [task : Tasks, index : SlotIndex, sent : Messages,
                 marker : Markers]
Entry(t, i, m) == [task |-> t, index |-> i, sent |-> m]

NoCall == [pc |-> "idle", entry |-> None, tail |-> 0]


(* Mutant: pre_init counts the indices from 1. *)
FreeQueue_FromOne(t) ==
    LET n == RingSize(CAPACITY[t])
    IN  Filled(n, [k \in 0..(n - 1) |-> IF k < CAPACITY[t] THEN k + 1 ELSE 0],
               CAPACITY[t])

(* pre_init puts every index into the queue; the memory behind is zeroed. *)
FreeQueue(t) ==
    LET n == RingSize(CAPACITY[t])
    IN  Filled(n, [k \in 0..(n - 1) |-> IF k < CAPACITY[t] THEN k ELSE 0],
               CAPACITY[t])

Init ==
    /\ FQ = [t \in Tasks |-> FreeQueue(t)]
    /\ INPUTS = [t \in Tasks |-> [i \in Indices(t) |-> None]]
    /\ RQ = <<>> /\ TQ = {} /\ handles = {} /\ pended = FALSE
    /\ op = [c \in Contexts |-> NoCall]
    /\ outcome = [sent |-> None, got |-> None]

-----------------------------------------------------------------------------
(* One core: a context runs while no other of its priority or above is in  *)
(* the middle of something.                                                *)
Runs(c) ==
    \A d \in Contexts \ {c} : op[d].pc # "idle" => PRIORITY[d] < PRIORITY[c]

At(c, pc) == Runs(c) /\ op[c].pc = pc

(* Where user code runs: in a caller, or in a task the dispatcher called. *)
Home(c) == IF c = Dispatcher THEN "run" ELSE "idle"
GoTo(c, pc) == op' = [op EXCEPT ![c].pc = pc]
GoHome(c) == op' = [op EXCEPT ![c] = [NoCall EXCEPT !.pc = Home(c)]]

-----------------------------------------------------------------------------
(* spawn and spawn_at. *)

(* interrupt::free(|_| FQ.dequeue()); with no free slot the caller gets    *)
(* its message back and nothing changes.                                   *)
SpawnClaim(c, t, m) ==
    /\ At(c, Home(c))
    /\ ~IsEmpty(FQ[t])
    /\ op' = [op EXCEPT ![c] = [pc |-> "write", tail |-> 0,
                                entry |-> Entry(t, Oldest(FQ[t]), m)]]
    /\ FQ' = [FQ EXCEPT ![t] = Dequeued(@)]
    /\ UNCHANGED <<INPUTS, RQ, TQ, handles, pended, outcome>>

SpawnWrite(c) ==
    /\ At(c, "write")
    /\ LET e == op[c].entry
       IN  INPUTS' = [INPUTS EXCEPT ![e.task][e.index] = e.sent]
    /\ GoTo(c, "enqueue")
    /\ UNCHANGED <<FQ, RQ, TQ, handles, pended, outcome>>

SpawnEnqueue(c) ==
    /\ At(c, "enqueue")
    /\ RQ' = Append(RQ, op[c].entry)
    /\ GoTo(c, "pend")
    /\ UNCHANGED <<FQ, INPUTS, TQ, handles, pended, outcome>>

SpawnPend(c) ==
    /\ At(c, "pend")
    /\ pended' = TRUE
    /\ GoHome(c)
    /\ UNCHANGED <<FQ, INPUTS, RQ, TQ, handles, outcome>>

(* spawn_at: one section reads and advances the marker and enqueues.  The  *)
(* u32 counter has not come round to a marker that is still in use.        *)
MarkersInUse == handles \cup {e.marker : e \in TQ}

ScheduleEnqueue(c) ==
    /\ At(c, "enqueue")
    /\ \E m \in Markers \ MarkersInUse :
          /\ TQ' = TQ \cup {[task |-> op[c].entry.task, index |-> op[c].entry.index,
                             sent |-> op[c].entry.sent, marker |-> m]}
          /\ handles' = handles \cup {m}
    /\ GoHome(c)
    /\ UNCHANGED <<FQ, INPUTS, RQ, pended, outcome>>

(* The holder of a handle may drop it unused. *)
DropHandle(h) ==
    /\ h \in handles
    /\ handles' = handles \ {h}
    /\ UNCHANGED <<FQ, INPUTS, RQ, TQ, pended, op, outcome>>

(* Mutant: the index is not given back. *)
cancel_Leak(c, h) ==
    /\ At(c, Home(c))
    /\ h \in handles
    /\ handles' = handles \ {h}
    /\ IF \E e \in TQ : e.marker = h
       THEN \E e \in TQ :
              /\ e.marker = h
              /\ TQ' = TQ \ {e}
              /\ outcome' = [sent |-> e.sent, got |-> INPUTS[e.task][e.index]]
       ELSE UNCHANGED <<TQ, outcome>>
    /\ UNCHANGED <<FQ, INPUTS, RQ, pended, op>>

(* Mutant: the message is given back, but the task is to run with it too. *)
cancel_Stays(c, h) ==
    /\ At(c, Home(c))
    /\ h \in handles
    /\ handles' = handles \ {h}
    /\ IF \E e \in TQ : e.marker = h
       THEN \E e \in TQ :
              /\ e.marker = h
              /\ outcome' = [sent |-> e.sent, got |-> INPUTS[e.task][e.index]]
       ELSE UNCHANGED outcome
    /\ UNCHANGED <<FQ, INPUTS, RQ, TQ, pended, op>>

(* SpawnHandle::cancel, one section of interrupt::free. *)
cancel(c, h) ==
    /\ At(c, Home(c))
    /\ h \in handles
    /\ handles' = handles \ {h}
    /\ IF \E e \in TQ : e.marker = h
       THEN \E e \in TQ :
              /\ e.marker = h
              /\ TQ' = TQ \ {e}
              /\ outcome' = [sent |-> e.sent, got |-> INPUTS[e.task][e.index]]
              /\ FQ' = [FQ EXCEPT ![e.task] = Enqueued(@, e.index)]
       ELSE UNCHANGED <<TQ, outcome, FQ>>
    /\ UNCHANGED <<INPUTS, RQ, pended, op>>

(* SpawnHandle::reschedule_at: the handle becomes one with a new marker. *)
reschedule_at(c, h) ==
    /\ At(c, Home(c))
    /\ h \in handles
    /\ IF \E e \in TQ : e.marker = h
       THEN \E e \in TQ, m \in Markers \ MarkersInUse :
              /\ e.marker = h
              /\ TQ' = (TQ \ {e}) \cup {[e EXCEPT !.marker = m]}
              /\ handles' = (handles \ {h}) \cup {m}
       ELSE handles' = handles \ {h} /\ UNCHANGED TQ
    /\ UNCHANGED <<FQ, INPUTS, RQ, pended, op, outcome>>

-----------------------------------------------------------------------------
(* The timer queue handler moves expired entries to the ready queue. *)

TimerStart ==
    /\ At(Timer, "idle")
    /\ TQ # {}
    /\ GoTo(Timer, "dequeue")
    /\ UNCHANGED <<FQ, INPUTS, RQ, TQ, handles, pended, outcome>>

TimerDequeue ==
    /\ At(Timer, "dequeue")
    /\ \E e \in TQ :
          /\ TQ' = TQ \ {e}
          /\ op' = [op EXCEPT ![Timer] =
                      [pc |-> "enqueue", tail |-> 0,
                       entry |-> Entry(e.task, e.index, e.sent)]]
    /\ UNCHANGED <<FQ, INPUTS, RQ, handles, pended, outcome>>

(* No entry, or none that has expired yet. *)
TimerReturn ==
    /\ At(Timer, "dequeue")
    /\ op' = [op EXCEPT ![Timer] = NoCall]
    /\ UNCHANGED <<FQ, INPUTS, RQ, TQ, handles, pended, outcome>>

TimerEnqueue ==
    /\ At(Timer, "enqueue")
    /\ RQ' = Append(RQ, op[Timer].entry)
    /\ GoTo(Timer, "pend")
    /\ UNCHANGED <<FQ, INPUTS, TQ, handles, pended, outcome>>

(* Mutant: the dispatcher is not pended. *)
TimerPend_Forgotten ==
    /\ At(Timer, "pend")
    /\ op' = [op EXCEPT ![Timer] = [NoCall EXCEPT !.pc = "dequeue"]]
    /\ UNCHANGED <<FQ, INPUTS, RQ, TQ, handles, pended, outcome>>

TimerPend ==
    /\ At(Timer, "pend")
    /\ pended' = TRUE
    /\ op' = [op EXCEPT ![Timer] = [NoCall EXCEPT !.pc = "dequeue"]]
    /\ UNCHANGED <<FQ, INPUTS, RQ, TQ, handles, outcome>>

-----------------------------------------------------------------------------
(* The dispatcher.  Its accesses to the queues are not protected. *)

DispatchStart ==
    /\ At(Dispatcher, "idle")
    /\ pended
    /\ pended' = FALSE
    /\ GoTo(Dispatcher, "dequeue")
    /\ UNCHANGED <<FQ, INPUTS, RQ, TQ, handles, outcome>>

(* `dequeue` found nothing; the loop is over, the handler is not yet. *)
DispatchEmpty ==
    /\ At(Dispatcher, "dequeue")
    /\ RQ = <<>>
    /\ GoTo(Dispatcher, "return")
    /\ UNCHANGED <<FQ, INPUTS, RQ, TQ, handles, pended, outcome>>

DispatchReturn ==
    /\ At(Dispatcher, "return")
    /\ op' = [op EXCEPT ![Dispatcher] = NoCall]
    /\ UNCHANGED <<FQ, INPUTS, RQ, TQ, handles, pended, outcome>>

(* Mutant: the slot is given back before its message has been read. *)
DispatchDequeue_FreesFirst ==
    /\ At(Dispatcher, "dequeue")
    /\ RQ # <<>>
    /\ op' = [op EXCEPT ![Dispatcher] =
                [pc |-> "read", entry |-> Head(RQ), tail |-> 0]]
    /\ RQ' = Tail(RQ)
    /\ FQ' = [FQ EXCEPT ![Head(RQ).task] = Enqueued(@, Head(RQ).index)]
    /\ UNCHANGED <<INPUTS, TQ, handles, pended, outcome>>

(* The only consumer of RQ: a producer that preempts it moves the tail. *)
DispatchDequeue ==
    /\ At(Dispatcher, "dequeue")
    /\ RQ # <<>>
    /\ op' = [op EXCEPT ![Dispatcher] =
                [pc |-> "read", entry |-> Head(RQ), tail |-> 0]]
    /\ RQ' = Tail(RQ)
    /\ UNCHANGED <<FQ, INPUTS, TQ, handles, pended, outcome>>

(* The message is read out and will be passed to the task. *)
DispatchRead ==
    /\ At(Dispatcher, "read")
    /\ LET e == op[Dispatcher].entry
       IN  outcome' = [sent |-> e.sent, got |-> INPUTS[e.task][e.index]]
    /\ GoTo(Dispatcher, "load")
    /\ UNCHANGED <<FQ, INPUTS, RQ, TQ, handles, pended>>

(* FQ.split().0.enqueue_unchecked(index), in its three accesses. *)
FreeLoad ==
    /\ At(Dispatcher, "load")
    /\ op' = [op EXCEPT ![Dispatcher].pc = "store",
                        ![Dispatcher].tail = FQ[op[Dispatcher].entry.task].tail]
    /\ UNCHANGED <<FQ, INPUTS, RQ, TQ, handles, pended, outcome>>

FreeStore ==
    /\ At(Dispatcher, "store")
    /\ LET e == op[Dispatcher].entry
       IN  FQ' = [FQ EXCEPT ![e.task] = Stored(@, op[Dispatcher].tail, e.index)]
    /\ GoTo(Dispatcher, "publish")
    /\ UNCHANGED <<INPUTS, RQ, TQ, handles, pended, outcome>>

FreePublish ==
    /\ At(Dispatcher, "publish")
    /\ LET e == op[Dispatcher].entry
       IN  FQ' = [FQ EXCEPT ![e.task] = Published(@, op[Dispatcher].tail)]
    /\ op' = [op EXCEPT ![Dispatcher] = [NoCall EXCEPT !.pc = "run"]]
    /\ UNCHANGED <<INPUTS, RQ, TQ, handles, pended, outcome>>

(* Mutant: one task is dispatched per interrupt, `if let` for `while let`. *)
TaskReturn_Once ==
    /\ At(Dispatcher, "run")
    /\ GoTo(Dispatcher, "return")
    /\ UNCHANGED <<FQ, INPUTS, RQ, TQ, handles, pended, outcome>>

(* The task returns and the loop goes on. *)
TaskReturn ==
    /\ At(Dispatcher, "run")
    /\ GoTo(Dispatcher, "dequeue")
    /\ UNCHANGED <<FQ, INPUTS, RQ, TQ, handles, pended, outcome>>

-----------------------------------------------------------------------------
Spawners == Callers \cup {Dispatcher}

TimerStep == TimerDequeue \/ TimerReturn \/ TimerEnqueue \/ TimerPend
DispatchStep == DispatchEmpty \/ DispatchReturn \/ DispatchDequeue \/ DispatchRead
                  \/ FreeLoad \/ FreeStore \/ FreePublish \/ TaskReturn
CallStep(c) == SpawnWrite(c) \/ SpawnEnqueue(c) \/ ScheduleEnqueue(c) \/ SpawnPend(c)

Next ==
    \/ \E c \in Spawners :
          \/ CallStep(c)
          \/ \E t \in Tasks, m \in Messages : SpawnClaim(c, t, m)
    \/ \E c \in Cancellers, h \in Markers : cancel(c, h) \/ reschedule_at(c, h)
    \/ \E h \in Markers : DropHandle(h)
    \/ TimerStart \/ TimerStep \/ DispatchStart \/ DispatchStep

Spec == Init /\ [][Next]_vars

(* Calls, tasks and handlers end, and the contexts above one that is ready *)
(* to go on leave it the processor again and again.                        *)
Fairness ==
    /\ \A c \in Spawners : SF_vars(CallStep(c))
    /\ SF_vars(DispatchStart) /\ SF_vars(DispatchStep)
    /\ WF_vars(TimerStep) /\ SF_vars(TimerReturn)

FairSpec == Spec /\ Fairness

-----------------------------------------------------------------------------
Locals == [pc : {"idle", "write", "enqueue", "pend", "dequeue", "read", "load",
                   "store", "publish", "run", "return"},
             entry : Entries \cup {None}, tail : 0..(Wrap - 1)]

TypeOK ==
    /\ \A t \in Tasks : FQ[t] \in QueueOf(RingSize(CAPACITY[t]), Indices(t))
    /\ \A t \in Tasks : INPUTS[t] \in [Indices(t) -> Messages \cup {None}]
    /\ RQ \in Seq(Entries)
    /\ TQ \subseteq TimerEntries
    /\ handles \subseteq Markers
    /\ pended \in BOOLEAN
    /\ op \in [Contexts -> Locals]
    /\ outcome \in [sent : Messages \cup {None}, got : Messages \cup {None}]

(* Who holds index i of task t: the free queue, the ready queue, the timer *)
(* queue, or a context between two of them.                                *)
Carries(c) == op[c].pc \in {"write", "enqueue", "read", "load", "store", "publish"}

Places(t, i) ==
    {<<"free", k>> : k \in {k \in 1..Length(FQ[t]) : Elements(FQ[t])[k] = i}}
      \cup {<<"ready", k>> : k \in {k \in DOMAIN RQ : RQ[k].task = t /\ RQ[k].index = i}}
      \cup {<<"timer", e>> : e \in {e \in TQ : e.task = t /\ e.index = i}}
      \cup {<<"context", c>> : c \in {c \in Contexts :
               Carries(c) /\ op[c].entry.task = t /\ op[c].entry.index = i}}

(* A fixed number of slots circulates: each one is in exactly one place.   *)
(* Nothing is lost, handed out twice or read by two, and so no unchecked   *)
(* enqueue meets a full queue ("returning an slot to the free queue is     *)
(* unchecked because there's a fixed number of such slots circulating in   *)
(* the system").                                                           *)
SlotsConserved ==
    \A t \in Tasks : \A i \in Indices(t) : Cardinality(Places(t, i)) = 1

(* A task, or the caller of cancel, gets the message of the very spawn its *)
(* entry stands for, although slots are reused at once.                    *)
MessageIntact == outcome.got = outcome.sent

(* The calls whose messages are still to be given out: their entries are   *)
(* queued, or a context has them and has not read the message yet.         *)
Outstanding(t, m) ==
    LET Of(e) == e.task = t /\ e.sent = m
    IN  Cardinality({k \in DOMAIN RQ : Of(RQ[k])})
          + Cardinality({e \in TQ : Of(e)})
          + Cardinality({c \in Contexts :
               op[c].pc \in {"write", "enqueue", "read"} /\ Of(op[c].entry)})

Mailbox == INSTANCE TaskMailbox WITH
    box <- [t \in Tasks |-> [m \in Messages |-> Outstanding(t, m)]],
    given <- outcome.got

(* Seen from outside each task has a box of CAPACITY messages: one that    *)
(* was accepted is given out once, to the task or by cancel, never lost,   *)
(* repeated or exchanged for another task's, through the ready queue, the  *)
(* timer queue and any preemption on the way.                              *)
ImplementsMailbox == Mailbox!Spec

(* Work in the ready queue is never forgotten: the dispatcher is pended,   *)
(* has yet to look at the queue again, or is about to be pended.           *)
NoLostWakeup ==
    RQ = <<>> \/ pended \/ op[Dispatcher].pc \notin {"idle", "return"}
      \/ \E c \in Contexts : op[c].pc = "pend"

(* A task that is in the ready queue is dispatched in the end, even when   *)
(* tasks spawn one another, or themselves, without end.                    *)
EventuallyDispatched ==
    \A t \in Tasks : \A i \in Indices(t) :
       (\E k \in DOMAIN RQ : RQ[k].task = t /\ RQ[k].index = i)
         ~> (/\ op[Dispatcher].pc = "read"
             /\ op[Dispatcher].entry.task = t /\ op[Dispatcher].entry.index = i)
=============================================================================
