----------------------------- MODULE TimerQueue -----------------------------
(***************************************************************************)
(* The timer queue of one monotonic (src/src/tq.rs), the sections of the   *)
(* generated code that use it and the interrupt handler of its timer.      *)
(*                                                                         *)
(* Calls are sections of interrupt::free and so are single actions; they   *)
(* may come between two iterations of the handler's loop.  The handler's   *)
(* own section `dequeue` is split where it reads the clock, because the    *)
(* clock and the compare interrupt of the hardware run on meanwhile.       *)
(*                                                                         *)
(* The clock wraps around, and instants are compared as it does.  That is  *)
(* an order only among instants less than half its range apart, which the  *)
(* application has to see to: Past, Ahead and Latency say how.             *)
(***************************************************************************)
EXTENDS SortedEntries

CONSTANTS
    Capacity,    (* the sum of the capacities of all software tasks        *)
    Half,        (* half the number of values of the clock, 2 ^ (bits - 1) *)
    Past,        (* a deadline may be as many ticks in the past            *)
    Ahead,       (*   and as many in the future                            *)
    Latency,     (* the handler is not kept waiting for longer             *)
    MaxCalls,    (* bound: on the number of calls                          *)
    None

ASSUME TimerAssumption ==
    /\ Capacity \in 1..255 /\ MaxCalls \in Nat /\ Half \in Nat
    /\ Past \in 0..Latency /\ Ahead \in Nat /\ Latency \in Nat
    /\ Latency + Ahead < Half
    /\ None \notin Int

Instants == 0..(2 * Half - 1)
Markers == 1..MaxCalls
NotReady == [instant : Instants, marker : Markers]

VARIABLES
    disable,    (* Mono::DISABLE_INTERRUPT_ON_EMPTY_QUEUE, a constant of   *)
                (* the monotonic: either value is started with             *)
    queue,      (* the entries, in the order of the list                   *)
    mono,       (* TRUE once post_init has stored the monotonic            *)
    now,        (* the clock                                               *)
    compare,    (* the instant the timer interrupts at, or None            *)
    counting,   (* the timer is enabled                                    *)
    unmasked,   (* its interrupt is enabled                                *)
    pended,     (* its interrupt is pending                                *)
    pc,         (* where the handler is                                    *)
    calls       (* history: the number of calls made                       *)

vars == <<disable, queue, mono, now, compare, counting, unmasked, pended, pc, calls>>

Init ==
    /\ disable \in BOOLEAN
    /\ queue = <<>>
    /\ mono = FALSE
    /\ now = 0
    /\ compare = None
    /\ counting = FALSE
    /\ unmasked = ~disable
    /\ pended = FALSE
    /\ pc = "idle"
    /\ calls = 0

-----------------------------------------------------------------------------
(* Mutant: instants are compared as numbers. *)
Earlier_Linear(i, j) == i < j

(* The comparison of instants: i is before j if j comes within the half of *)
(* the clock's range after i.                                              *)
Earlier(i, j) == (j - i) % (2 * Half) \in 1..(Half - 1)

(* How many ticks are left until an instant, negative once it has passed:  *)
(* true of all that are less than half the range away.                     *)
Left(i) == ((i - now + Half) % (2 * Half)) - Half

-----------------------------------------------------------------------------
(* The monotonic timer, hardware and driver.  The compare value matches    *)
(* again each time the clock comes round.                                  *)

(* The interrupt is taken, or about to be, and entries are due. *)
Late(ticks) ==
    /\ pc # "idle" \/ (pended /\ unmasked)
    /\ \E i \in DOMAIN queue : Left(queue[i].instant) <= -ticks

Tick ==
    /\ mono
    /\ ~Late(Latency)
    /\ now' = (now + 1) % (2 * Half)
    /\ pended' = (pended \/ (counting /\ compare = now'))
    /\ UNCHANGED <<disable, queue, mono, compare, counting, unmasked, pc,
                   calls>>

(* post_init: reset() starts the timer at zero; then interrupts run. *)
post_init ==
    /\ ~mono
    /\ mono' = TRUE
    /\ counting' = TRUE
    /\ UNCHANGED <<disable, queue, now, compare, unmasked, pended, pc, calls>>

-----------------------------------------------------------------------------
(* Calls of the application, from init or from any context. *)

Call ==
    /\ calls < MaxCalls
    /\ calls' = calls + 1
    /\ pc \in {"idle", "dequeue", "return"}

(* A marker is taken from a counter, here the one of the calls. *)
Fresh(nr) == nr.marker = calls'

(* Mutant: the number of entries is not limited by the claimed slots. *)
enqueue_unchecked_NoClaim(nr) ==
    /\ Call
    /\ Fresh(nr)
    /\ pended' = TRUE
    /\ unmasked' = TRUE /\ counting' = (counting \/ mono)
    /\ queue' = PlaceBy(Earlier, queue, nr)
    /\ UNCHANGED <<disable, mono, now, compare, pc>>

(* Mutant: the interrupt that an empty queue has switched off stays off. *)
enqueue_unchecked_StaysMasked(nr) ==
    /\ Call
    /\ Len(queue) < Capacity
    /\ Fresh(nr)
    /\ pended' = TRUE
    /\ counting' = (counting \/ mono)
    /\ queue' = PlaceBy(Earlier, queue, nr)
    /\ UNCHANGED <<disable, mono, now, compare, unmasked, pc>>

(* spawn_at, its last section.  A caller that has claimed a slot finds     *)
(* room.  Without the monotonic (in init) the timer cannot be enabled.     *)
enqueue_unchecked(nr) ==
    /\ Call
    /\ Len(queue) < Capacity
    /\ Fresh(nr)
    /\ IF queue = <<>> \/ Earlier(nr.instant, Head(queue).instant)
       THEN /\ pended' = TRUE
            /\ IF disable /\ queue = <<>>
               THEN unmasked' = TRUE /\ counting' = (counting \/ mono)
               ELSE UNCHANGED <<unmasked, counting>>
       ELSE UNCHANGED <<pended, unmasked, counting>>
    /\ queue' = PlaceBy(Earlier, queue, nr)
    /\ UNCHANGED <<disable, mono, now, compare, pc>>

(* SpawnHandle::cancel. *)
cancel_marker(m) ==
    /\ Call
    /\ Position(queue, m) # 0
    /\ queue' = RemoveAt(queue, Position(queue, m))
    /\ UNCHANGED <<disable, mono, now, compare, counting, unmasked, pended,
                   pc>>

(* SpawnHandle::reschedule_at. *)
update_marker(m, nr) ==
    /\ Call
    /\ Position(queue, m) # 0
    /\ Fresh(nr)
    /\ queue' = PlaceBy(Earlier, RemoveAt(queue, Position(queue, m)), nr)
    /\ pended' = TRUE
    /\ UNCHANGED <<disable, mono, now, compare, counting, unmasked, pc>>

-----------------------------------------------------------------------------
(* The handler. *)

HandlerStart ==
    /\ pc = "idle"
    /\ mono /\ pended /\ unmasked
    /\ pended' = FALSE
    /\ pc' = "dequeue"
    /\ UNCHANGED <<disable, queue, mono, now, compare, counting, unmasked,
                   calls>>

(* Mutant: the timer of an empty queue goes on interrupting. *)
DequeueEmpty_StaysOn ==
    /\ pc = "dequeue"
    /\ queue = <<>>
    /\ pc' = "return"
    /\ UNCHANGED <<disable, queue, mono, now, compare, counting, unmasked,
                   pended, calls>>

(* TimerQueue::dequeue on an empty queue. *)
DequeueEmpty ==
    /\ pc = "dequeue"
    /\ queue = <<>>
    /\ IF disable
       THEN unmasked' = FALSE /\ counting' = FALSE
       ELSE UNCHANGED <<unmasked, counting>>
    /\ pc' = "return"
    /\ UNCHANGED <<disable, queue, mono, now, compare, pended, calls>>

Due == ~Earlier(now, Head(queue).instant)

(* Either reading of the clock finds that the first entry is due. *)
DequeueDue ==
    /\ pc \in {"dequeue", "recheck"}
    /\ queue # <<>>
    /\ Due
    /\ queue' = Tail(queue)
    /\ pc' = "dequeue"
    /\ UNCHANGED <<disable, mono, now, compare, counting, unmasked, pended,
                   calls>>

(* The first reading finds that it is not. *)
DequeueNotDue ==
    /\ pc = "dequeue"
    /\ queue # <<>>
    /\ ~Due
    /\ pc' = "arm"
    /\ UNCHANGED <<disable, queue, mono, now, compare, counting, unmasked,
                   pended, calls>>

SetCompare ==
    /\ pc = "arm"
    /\ compare' = Head(queue).instant
    /\ pc' = "recheck"
    /\ UNCHANGED <<disable, queue, mono, now, counting, unmasked, pended,
                   calls>>

(* Mutant: the clock is not read again after set_compare. *)
Rechecked_NotRead ==
    /\ pc = "recheck"
    /\ pc' = "return"
    /\ UNCHANGED <<disable, queue, mono, now, compare, counting, unmasked,
                   pended, calls>>

Rechecked ==
    /\ pc = "recheck"
    /\ ~Due
    /\ pc' = "return"
    /\ UNCHANGED <<disable, queue, mono, now, compare, counting, unmasked,
                   pended, calls>>

HandlerReturn ==
    /\ pc = "return"
    /\ pc' = "idle"
    /\ UNCHANGED <<disable, queue, mono, now, compare, counting, unmasked,
                   pended, calls>>

Handler == HandlerStart \/ DequeueEmpty \/ DequeueDue \/ DequeueNotDue
             \/ SetCompare \/ Rechecked \/ HandlerReturn

Next ==
    \/ Tick \/ post_init \/ Handler
    \/ \E nr \in NotReady :
          /\ Left(nr.instant) \in (-Past)..Ahead
          /\ \/ enqueue_unchecked(nr)
             \/ \E m \in Markers : update_marker(m, nr)
    \/ \E m \in Markers : cancel_marker(m)

Spec == Init /\ [][Next]_vars

(* init returns, the clock runs and a pending interrupt is handled.  No    *)
(* call has to be made.                                                    *)
Fairness == WF_vars(post_init) /\ WF_vars(Tick) /\ WF_vars(Handler)

FairSpec == Spec /\ Fairness

-----------------------------------------------------------------------------
TypeOK ==
    /\ disable \in BOOLEAN
    /\ queue \in Seq(NotReady) /\ Len(queue) <= Capacity
    /\ compare \in Instants \cup {None}
    /\ now \in Instants /\ calls \in 0..MaxCalls
    /\ mono \in BOOLEAN /\ counting \in BOOLEAN
    /\ unmasked \in BOOLEAN /\ pended \in BOOLEAN
    /\ pc \in {"idle", "dequeue", "arm", "recheck", "return"}

(* The interrupt will come: it is pending, or the timer will raise it in   *)
(* time for the first entry.                                               *)
WillInterrupt ==
    /\ unmasked
    /\ \/ pended
       \/ /\ counting /\ compare # None
          /\ (compare - now) % (2 * Half) \in 1..Left(Head(queue).instant)

(* An entry that waits is never forgotten: outside the handler's loop its  *)
(* interrupt is on its way, whatever was enqueued in front, cancelled or   *)
(* rescheduled meanwhile, however the clock ran between the reading of it  *)
(* and the setting of the compare value, and although an empty queue       *)
(* switches the interrupt off.                                             *)
EntriesAreArmed ==
    mono /\ queue # <<>> /\ pc \in {"idle", "return"} => WillInterrupt

(* The handler takes an entry: the calls of others are counted. *)
Release == pc \in {"dequeue", "recheck"} /\ calls' = calls /\ queue' # queue

(* What leaves the queue through the handler is due, and nothing that      *)
(* stays behind has an earlier deadline, also while the clock wraps around *)
(* between the deadlines.                                                  *)
ReleasedInOrder ==
    [][Release => /\ Left(Head(queue).instant) <= 0
                  /\ \A e \in Range(queue') :
                        Left(Head(queue).instant) <= Left(e.instant)]_vars

(* With nothing left the timer falls silent, if it is to: the interrupt is *)
(* off, or about to come and be switched off.                              *)
SilentWhenEmpty ==
    (/\ disable
     /\ mono /\ queue = <<>> /\ pc = "idle")
       => ~unmasked \/ pended \/ (counting /\ compare # None)

(* Each entry leaves the queue: its deadline comes and is noticed. *)
EventuallyReleased ==
    \A m \in Markers :
       Position(queue, m) # 0 ~> Position(queue, m) = 0
=============================================================================
