------------------------------- MODULE Startup -------------------------------
(***************************************************************************)
(* The program the code generator puts into `main`, and what it meets: it  *)
(* fills the free queues, sets priorities, unmasks interrupts, calls init, *)
(* stores the late resources and the monotonics, enables interrupts and    *)
(* calls idle, while devices pend interrupts from reset on and init may    *)
(* already spawn and schedule tasks.                                       *)
(*                                                                         *)
(* The order of messages is left to SoftwareTasks and the time to          *)
(* TimerQueue: here the queues are counters and any entry may expire.  A   *)
(* section of a proxy masks up to its ceiling, as CriticalSections shows.  *)
(***************************************************************************)
EXTENDS ResourceAccess, Sequences, SequencesExt

CONSTANTS
    Apps,         (* the applications                                      *)
    Exceptions,   (* lines the NVIC cannot mask, SysTick among them        *)
    LEVELS,       (* 1 << NVIC_PRIO_BITS                                   *)
    MaxEvents     (* bound on what devices and user code ask for           *)

VARIABLES
    app,
    main,         (* what is left of `main`, a sequence of statements      *)
    primask,      (* interrupts are disabled                               *)
    level,        (* the priority register of every line, as a logical one *)
    unmasked,     (* lines enabled in the NVIC; SysTick's own enable bit   *)
    pended,
    stack,        (* frames: main, and the handlers that are active        *)
    asleep,       (* waiting for an interrupt                              *)
    sleeponexit,  (* the bit of the system control register                *)
    free,         (* length of every task's free queue                     *)
    ready,        (* its entries in the ready queue                        *)
    scheduled,    (* its entries in every monotonic's timer queue          *)
    late,         (* the late resources that have been written             *)
    tqs,          (* the timer queues that have been written               *)
    mono,         (* the monotonics that are Some                          *)
    failed,       (* the operation that has panicked or reached            *)
                  (* unreachable code, "nothing" so far                    *)
    events        (* counts towards MaxEvents                              *)

hardware == <<level, unmasked, pended>>
queues == <<free, ready, scheduled>>
statics == <<late, tqs, mono>>
rest == <<app, sleeponexit, failed>>
vars == <<app, main, primask, level, unmasked, pended, stack, asleep, sleeponexit,
          free, ready, scheduled, late, tqs, mono, failed, events>>

-----------------------------------------------------------------------------
(* The lines of an application and the priority declared for each.         *)
Binds(F) == {F[x].binds : x \in DOMAIN F}
Lines(a) == Range(a.interrupts) \cup Binds(a.hardware) \cup Binds(a.monotonics)

Declared(a, l) ==
    IF l \in Range(a.interrupts) THEN CHOOSE p \in DOMAIN a.interrupts : a.interrupts[p] = l
    ELSE IF l \in Binds(a.hardware)
    THEN a.hardware[CHOOSE t \in DOMAIN a.hardware : a.hardware[t].binds = l].priority
    ELSE a.monotonics[CHOOSE m \in DOMAIN a.monotonics : a.monotonics[m].binds = l].priority

(* What the other checks of rtic-syntax and check::app leave: a name means *)
(* one task, no dispatcher's interrupt is bound by a hardware task, and    *)
(* every software task has the dispatcher of its priority.                 *)
WellFormed(a) ==
    /\ IsFiniteSet(Names(a) \cup DOMAIN a.monotonics \cup DOMAIN a.resources)
    /\ a.idle \in BOOLEAN
    /\ DOMAIN a.software \cap DOMAIN a.hardware = {}
    /\ Names(a) \cap {"init", "idle", "main", "dispatcher", "timer"} = {}
    /\ Range(a.interrupts) \cap Binds(a.hardware) = {}
    /\ DOMAIN a.interrupts \subseteq 1..LEVELS
    /\ \A t \in DOMAIN a.software :
          a.software[t].priority \in DOMAIN a.interrupts /\ a.software[t].capacity \in Nat
    /\ \A t \in DOMAIN a.hardware : a.hardware[t].priority \in 1..LEVELS
    /\ \A m \in DOMAIN a.monotonics : a.monotonics[m].priority \in 1..LEVELS
    /\ \A c \in DOMAIN a.access : DOMAIN a.access[c] \subseteq DOMAIN a.resources

ASSUME AppsAssumption ==
    /\ \A a \in Apps : Accepted(a) /\ WellFormed(a)
    /\ "SysTick" \in Exceptions
    /\ LEVELS \in Nat \ {0} /\ MaxEvents \in Nat

-----------------------------------------------------------------------------
(* The code generator.  The order of a map's elements is that of its keys, *)
(* some fixed one.                                                         *)
Do(op, x) == [op |-> op, of |-> x]
ForEach(S, Code(_)) == FlattenSeq([i \in 1..Cardinality(S) |-> Code(SetToSeq(S)[i])])

(* Mutant: the interrupt is unmasked first, as in the book's example. *)
Configure_UnmaskFirst(l) == <<Do("unmask", l), Do("set_priority", l)>>

(* An interrupt is unmasked after its priority is set. *)
Configure(l) == <<Do("set_priority", l), Do("unmask", l)>>

(* Mutant: the interrupt of a monotonic keeps the priority of reset. *)
ConfigureMonotonic_NoPriority(a, m) ==
    <<Do("new_timer_queue", m)>>
      \o (IF a.monotonics[m].disable THEN <<>> ELSE <<Do("unmask", a.monotonics[m].binds)>>)

ConfigureMonotonic(a, m) ==
    <<Do("new_timer_queue", m), Do("set_priority", a.monotonics[m].binds)>>
      \o (IF a.monotonics[m].disable THEN <<>> ELSE <<Do("unmask", a.monotonics[m].binds)>>)

(* Mutant: SLEEPONEXIT whether or not there is an idle. *)
SleepOnExit_Always(a) == <<Do("sleep_on_exit", "")>>
SleepOnExit(a) == IF a.idle THEN <<>> ELSE <<Do("sleep_on_exit", "")>>

PreInit(a) ==
    LET IsException(t) == a.hardware[t].binds \in Exceptions
    IN  <<Do("disable", "")>>
          \o ForEach(DOMAIN a.software, LAMBDA t : <<Do("fill", t)>>)
          \o ForEach(DOMAIN a.interrupts, LAMBDA p : Configure(a.interrupts[p]))
          \o ForEach({t \in DOMAIN a.hardware : ~IsException(t)},
                     LAMBDA t : Configure(a.hardware[t].binds))
          \o ForEach({t \in DOMAIN a.hardware : IsException(t)},
                     LAMBDA t : <<Do("set_priority", a.hardware[t].binds)>>)
          \o ForEach(DOMAIN a.monotonics, LAMBDA m : ConfigureMonotonic(a, m))
          \o SleepOnExit(a)

(* Mutant: interrupts are enabled before the monotonics are stored. *)
PostInit_EnableEarly(a) ==
    ForEach(LiveLate(a), LAMBDA r : <<Do("write", r)>>)
      \o <<Do("enable", "")>>
      \o ForEach(DOMAIN a.monotonics, LAMBDA m : <<Do("store", m)>>)

PostInit(a) ==
    ForEach(LiveLate(a), LAMBDA r : <<Do("write", r)>>)
      \o ForEach(DOMAIN a.monotonics, LAMBDA m : <<Do("store", m)>>)
      \o <<Do("enable", "")>>

(* Mutant: without an idle, main comes to its end. *)
CallIdle_NoLoop(a) == IF a.idle THEN <<Do("idle", "")>> ELSE <<>>
CallIdle(a) == <<Do(IF a.idle THEN "idle" ELSE "wfi", "")>>

Main(a) == PreInit(a) \o <<Do("init", "")>> \o PostInit(a) \o CallIdle(a)

-----------------------------------------------------------------------------
Frame(l, c) == [line |-> l, context |-> c, locked |-> <<>>]

(* Reset: every line is masked and has the highest priority. *)
Init ==
    /\ app \in Apps /\ main = Main(app)
    /\ primask = FALSE /\ pended = {}
    /\ level = [l \in Lines(app) |-> LEVELS] /\ unmasked = {}
    /\ stack = <<Frame("main", "main")>> /\ asleep = FALSE /\ sleeponexit = FALSE
    /\ free = [t \in DOMAIN app.software |-> 0]
    /\ ready = [t \in DOMAIN app.software |-> 0]
    /\ scheduled = [m \in DOMAIN app.monotonics |-> [t \in DOMAIN app.software |-> 0]]
    /\ late = {} /\ tqs = {} /\ mono = {} /\ failed = "nothing" /\ events = 0

Current == Last(stack)

(* A program that has failed goes no further. *)
Runs == ~asleep /\ failed = "nothing"
Running(c) == Current.context = c /\ Runs
ReplaceCurrent(f) == stack' = Append(Front(stack), f)
Becomes(c) == ReplaceCurrent([Current EXCEPT !.context = c])

(* The statement `op` of main is next, and main runs. *)
Next_is(op) == Running("main") /\ Head(main).op = op
Of == Head(main).of
Done == main' = Tail(main)

-----------------------------------------------------------------------------
(* The statements. *)

disable_interrupts ==
    /\ Next_is("disable") /\ Done
    /\ primask' = TRUE
    /\ UNCHANGED <<hardware, queues, statics, rest, stack, asleep, events>>

(* (0..cap).for_each(|i| FQ.enqueue_unchecked(i)) *)
fill ==
    /\ Next_is("fill") /\ Done
    /\ free' = [free EXCEPT ![Of] = app.software[Of].capacity]
    /\ UNCHANGED <<hardware, ready, scheduled, statics, rest, primask, stack, asleep, events>>

set_priority ==
    /\ Next_is("set_priority") /\ Done
    /\ level' = [level EXCEPT ![Of] = Declared(app, Of)]
    /\ UNCHANGED <<unmasked, pended, queues, statics, rest, primask, stack, asleep, events>>

unmask ==
    /\ Next_is("unmask") /\ Done
    /\ unmasked' = unmasked \cup {Of}
    /\ UNCHANGED <<level, pended, queues, statics, rest, primask, stack, asleep, events>>

new_timer_queue ==
    /\ Next_is("new_timer_queue") /\ Done
    /\ tqs' = tqs \cup {Of}
    /\ UNCHANGED <<hardware, queues, late, mono, rest, primask, stack, asleep, events>>

sleep_on_exit ==
    /\ Next_is("sleep_on_exit") /\ Done
    /\ sleeponexit' = TRUE
    /\ UNCHANGED <<app, failed, hardware, queues, statics, primask, stack, asleep, events>>

call_init ==
    /\ Next_is("init") /\ Becomes("init")
    /\ UNCHANGED <<hardware, queues, statics, rest, main, primask, asleep, events>>

init_returns ==
    /\ Running("init") /\ Becomes("main") /\ Done
    /\ UNCHANGED <<hardware, queues, statics, rest, primask, asleep, events>>

write_late ==
    /\ Next_is("write") /\ Done
    /\ late' = late \cup {Of}
    /\ UNCHANGED <<hardware, queues, tqs, mono, rest, primask, stack, asleep, events>>

(* monotonics.i.reset(), then the monotonic is stored. *)
store_monotonic ==
    /\ Next_is("store") /\ Done
    /\ mono' = mono \cup {Of}
    /\ UNCHANGED <<hardware, queues, late, tqs, rest, primask, stack, asleep, events>>

enable_interrupts ==
    /\ Next_is("enable") /\ Done
    /\ primask' = FALSE
    /\ UNCHANGED <<hardware, queues, statics, rest, stack, asleep, events>>

call_idle ==
    /\ Next_is("idle") /\ Becomes("idle")
    /\ UNCHANGED <<hardware, queues, statics, rest, main, primask, asleep, events>>

(* loop { wfi() } *)
wfi ==
    /\ Next_is("wfi")
    /\ asleep' = TRUE
    /\ UNCHANGED <<hardware, queues, statics, rest, main, primask, stack, events>>

MainStep ==
    \/ disable_interrupts \/ fill \/ set_priority \/ unmask \/ new_timer_queue \/ sleep_on_exit
    \/ call_init \/ init_returns \/ write_late \/ store_monotonic \/ enable_interrupts
    \/ call_idle \/ wfi

-----------------------------------------------------------------------------
(* The interrupt controller. *)
CanHappen == events < MaxEvents
Happens == CanHappen /\ events' = events + 1

(* A device pends its interrupt whenever it likes; the system timer only   *)
(* with its interrupt enabled, other exceptions have no device.            *)
DevicePend(l) ==
    /\ l \notin pended /\ (l \in Exceptions => l = "SysTick" /\ l \in unmasked)
    /\ pended' = pended \cup {l} /\ Happens
    /\ UNCHANGED <<level, unmasked, queues, statics, rest, main, primask, stack, asleep>>

(* The handlers' constant PRIORITY and the ceilings of open sections are   *)
(* logical priorities; the NVIC goes by its registers.                     *)
Ceilings == {Ceiling(app, r) : r \in UNION {Range(stack[i].locked) : i \in DOMAIN stack}}
ActiveLevels == {level[stack[i].line] : i \in 2..Len(stack)}
Takeable == {l \in pended : /\ l \in unmasked \cup Exceptions
                            /\ \A p \in Ceilings \cup ActiveLevels : level[l] > p}

(* What a vector leads to: a hardware task, a dispatcher, the timer queue. *)
Vector(l) ==
    IF l \in Binds(app.hardware)
    THEN CHOOSE t \in DOMAIN app.hardware : app.hardware[t].binds = l
    ELSE IF l \in Range(app.interrupts) THEN "dispatcher" ELSE "timer"

Take(l) ==
    /\ l \in Takeable /\ ~primask /\ failed = "nothing"
    /\ \A k \in Takeable : level[k] <= level[l]
    /\ pended' = pended \ {l}
    /\ stack' = Append(stack, Frame(l, Vector(l)))
    /\ asleep' = FALSE
    /\ UNCHANGED <<level, unmasked, queues, statics, rest, main, primask, events>>

(* The exception return, with what SLEEPONEXIT makes of it. *)
Returned ==
    /\ stack' = Front(stack)
    /\ asleep' = (sleeponexit /\ Len(stack) = 2)

hardware_task_returns ==
    /\ Runs /\ Current.context \in DOMAIN app.hardware /\ Current.locked = <<>>
    /\ Returned
    /\ UNCHANGED <<hardware, queues, statics, rest, main, primask, events>>

-----------------------------------------------------------------------------
(* The dispatcher of a priority and its tasks. *)
Channel == {t \in DOMAIN app.software : app.software[t].priority = Declared(app, Current.line)}

dispatch(t) ==
    /\ Running("dispatcher") /\ t \in Channel /\ ready[t] > 0
    /\ ready' = [ready EXCEPT ![t] = @ - 1] /\ free' = [free EXCEPT ![t] = @ + 1]
    /\ Becomes(t)
    /\ UNCHANGED <<hardware, scheduled, statics, rest, main, primask, asleep, events>>

software_task_returns ==
    /\ Runs /\ Current.context \in DOMAIN app.software /\ Current.locked = <<>>
    /\ Becomes("dispatcher")
    /\ UNCHANGED <<hardware, queues, statics, rest, main, primask, asleep, events>>

dispatcher_returns ==
    /\ Running("dispatcher") /\ \A t \in Channel : ready[t] = 0
    /\ Returned
    /\ UNCHANGED <<hardware, queues, statics, rest, main, primask, events>>

-----------------------------------------------------------------------------
(* The handler of a timer queue. *)
TimerOf(l) == CHOOSE m \in DOMAIN app.monotonics : app.monotonics[m].binds = l
Dispatcher(t) == app.interrupts[app.software[t].priority]

timer_releases(t) ==
    /\ Running("timer")
    /\ LET m == TimerOf(Current.line)
       IN  /\ m \in mono /\ scheduled[m][t] > 0
           /\ scheduled' = [scheduled EXCEPT ![m][t] = @ - 1]
    /\ ready' = [ready EXCEPT ![t] = @ + 1]
    /\ pended' = pended \cup {Dispatcher(t)}
    /\ UNCHANGED <<level, unmasked, free, statics, rest, main, primask, stack, asleep, events>>

(* Nothing (more) is due: the compare match of the rest comes from the     *)
(* device; with an empty queue the interrupt is switched off.  Without a   *)
(* monotonic the handler is in unreachable_unchecked().                    *)
timer_returns ==
    /\ Running("timer")
    /\ LET m == TimerOf(Current.line)
           empty == \A t \in DOMAIN app.software : scheduled[m][t] = 0
       IN  /\ failed' = IF m \in mono THEN failed ELSE "timer handler"
           /\ unmasked' = IF empty /\ app.monotonics[m].disable
                          THEN unmasked \ {Current.line} ELSE unmasked
    /\ Returned
    /\ UNCHANGED <<app, sleeponexit, level, pended, queues, statics, main, primask, events>>

-----------------------------------------------------------------------------
(* What user code does in init, idle and the tasks. *)
InUserCode == Current.context \in Contexts(app) /\ Runs

pend(l) ==
    /\ InUserCode /\ Happens
    /\ pended' = pended \cup {l}
    /\ UNCHANGED <<level, unmasked, queues, statics, rest, main, primask, stack, asleep>>

(* With no free slot the caller gets its message back. *)
spawn(t) ==
    /\ InUserCode /\ free[t] > 0 /\ Happens
    /\ free' = [free EXCEPT ![t] = @ - 1] /\ ready' = [ready EXCEPT ![t] = @ + 1]
    /\ pended' = pended \cup {Dispatcher(t)}
    /\ UNCHANGED <<level, unmasked, scheduled, statics, rest, main, primask, stack, asleep>>

(* "Use of monotonic before it was passed to the runtime": now() panics. *)
now_panics(m) == m \notin mono

Panics(operation) ==
    /\ failed' = operation
    /\ UNCHANGED <<app, sleeponexit, hardware, queues, statics, main, primask, stack, asleep,
                   events>>

(* monotonics::now(), which changes nothing else. *)
now(m) == InUserCode /\ now_panics(m) /\ Panics("now")

(* Mutant: the baseline of spawn_after is always now(). *)
BaselinePanics_Now(m) == now_panics(m)

(* spawn_after counts from Instant::new(0) before the monotonic is stored, *)
(* and from now() after.                                                   *)
BaselinePanics(m) == m \in mono /\ now_panics(m)

(* TimerQueue::enqueue_unchecked; `first` if the entry comes in front. *)
spawn_after(m, t, first) ==
    /\ InUserCode /\ free[t] > 0 /\ Happens
    /\ LET empty == \A u \in DOMAIN app.software : scheduled[m][u] = 0
           l == app.monotonics[m].binds
       IN  IF m \notin tqs \/ BaselinePanics(m)
           THEN /\ failed' = "spawn_after"
                /\ UNCHANGED <<free, scheduled, unmasked, pended>>
           ELSE /\ empty => first
                /\ free' = [free EXCEPT ![t] = @ - 1]
                /\ scheduled' = [scheduled EXCEPT ![m][t] = @ + 1]
                /\ unmasked' = IF empty /\ app.monotonics[m].disable
                               THEN unmasked \cup {l} ELSE unmasked
                /\ pended' = IF first THEN pended \cup {l} ELSE pended
                /\ UNCHANGED failed
    /\ UNCHANGED <<app, sleeponexit, level, ready, statics, main, primask, stack, asleep>>

(* TimerQueue::update_marker, with the handle of an entry that waits.  The *)
(* handler is pended if the entry was or is now the first.                 *)
reschedule_at(m, t, first) ==
    /\ InUserCode /\ scheduled[m][t] > 0 /\ Happens
    /\ pended' = IF first THEN pended \cup {app.monotonics[m].binds} ELSE pended
    /\ UNCHANGED <<level, unmasked, queues, statics, rest, main, primask, stack, asleep>>

(* reschedule_after counts from now(), in init too. *)
reschedule_after(m, t, first) ==
    IF now_panics(m)
    THEN InUserCode /\ scheduled[m][t] > 0 /\ Panics("reschedule_after")
    ELSE reschedule_at(m, t, first)

(* A section of a proxy; nested ones end in the reverse order. *)
lock(r) ==
    /\ InUserCode /\ r \in Proxies(app, Current.context) /\ r \notin Range(Current.locked)
    /\ ReplaceCurrent([Current EXCEPT !.locked = Append(@, r)])
    /\ UNCHANGED <<hardware, queues, statics, rest, main, primask, asleep, events>>

unlock ==
    /\ Runs /\ Current.locked # <<>>
    /\ ReplaceCurrent([Current EXCEPT !.locked = Front(@)])
    /\ UNCHANGED <<hardware, queues, statics, rest, main, primask, asleep, events>>

(* Steps by which the processor gets on with what there is to do. *)
Progress ==
    \/ MainStep
    \/ hardware_task_returns \/ software_task_returns \/ dispatcher_returns
    \/ timer_returns
    \/ \E t \in DOMAIN app.software : dispatch(t) \/ timer_releases(t)
    \/ \E l \in Lines(app) : Take(l)

Next ==
    \/ Progress
    \/ \E l \in Lines(app) : DevicePend(l) \/ pend(l)
    \/ \E t \in DOMAIN app.software : spawn(t)
    \/ \E m \in DOMAIN app.monotonics : now(m)
    \/ \E m \in DOMAIN app.monotonics, t \in DOMAIN app.software, first \in BOOLEAN :
          \/ spawn_after(m, t, first)
          \/ reschedule_at(m, t, first) \/ reschedule_after(m, t, first)
    \/ \E r \in DOMAIN app.resources : lock(r)
    \/ unlock

Spec == Init /\ [][Next]_vars

(* Closures come to their end, nested ones too; and a processor that may   *)
(* get on again and again does so (SF: user code may go in and out of      *)
(* sections meanwhile).                                                    *)
Fairness ==
    /\ SF_vars(Progress)
    /\ \A n \in 1..2 : SF_vars(unlock /\ Len(Current.locked) = n)

FairSpec == Spec /\ Fairness

-----------------------------------------------------------------------------
TypeOK ==
    /\ app \in Apps /\ main # <<>>
    /\ level \in [Lines(app) -> 0..LEVELS]
    /\ unmasked \cup pended \subseteq Lines(app)
    /\ \A i \in DOMAIN stack :
          /\ stack[i].line \in IF i = 1 THEN {"main"} ELSE Lines(app)
          /\ stack[i].context \in Contexts(app) \cup {"main", "dispatcher", "timer"}
          /\ stack[i].locked # <<>> => Range(stack[i].locked) \subseteq DOMAIN app.resources
    /\ free \in [DOMAIN app.software -> Nat] /\ ready \in [DOMAIN app.software -> Nat]
    /\ late \subseteq DOMAIN app.resources
    /\ tqs \cup mono \subseteq DOMAIN app.monotonics
    /\ events \in 0..MaxEvents
    /\ {primask, asleep, sleeponexit} \subseteq BOOLEAN
    /\ failed \in {"nothing", "now", "reschedule_after", "spawn_after", "timer handler"}

Started(i) == stack[i].context \in Contexts(app)

(* A context that has started finds what its code reaches already written: *)
(* every slot of every task in its free queue or under way, and every      *)
(* timer queue; after init also its late resources and all monotonics.     *)
(* "It's important that these resources are fully initialized before tasks *)
(* are allowed to run" (book, late resources).                             *)
InitialisedBeforeUse ==
    \A i \in DOMAIN stack : Started(i) =>
       /\ \A t \in DOMAIN app.software :
             free[t] + ready[t]
               + MapThenSumSet(LAMBDA m : scheduled[m][t], DOMAIN app.monotonics)
               = app.software[t].capacity
       /\ tqs = DOMAIN app.monotonics
       /\ stack[i].context # "init" =>
             /\ mono = DOMAIN app.monotonics
             /\ {r \in DOMAIN app.access[stack[i].context] : app.resources[r].late}
                  \subseteq late

(* Nothing fails but a call in init that reads the clock, before anything  *)
(* else can run: spawn_after counts from zero there, and neither the timer *)
(* handler nor idle or a task misses a monotonic, although interrupts and  *)
(* entries may be there before the monotonic is.  reschedule_after has no  *)
(* such case for init: on a handle from init's own spawn_after it panics.  *)
FailsOnlyInInit ==
    failed # "nothing" =>
       /\ failed \in {"now", "reschedule_after"}
       /\ Len(stack) = 1 /\ Current.context = "init"

(* Every handler runs at the priority that the code it runs believes in:   *)
(* the register of its line holds what was declared.                       *)
RunsAtItsPriority ==
    \A i \in 2..Len(stack) : level[stack[i].line] = Declared(app, stack[i].line)

(* No priority changes while its interrupt can be pending and taken:       *)
(* "changing the priority of a pended interrupt is implementation defined" *)
(* (pre_init.rs), and the book's "remain fixed at runtime".                *)
PriorityFixed ==
    [][\A l \in DOMAIN level :
          l \in unmasked \/ l \in Exceptions \cap pended => level'[l] = level[l]]_vars

(* The references there are: those in the Context of a context that has    *)
(* started, what a section of a proxy gives out, a task's locals, and what *)
(* init keeps for ever.                                                    *)
Reference(i, c, x, mutable) == [owner |-> <<i, c>>, to |-> x, mutable |-> mutable]

Fields(i, c, S) ==
    {Reference(i, c, <<"resource", r>>, Field(app, c, r).kind = "mut") : r \in S}

Direct(c) == DOMAIN app.access[c] \ Proxies(app, c)
Kept == {r \in Direct("init") : Field(app, "init", r).forever}

HeldBy(i) ==
    LET c == stack[i].context
    IN  Fields(i, c, Direct(c))
          \cup {Reference(i, c, <<"resource", r>>, TRUE) : r \in Range(stack[i].locked)}
          \cup {Reference(i, c, <<"locals", c>>, TRUE)}

Live ==
    (UNION {HeldBy(i) : i \in {i \in DOMAIN stack : Started(i)}})
      \cup (IF \E k \in DOMAIN main : main[k].op = "init"
            THEN {} ELSE Fields(1, "init", Kept))

(* No `&mut` to a resource or a local while another context holds any      *)
(* reference to it: proxies by their ceilings, lock_free resources by      *)
(* equal priorities, task_local ones and locals because no task preempts   *)
(* itself, and 'static ones for ever.                                      *)
NoAliasing ==
    \A x, y \in Live : x.to = y.to /\ x.owner # y.owner => ~x.mutable /\ ~y.mutable

(* In the end what was pended, from reset on, has been served, and idle is *)
(* running; without an idle the processor sleeps.  Unless init has failed. *)
ComesToRest ==
    <>[](\/ failed # "nothing"
         \/ /\ Len(stack) = 1 /\ pended \cap unmasked = {}
            /\ IF app.idle THEN Running("idle") ELSE asleep)
=============================================================================
