# A formal model of cortex-m-rtic

This directory holds TLA+ modules that model the runtime of cortex-m-rtic
0.6.0-alpha.4 and the code its `#[app]` macro generates, configurations that
check them with TLC, and proofs that TLAPS checks. Paths such as
`src/src/export.rs` are relative to the directory that contains the repository
as `src/`; `PROJECT.json` maps each definition to the lines it models.

    tlc -config MCCriticalSections.cfg MCCriticalSections    # one run
    tlapm TimerQueueProofs.tla                               # proofs

## 1. The system

RTIC turns an application (tasks, resources, `init`, `idle`) into a program for
one Cortex-M core. There is no scheduler in software: tasks run in interrupt
handlers, the NVIC starts the handler of highest priority, and a handler runs
until it returns or a higher one preempts it. Everything shared between
handlers is a static in a `RacyCell`, which protects nothing. Protection is
either the masking of interrupts or an argument, in a comment or in the book,
that the accesses cannot overlap. Those arguments are what this project states
and checks.

| Component | State | Operations | Interacts with |
|---|---|---|---|
| Critical sections (`export.rs`) | BASEPRI, PRIMASK, the `Priority` cell of each context, the `initial` local of `run` | `run`, `lock` (ARMv7-M and the other targets), `logical2hw` | every task handler is wrapped in `run`; every resource proxy calls `lock` |
| Software tasks and dispatchers (`codegen/module.rs`, `dispatchers.rs`, `software_tasks.rs`) | per task a free queue `FQ` and a buffer `INPUTS`; per priority a ready queue `RQ`; the pending bit of the dispatcher | `spawn`, `spawn_at`, `cancel`, `reschedule_at`, the dispatcher's loop | callers at any priority, the timer handler, the ring buffer of heapless |
| Timer queue (`tq.rs`, `codegen/timer_queue.rs`) | the list of `NotReady` entries, the marker counter, the monotonic, the state of its interrupt | `enqueue_unchecked`, `cancel_marker`, `update_marker`, `dequeue`, the handler | the linked list, the `Monotonic` clock, the ready queues |
| Linked list (`linked_list.rs`) | an array of nodes, `head`, `free`, a `FindMut` handle | `push`, `pop`, `find_mut`, `FindMut::{pop, finish, drop, deref_mut}` | used by the timer queue only |
| Application checks and sizes (`check.rs`, `analyze.rs`, `codegen/util.rs`) | the application while it is expanded | `check::app`, `analyze::app`, `capacity_typenum`, the sums of capacities, the NVIC priorities | its results are the constants of the other components |
| Start-up (`pre_init.rs`, `init.rs`, `post_init.rs`, `idle.rs`) | the program's `main`, PRIMASK, priorities and enable bits of the NVIC, which statics are written | populate the free queues, set priorities, unmask, `init`, late resources, monotonics, enable, `idle` or `wfi` | all of the above |
| Generated interfaces (`module.rs`, `resources_struct.rs`, `resources.rs`, `locals.rs`) | none at run time: the fields of each `Context` | how a context reaches a resource (`&`, `&mut`, proxy) and for how long | start-up and the handlers build the contexts |
| Examples (`examples/`, `ci/expected/`) | whole applications | what they print | all of the above |

What is hard here, and hard to test: any instruction of a handler may be
followed by a whole higher handler, so an error needs a preemption between two
particular stores; the mask registers are shared, and each of `run`, nested
`lock`s and `interrupt::free` restores its own idea of them; no enqueue checks
for a full queue; messages and indices travel separately; the clock runs while
the timer queue looks at it. `PROJECT.json` lists these hazards, each at its
line with the properties that cover it.

What makes each component correct:

* critical sections: one owner of a resource at a time; no contender starts
  meanwhile; the mask is left as it was found; nothing is masked without need;
* software tasks: the slots of a task circulate without loss or duplication; a
  task gets the message it was spawned with; a ready entry is dispatched;
* timer queue: an entry that waits has an interrupt on its way; it is released
  in order, not early, and in the end;
* linked list: it is a sorted, bounded list, and its nodes are in one chain each;
* start-up: no context runs before what it reaches is written; every line has its
  priority before it is unmasked; interrupts that were pending since reset are
  served in the end;
* interfaces: no context holds a `&mut` to what another holds a reference to;
* checks and sizes: every software task has a dispatcher; the hardware orders
  handlers as their priorities do; the queues hold all that can be in them.

## 2. The modules

| Module | Models | Checked by |
|---|---|---|
| `CriticalSections` | `run`, `lock` and NVIC preemption | `MCCriticalSections` with two configurations |
| `CriticalSectionsProofs` | theorems about it | TLAPS |
| `SpscQueue` | the ring buffer of heapless (external) | through `SoftwareTasks` |
| `SoftwareTasks` | message passing between contexts, implements `TaskMailbox` | `MCSoftwareTasks`, three configurations |
| `SoftwareTasksProofs` | theorems about it | TLAPS |
| `TaskMailbox` | abstract specification of `SoftwareTasks` | as the property `ImplementsMailbox` |
| `SortedEntries` | the order of entries, shared by the next three | through them |
| `SortedList` | abstract specification of the list | as the property `ImplementsSortedList` |
| `LinkedList` | the array of nodes, implements `SortedList` | two configurations |
| `LinkedListProofs` | theorems about it | TLAPS |
| `TimerQueue` | `tq.rs`, its handler, the clock | `MCTimerQueue.cfg` |
| `TimerQueueProofs` | theorems about it | TLAPS |
| `AppGeneration` | checks, dispatcher assignment, sizes, NVIC priorities | two configurations |
| `AppGenerationProofs` | theorems about it | TLAPS |
| `Collections` | facts several proofs use: least elements, stacks, sequences with an element put in or taken out, and sums over finite sets as the folds of the community modules compute them | TLAPS |
| `ResourceAccess` | the fields of the contexts of an application | through `Startup` and `Runtime` |
| `Startup` | `main` and the contexts that interrupt it | `MCStartup` |
| `StartupProofs` | theorems about it | TLAPS |
| `Runtime` | a machine for whole applications | through `Examples` |
| `RuntimeProofs` | theorems about it | TLAPS |
| `Examples` | 37 programs of `examples/` | `Examples.cfg` |

Definitions named `<Operation>_<Change>` under a comment "Mutant" are faulty
variants of an operation that no specification uses. Put in the place of the
operation, each makes the property it is paired with in `PROJECT.json` fail,
which shows that the property can fail.

### CriticalSections

A context is `idle` or an interrupt handler. `pend`, `Take` and `Return` are the
NVIC: pending handlers, exception entry of the highest pending handler that
nothing masks, and the return to the context that was preempted. `RunEnter` and
`RunExit` are the two halves of `run` around the task. A `lock` is an action for
its first half and one for its second, in three variants each: `None` (the
dynamic priority already suffices), `Basepri`, and `FreeSection`
(`interrupt::free`: always without BASEPRI, and for the top level with it).
`locks[c]` is the stack of locals of the nested `lock` calls.

The `Priority` cell belongs to one context, so writing it and writing the
register are one action. Splitting them would add interleavings that no other
context can tell apart. `saved` is history: BASEPRI when a context was
interrupted. Handlers are pended at any time, by devices or by `rtic::pend`.

The assumptions on the constants are what rtic-syntax establishes (a ceiling no
user of the resource exceeds, no `lock_free` resource between priorities) and
what `pre_init` asserts (priorities up to `LEVELS = 1 << NVIC_PRIO_BITS`).
`NVIC_PRIO_BITS = 8` is excluded: there the literal `1 << 8` does not fit its u8
in `lock` and `logical2hw`.

### SoftwareTasks and SpscQueue

An action is what a context does without being preempted: a section of
`interrupt::free`, or one access outside any. So `spawn` is `SpawnClaim`
(dequeue from FQ), `SpawnWrite` (the message), `SpawnEnqueue` (RQ) and
`SpawnPend`; `spawn_at` ends with `ScheduleEnqueue` instead. `Runs(c)` is
preemption: a context moves while no other of its priority or above is in the
middle of something.

The free queue is the ring of heapless with its counters (`SpscQueue`), because
the dispatcher's enqueue into it is not in a critical section: `FreeLoad`,
`FreeStore` and `FreePublish` are its three accesses. The ready queue is a
sequence: all its producers are in `interrupt::free` and its one consumer only
moves the head. The timer queue is a set from which any entry may expire; its
order and the clock are in `TimerQueue`. `entry.sent` is history: the message
the entry was claimed for, to compare with what is read from the slot.

Tasks of one priority are modelled, with `Dispatcher` as their handler. `Callers`
are the contexts at other priorities. A task running on the dispatcher also
spawns and cancels. `Cancellers` are those that may call `cancel` and
`reschedule_at`.

`TaskMailbox` says what all of this is for: each task has a box of at most
`CAPACITY` messages, and one that was accepted is given out once, to the task or
to who cancels it. The refinement counts, for each task and message, the entries
that are queued or carried by a context that has not read the message yet.

### LinkedList, SortedList, SortedEntries

The array and its two heads are one record, and each operation of the code is a
function from record to record, because a call may perform several of them
(`FindMut::drop` pops and pushes). The memory of nodes is arbitrary before they
are written. A `FindMut` handle borrows the list, so while `found` is set only
its methods are called. `SortedList` is what the timer queue relies on:
`ImplementsSortedList` is the refinement, with `entries` the values along the
chain and `cursor` the position of the handle.

`peek` and `iter` change nothing and are used in definitions; the `Drop` of the
list never runs, since the list is in a static. Only kind `Min` is modelled.

### TimerQueue

Calls of the application are single actions, since each is a section of
`interrupt::free`. They may come before `post_init` (from `init`), while the
handler is idle, or between two iterations of its loop. The handler's section
`dequeue` is split at the readings of the clock: `DequeueDue` or `DequeueNotDue`,
then `SetCompare`, then `DequeueDue` or `Rechecked`; only `Tick` comes in
between. A compare match happens when the clock reaches `compare`, once; setting
a compare value that has passed produces none until the clock has come round,
which is the case the second reading is there for. `disable` is the trait's constant
`DISABLE_INTERRUPT_ON_EMPTY_QUEUE`; a run starts with either value.

The clock has `2 * Half` values and wraps around. `Earlier` is the comparison of
embedded-time: an instant is before another if that one comes within half the
range after it. This orders only instants less than half the range apart, so the
application has to keep deadlines (`Ahead`, and `Past` for those that are
over when they are enqueued) and the time it makes the handler wait (`Latency`)
within it: `Latency + Ahead < Half`. The clock stops for a handler that is about to run and is late by
`Latency`, and for nothing else: an entry that nothing announces becomes older and
older. A compare value that is left over from an earlier round matches again.

Assumed of a `Monotonic`, which is not in the repository: `reset` leaves the
timer counting from zero; `disable_timer` stops compare matches and
`enable_timer` resumes them; the clock itself goes on.

### AppGeneration

One behaviour per application, chosen in the initial state: software tasks with
priorities and capacities, extern interrupts in their order of declaration, one
hardware task. `check_app`, `analyze_app` and `codegen_app` are the stages of the
macro. A rejected application stops with an error, `panicked` stands for a
failed `expect` (or an overflow check) inside the macro.

### ResourceAccess and Startup

An application is a record with the facts the code generator works from: tasks,
lines, monotonics, resources and which context uses which. `Accepted` is what
rtic-syntax and the Rust compiler let through about resources, `WellFormed` what
the other checks establish: a name means one task, priorities are within
`LEVELS`, every software task has its dispatcher, whose interrupt is nobody
else's. `Field` is `resources_struct::codegen`:
a proxy, `&mut` or `&`, for ever (`'static`) or for the call.

`Main(a)` is the sequence of statements the generator emits for `main`; `PreInit`,
`PostInit` and `CallIdle` are its parts, in the order of the code. Each statement is one
action, and interrupts pended by devices at any time, from reset on, come between
them. Handlers are hardware tasks, dispatchers and timer handlers; in
user code (`init` too) a context may pend, spawn, schedule, reschedule, lock and read
the clock. Queues are counters here. `failed` names the operation that has reached
what the code calls unreachable, or has panicked because `now()` found no monotonic:
`now` and `reschedule_after` do so in `init` (section 5). A program that has failed
makes no step of its own any more; `ComesToRest` is about those that have not.
`Live` is the set of references there are at a moment: those in
the contexts that have started, those a section of a proxy gives out, locals,
and the `'static` ones `init` may keep.

An exception such as SysTick cannot be masked in the NVIC: its handler is held
back by PRIMASK only, which is what makes the order of `post_init` matter.

### Runtime and Examples

`Runtime` is a small machine whose instructions are what RTIC code does: print,
add, pend, spawn, spawn_after, lock, unlock, exit. It puts together what the
detailed modules promise: preemption by priority, sections that mask up to a
ceiling, queues in order with a bounded number of slots, releases by deadline.
`Examples` translates the programs of `examples/`, each with the output that
`ci/expected/` records where there is one; the output is compared line by line. When nothing is
recorded the programs still have to exit and not to panic where they
`unwrap`. Where two handlers of one
priority are pended, the order is the NVIC's (lower line first) and is left open.

`RuntimeAssumption` is what a program that compiles has: its resources and names are
those of the sections above (`Accepted`, `WellFormed`), it spawns tasks and pends
lines that there are, and locks what its context has a proxy for (`Compiles`).
`Compiles` looks through the branches of conditionals, which nest two deep at most in
what it accepts. TLC evaluates the assumption on all the examples.

## 3. The runs

| Run | Bounds | Shows |
|---|---|---|
| `critical_sections` | 4 levels, `idle` and 5 handlers, one per level and two on level 2; 3 resources with ceilings 2, 3, 4; one `lock_free` | `MutualExclusion`, `NoContenderStarts`, `BasepriInvariant`, `NoOverBlocking` on ARMv7-M. Nesting mixes BASEPRI under PRIMASK and the reverse, and preemption reaches depth 4 |
| `critical_sections_v6` | 3 handlers, 2 resources, without BASEPRI, with fairness | `MutualExclusion`, `NoOverBlocking`, `InversionEnds`. `NoContenderStarts` is proved for this target too |
| `software_tasks` | one task of capacity 2, callers below and above the dispatcher, 2 messages, 2 markers, counters modulo 4 | `SlotsConserved`, `MessageIntact`, `NoLostWakeup`, `ImplementsMailbox` |
| `software_tasks_fair` | two tasks of capacity 1 | `EventuallyDispatched` |
| `software_tasks_cancel` | a canceller above the dispatcher | `SlotsConserved` fails, see section 5 |
| `linked_list` | 3 nodes, 3 instants, 2 markers | `NodesPartitioned`, `ChainInOrder`, `ImplementsSortedList` |
| `linked_list_pop_changed` | the same, 2 instants | `PopRemovesEntry` fails, see section 5 |
| `timer_queue` | 3 entries, a clock of 8 values, deadlines from 1 tick ago to 2 ahead, a latency of 1 tick, 4 calls | `EntriesAreArmed`, `ReleasedInOrder`, `SilentWhenEmpty`, `EventuallyReleased` |
| `app_generation` | 2 tasks, priorities 1, 3, 4 and one too high, 4 levels, up to 3 extern interrupts | `DispatchersAssigned`, `HardwareOrder`, `QueuesLargeEnough`, `NeverPanics` |
| `app_generation_capacity` | capacities of 128 and 129 | `NeverPanics` fails, see section 5 |
| `startup` | 3 applications: proxies, late and `'static` resources with hardware tasks; a monotonic on an interrupt that starts switched off, no `idle`; a monotonic on SysTick between two dispatchers. 6 events | `InitialisedBeforeUse`, `FailsOnlyInInit`, `RunsAtItsPriority`, `PriorityFixed`, `NoAliasing`, `ComesToRest` |
| `examples` | 37 programs (36 initial states: two are the same program to the model), 4 seconds | `PrintsExpected`, `UnwrapsSucceed`, `HeldAlone`, `Finishes` |

Why the bounds are enough. In `critical_sections` each of the three variants of
`lock` occurs inside each other one that can contain it, with a handler between
and above the ceilings; the theorems of section 6 do not depend on the bounds.
In `software_tasks` the counters wrap, both slots are under way at a time, and
three contexts can be in the middle of a call; the ring of 2 under counters
modulo 4 has the proportions of one of 128 under 256. Three nodes give the list a
first, an inner and a last one, and all orders of equal and different instants.
In `timer_queue` the clock goes round for ever, so deadlines lie on both sides of
the wrap-around, entries wait across it, and old compare values match again; the bound on calls is needed for
liveness as well, because a caller that schedules in the past for ever starves
the later entries. In `startup` six events let a device pend before
priorities are set, init schedule, and handlers at all levels nest; each of the
three applications reaches all of its handlers. `startup` (its events are
bounded), `examples` (programs exit) and `AppGeneration` (the macro comes to its
end) stop, and deadlock is not checked there.

Markers and messages are permuted symmetrically in the safety runs of
`SoftwareTasks`; they are compared for equality only. No run with a liveness
property uses symmetry.

## 4. Fairness

* `CriticalSections`: closures given to `lock` and tasks return (strong fairness
  per context and resource, as preemption disables the step); the NVIC does not
  overlook a handler it may start again and again. Nobody has to pend anything.
* `SoftwareTasks`: calls, tasks and the two handlers come to their end, with
  strong fairness because tasks above take the processor away and give it back.
  A task is not required to stop spawning, an entry is not required to expire.
* `TimerQueue`: `init` returns, time passes, and a pending unmasked interrupt is
  served, within `Latency`.
* `Startup`: the processor goes on with `main`, handlers and returns (`Progress`), and
  closures given to `lock` end. No device or task has to ask for anything.
* `Runtime`: the processor executes the next instruction.

The first two are obligations of the application: a task that never returns, or
an overloaded processor, is outside RTIC's promise.

## 5. Disagreements between text and code

1. **Two producers of a free queue** (`software_tasks_cancel`). The dispatcher
   returns a slot without a critical section (`dispatchers.rs:94`), and the book
   says that it "has exclusive access to the producer endpoint of this queue".
   Since `cancel` exists it also enqueues there (`module.rs:344`). If a task that
   preempts the dispatcher cancels between its accesses, one slot is overwritten
   and lost. `software_tasks` shows that everything holds when no canceller
   preempts the dispatcher.
2. **`FindMut::pop` after a change** (`linked_list_pop_changed`) pops a second
   time when the handle is dropped. The timer queue does not do this, so
   `linked_list` excludes it with `PopsChanged = FALSE`.
3. **A capacity above 128** (`app_generation_capacity`) reaches an `expect` whose
   message is "UNREACHABLE".
Seen, and excluded from a property: `reschedule_after` in `init`. `spawn_after`
works there: "This will use the time `Instant::new(0)` as baseline if called in
`#[init]`" (`module.rs:377`). `reschedule_after` on the handle it returns has no such
case: it calls `now()` (`module.rs:358`), which panics until `post_init` has stored
the monotonic. `examples/t-schedule.rs:31-33` makes exactly these two calls in
`init`; the program is only compiled. `Startup` has this step and this panic, so
"nothing ever fails" does not hold. What holds, and what the `startup` run checks
and `StartupProofs` proves, is `FailsOnlyInInit`: a failure is a panic of `now()`,
asked for by `init` itself, directly or through `reschedule_after`, while
interrupts are disabled. It never comes from `spawn_after`, from the timer
handler, or from anything that runs after `init`.

Seen, and harmless: an entry with the same instant as the first goes in front of
it without pending the handler, where the book says the handler is pended "if the
new entry ended up first"; the compare value is right all the same, as
`EntriesAreArmed` shows. The book's "priority of the system timer can't be set by
the user" predates `monotonic.args.priority` in `pre_init.rs`; `check.rs:31-32`
mentions an interrupt for the timer queue handler that is no longer counted. The
sum of capacities (`timer_queue.rs:65`) is a u8: two capacities of 128 panic the
macro if it was built with overflow checks (the default of `AppGeneration`'s
configurations), and without them give the timer queue no node. The book's
chapter on interrupt configuration shows lines enabled before their priority is
set; the code does the reverse, and says why. `ci/expected/schedule.run` and
`periodic.run` are outputs of older programs. `t-schedule.rs` also calls `now()` itself
in `init` and unwraps a second spawn of a task of capacity 1. Comments in `t-resource.rs` say "no `Mutex` proxy" of fields that
are proxies.

## 6. What is proved

### Critical sections

`CriticalSectionsProofs` proves, for every set of handlers, every number of
priority levels up to 128, every assignment of priorities, resources and
ceilings that meets the assumptions, and both targets:

* `TypeCorrect`: `Spec => []TypeOK`;
* `MutualExclusionHolds`: `Spec => []MutualExclusion`;
* `NoContenderStartsHolds`: `Spec => NoContenderStarts`, an action property;
* `BasepriInvariantHolds`: `Spec => []BasepriInvariant`;
* `Invariance`: `Spec => []Inv`, on which they rest.

None of the properties is inductive. That a handler about to start meets no
held resource depends on BASEPRI covering the ceiling of every resource held
*anywhere* on the stack of preempted contexts, while the code only ever writes
the ceiling of the running context's own innermost lock. `Inv` says why this is
enough:

* `StackInv`: active contexts have distinct priorities and end in `idle`; the
  running one is the highest, and each preempted the next lower one;
* `FrameInv`: for each context and each of its nested sections, the section's
  ceiling is at most the context's dynamic priority (the `Priority` cell), every
  frame remembers the priority it will give back, the cell is back at the static
  priority when no section is open, and the BASEPRI value the context sees masks
  exactly up to the cell (`Masks`);
* `LevelInv`: any active context above another started above that one's dynamic
  priority, hence above the ceiling of whatever it holds;
* `MaskInv`: an active context's dynamic priority is the maximum exactly when it
  is the running one and PRIMASK is set (an `interrupt::free` section is open);
* `RestoreInv`: the BASEPRI value in force at a preemption is kept: by the
  handler outside its body, by the `initial` that `run` stored inside it, and it
  is 0 when the handler has priority 1, where `run` writes 0 unread;
* `HardwareInv`: BASEPRI and the values kept of it are encodings of a logical
  priority, and stay 0 on a target without the register.

Together with the lemma `HardwareLevels` (the encoding reverses the order of the
levels and 0 means no mask), a handler that the hardware lets through is above
the dynamic priority of every active context.

The last part is the converse, `NoOverBlockingHolds`: `Spec =>
[]NoOverBlocking`. Its invariant, `BlockInv`, says that each raise of a context's dynamic
priority is explained: the cell is the static priority or the ceiling of a
section that is open, every frame remembers a value explained by the sections
around it, and BASEPRI never masks above the cell.

The assumptions are those of the constants only. `SequenceTheorems` of the
library supplies the facts about `Append` and `SubSeq`.

### Software tasks

`SoftwareTasksProofs`, for every set of tasks, capacities from 1 to 128, callers,
cancellers and priorities:

* `TypeCorrectness`: `Spec => []TypeOK`. `TypeOK` is not inductive: an index
  taken from the ready queue or the timer queue is put into the free queue of
  the task the entry names, and indexes that task's buffer. `TypeInv` adds that
  every entry under way carries an index of its own task, in the queues and in
  the locals of each context that carries one (`SlotEntries`, `TimerSlots`,
  `Calls`). The lemma `RingTypes` gives the operations of the ring buffer;
* `NoLostWakeupHolds`: `Spec => []NoLostWakeup`, inductive once the program
  counters are typed.

Both hold whoever cancels, also in the case of section 5.1: a slot may be lost,
but no index ever gets out of range and no wakeup is lost.

The others are about systems where no context that may cancel has a priority above
the dispatcher's (`CancelledBelow`). This hypothesis is the exact complement of
section 5.1: with such a canceller `SlotsConserved` is false, and run
`software_tasks_cancel` shows it. Spawners, devices and the timer handler keep
whatever priority they have.

* `SlotsConservedHolds`: `Spec => []SlotsConserved`. A slot is a set of places:
  positions of the free queue, of the ready queue, entries of the timer queue and
  contexts. `SlotInv` says that exactly one of the four sets of places is not
  empty and has one element (`OneOf`), which each operation keeps by renumbering
  the places (`Keeps`) or moving one of them; nothing is counted. The one count
  is `Room`: by the pigeonhole principle a free queue that lacks a slot is not
  full, so that the unchecked enqueue of an index never overwrites another.
  `ReturnInv` is about the dispatcher between its three accesses to the free
  queue: the tail it loaded is still the queue's, which is what a canceller above
  it would break;
* `MessageIntactHolds`: `Spec => []MessageIntact`, by `MessageInv`: every entry
  under way, wherever it is, finds its message in its slot, because a slot that
  is being written is in no other place;
* `MailboxImplemented`: `Spec => ImplementsMailbox`, the refinement. Each step of
  the system leaves the mailbox alone, puts one message in or takes one out
  (`MailStays`, `MailComes`, `MailGoes`); the box, a bag of messages, is the
  number of places that hold each message (`OutstandingIs`, by bijections between
  the places before and after). That the box never holds more than `CAPACITY`
  (`BoxNotFull`) sums these numbers over the messages, hence its hypothesis
  that the set of messages is finite, which a bag needs to have a size at all;
* `QueuesBoundedHolds`: for finitely many tasks, a free queue never holds more than
  its task's capacity, nor the ready queue and the timer queue together more than the
  sum of the capacities: each entry names another slot (`SlotsApart`), so the entries
  inject into the slots (`AsMany`, `SlotsCounted`). None of the enqueues checks for
  room; this and `QueuesLargeEnough` of `AppGeneration` are why they need not. It is
  also why the model may have a ready queue without an end.

`RingAssumption` is what `u8` indices and heapless' rings of a power of two
provide: a ring is shorter than the counter's range and divides it. `RingsFitHolds`
of `AppGenerationProofs` shows that what is generated is so.

### Linked list

`LinkedListProofs`, for every capacity that a u16 index allows, every set of
instants and markers and whatever the memory held before:

* `TypeCorrect`, `NodesPartitionedHolds`, `ChainInOrderHolds`: `Spec => []TypeOK`,
  `[]NodesPartitioned`, `[]ChainInOrder`;
* `SortedListImplemented`: `Spec => ImplementsSortedList`, the refinement, one
  lemma for each call (`PushSorted`, `PopSorted`, `FindSorted`, `DerefSorted`,
  `FoundPopSorted`, `FinishSorted`).

All have the hypothesis `~PopsChanged`: the client does not pop what it has changed
through the same handle, as the timer queue does not. It cannot be dropped, see
section 5.2.

`NodesPartitioned` speaks of the nodes that a walk along the links meets, and a walk
says nothing about itself: each step of it may be redirected by any write to
`next`. The inductive invariant `ListInv` says instead that there are two sequences
of nodes, that between them they hold each node once (`Parts`), and that the links
and the heads lead along them and end (`Path`); and that a live handle is at a
position of the first, with its predecessor (`Points`). TLC confirmed it on the
run `linked_list`. `FollowsPath` shows that the walk then is the sequence: a least
number of steps after which it differed would have to follow a wrong link.

An operation on the links is `PutIn` on one sequence and its converse on the other
(`PathWith`, `PathWithout`, `Moved`). `Claimed` and `Released` put these together:
a node goes from the front of the free chain to position k of the list, or back.
What the operations do to the entries follows, because a position determines the
sequence with an element put in (`PutOnce`) or taken out (`TakenOnce`): the scan
of `push_unchecked` stops where `Place` puts the entry (`Spot`, `PlaceIs`), and
removing a node removes the entry at its position. The order is then a fact about
`SortedList` alone (`PlaceOrdered`, `RemoveOrdered`): while an entry is being
changed, the others are in order (`OrderInv`).

### Timer queue

`TimerQueueProofs`, for every capacity, number of calls, width of the clock and
`Past`, `Ahead`, `Latency` with `Latency + Ahead < Half`:

* `TypeCorrectness`, `EntriesAreArmedHolds`, `SilentWhenEmptyHolds`:
  `Spec => []TypeOK`, `[]EntriesAreArmed`, `[]SilentWhenEmpty`;
* `ReleasedInOrderHolds`: `Spec => ReleasedInOrder`, an action property;
* `Invariance`: `Spec => []QueueInv`, on which they rest.

The argument goes round: the order of the entries is only an order while all
deadlines are within half the clock's range (`Ordered`, `Near`); they stay there
because the clock is held up by the handler's latency only when the handler is on
its way (`Tick`); and it is on its way because the first entry in the order is
armed (`Armed`). So the three are proved together. The other parts are `Switches`
(an entry in the queue has the interrupt enabled), `Loop` (between `set_compare`
and the second reading of the clock the compare value is the head's instant) and
`Quiet`. The lemmas `LeftIs`, `EarlierIs`, `FutureIs` and `TickIs` take the modulus
out of the clock's arithmetic; `PlacedIs`, and `Inserted` and `Removed` of `Collections`, say what
`PlaceBy` and `RemoveAt` do to a sequence, of any length. `EarlierIs` is where
the distance of deadlines is used: with a wider range the order is lost, which is
the application's to see to.

### Checks and assignment

`AppGenerationProofs`, for every finite set of tasks and every application:

* `DispatchersAssignedHolds`: the priorities in use are ranked one to one, and no
  more than the declared interrupts, once `check::app` has counted them (lemma
  `Ranks`, by cardinalities);
* `HardwareOrderHolds`: `logical2hw` reverses the order of the levels for each
  number of priority bits (`LevelsTurned`);
* `QueuesLargeEnoughHolds`: where the macro is built with overflow checks, the
  queues generated hold all that can be in them: the sums of capacities over
  the tasks of a priority, and over all tasks, are sums of natural numbers that
  passed the checks (`CapacitiesAdd`), and rounding up makes them no smaller
  (`RoundedUp`);
* `NeverPanicsHolds`: `Spec => [](Fits => NeverPanics)`, in both builds. `NeverPanics`
  by itself is false for some applications (section 5.3). `Fits` says which they are:
  a capacity above 128, a sum over one priority above 128, or over all tasks above
  255, which are the only things the code generator takes for granted that no check
  has established;
* `GeneratedFits`: the converse with overflow checks: what is generated fits;
* `RingsFitHolds`: what is generated meets the assumptions of `SoftwareTasks`: its
  rings are those of `SpscQueue`, with capacities up to 128 and counters of eight bits;
* `TypeCorrect`: `Spec => []TypeOK`, in both builds.

Without overflow checks `QueuesLargeEnough` is false in general: a sum wraps
around.

### Start-up

`StartupProofs`, for every set of applications that `Accepted` and `WellFormed`
describe (`AppsAssumption`): any finite sets of tasks, resources and monotonics, any
priorities, and whatever interrupts come.

* `TypeCorrect`: `Spec => []TypeOK`;
* `InitialisedBeforeUseHolds`, `FailsOnlyInInitHolds`, `RunsAtItsPriorityHolds`,
  `NoAliasingHolds`: `Spec => []P` for the four invariants of the run;
* `PriorityFixedHolds`: `Spec => PriorityFixed`, an action property;
* `Invariance`: `Spec => []StartInv`, on which they rest. TLC confirmed `StartInv`
  on the applications of `MCStartup` before it was proved.

The first part of the argument is about the generated program itself, with no
behaviour in it. `ForEach` joins a block of statements per element; `Joined` says
that every statement of the result lies in a block that is there from its start
and that every block is there (`FlattenSeqJoins`), so that a statement that
precedes another in its block precedes it in `main`. `MainIs` follows: the stages
of `main` come in their order (`Ordered`: `disable`, preparations, `init`, late
resources and monotonics, `enable`, `idle` or `wfi`), every line is configured,
every queue filled and every late resource written (`Complete`), and the priority
of a line is set before the line is unmasked.

The second part is that running `main` keeps this. `StartInv` relates what is left
of `main` to what has been done:

* `Steps`: what is left is still in the order of the stages;
* `Configured`, `Supplied`: a line has its priority, a timer queue, monotonic or
  late resource is there, or the statement that provides it is still ahead; a line
  that is unmasked has its priority;
* `Counted`: the slots of a task add up to its capacity from `fill` on. The sum
  over the timer queues is a fold, which `TotalChanged` of `Collections` follows when one
  entry comes or goes;
* `Phases`: before the last statement only `main` and `init` run, at first because
  nothing is unmasked, then because PRIMASK is set; what has failed is a reading of
  the clock in `init`, because nothing that comes after `init` meets a monotonic
  that is not stored;
* `Frames`: a handler on the stack is one of its line, and its line's priority is
  above those of the handlers below it and above the ceilings of all that they,
  `init` or `idle` have locked.

So a handler runs only when `main` is down to its last statement, and then
everything is done. `NoAliasing` takes two references to one resource, one of them
exclusive. If the resource is `task_local`, both are of one context, which does not
preempt itself. If it is `lock_free`, their contexts have the same priority, while
the frames that have started rise in priority (`Rising`). Otherwise both hold it by
a lock, the lower one masks up to a ceiling that is at least the other's priority
(`CeilingIs`), and the other cannot have started (`LockedAlone`).

### Runtime

`RuntimeProofs`, for every set of programs that `RuntimeAssumption` describes, any
code in their tasks, and any `MaxTime`:

* `TypeCorrect`: `Spec => []TypeOK`: contexts of the application are on the stack, and
  the free slots of a task and its messages in the two queues add up to its capacity;
* `HeldAloneHolds`: `Spec => []HeldAlone`, and from it `MutualExclusion`: no two
  contexts on the stack are inside sections on one resource;
* `NoLostWakeup`: a message in a ready queue has its dispatcher pended or on the stack;
* `UnwrapsFailOnlyWhenFull`: a program panics only if every slot of some task held a
  message that waits. `UnwrapsSucceed` itself is about particular programs: one that
  spawns twice what it has one slot for does panic;
* `DeadlinesInOrder`: what is scheduled waits in the order of its instants, none of
  which has passed, and the clock does not go back;
* `StackBoundedHolds`: one stack is enough, and it never holds more handlers than
  there are priorities of handlers;
* `Invariance`: `Spec => []RuntimeInv`, on which they rest. TLC confirmed it on the
  examples.

`HeldAlone` is not inductive. A dispatcher that runs above a section replaces itself
by a task, and that the task is no user of the resource follows from its priority
being the dispatcher's: `StackInv` ties each context to the line it is run for (`Serves`)
and the rest of its code to the program, so that what it holds and what it locks next
it has a proxy for (`InCode`). `LevelInv` says that each line on
the stack is above those below it and above the ceilings of all they hold; `lock`
keeps it because only the top of the stack locks, and `Take` because it compares with
exactly these. `QueueInv` says that every message in a ready queue is one of
that priority, and counts slots: each step that moves a message changes the sets
of positions `Waiting` counts by one element, and the others are renumbered
by bijections (`OneMore`, `OneAppended`, `OneInserted`, `OneTaken`). `PanicInv` is
what a failed `unwrap` leaves behind. `TimeInv`, about instants, is proved by
itself; a position is right for `InsertAt` because in an ordered queue the earlier
entries are the first ones (`EarlierOnes`).

### Collections

The community modules sum over a set with a fold, defined by a recursive function
that `CHOOSE`s its next element. What such a definition computes is found without
an induction rule (those take an operator as a parameter, which the provers cannot
instantiate): `Least` says that every nonempty set of naturals has a least element,
from the well-foundedness theorem `WFMin` of the library, and a recursion that two
functions satisfy has the same solution because no least argument tells them
apart. `Collections` shows in this way that the fold is `Total`, the only sum there is,
that it adds up the sizes of disjoint sets (`TotalOfSizes`), is a natural number
(`TotalIsNatural`), and changes by as much as one of its terms (`TotalChanged`).

### Only model-checked

* `PrintsExpected` and `UnwrapsSucceed` of `Examples`: they compare particular
  programs with what is recorded of them, and are not true of all programs;
* `NeverPanics` of `AppGeneration` without the hypothesis `Fits`: the applications of
  `app_generation` all fit;
* all liveness (`InversionEnds`, `EventuallyDispatched`, `EventuallyReleased`,
  `ComesToRest`, `Finishes`). Fairness and ENABLED are out of the prover's reach.

## 7. Not modelled

* Programs of `examples/` that only have to compile, and whose behaviour says nothing
  about the runtime (`smallest`, `big-struct-opt`, `type-usage`, `t-binds`, the
  `t-cfg` ones, `t-late-not-send`, `t-schedule`, `peripherals-taken`), and
  the ui tests: they test the Rust compiler's view of the generated code.
* Name mangling, attributes, Send and Sync assertions: types without behaviour.
* What is outside the repository: rtic-syntax, heapless (its queue is
  `SpscQueue`), the monotonics and embedded-time.
* Two corner cases: a list without nodes (`LinkedList::new`), which refuses every
  push, and an application without the `device` argument (`check.rs`), which the
  macro rejects.
* Wrap-around of markers, which needs 2^32 calls during the life of a handle.
* `Barrier` in `export.rs`, which has no user.
* Time and message order together in full detail: `TimerQueue` has the clock,
  `SoftwareTasks` the slots, and `Runtime` composes what they promise, not
  their steps; the product of both is too large to check.

## 8. Plan

Done, in this order: `CriticalSections` and its proofs; `SortedEntries`,
`SortedList`, `LinkedList`; `SpscQueue`, `SoftwareTasks`; `TimerQueue`;
`AppGeneration`; `ResourceAccess`, `Startup`; `Runtime`, `Examples`; the clock of
`TimerQueue` wraps around; `TaskMailbox`.

The proofs of `NoOverBlocking`, of the type invariant and `NoLostWakeup` of
`SoftwareTasks`, of `TimerQueue` and of the assignment in `AppGeneration` followed.

Then `SlotsConserved`, `MessageIntact` and the refinement of `TaskMailbox`, and the
sizes and the type of `AppGeneration`.

Then start-up: the order of `main`, and that no references alias.

Then the chains of `LinkedList`, their order, and that it implements `SortedList`.

Then the safety of `Runtime`, for all programs; for which applications the code
generator does not panic; and two of the interfaces between modules: that the sizes
that are generated are those `SoftwareTasks` assumes, and that no queue outgrows them.

What is left is to state the other interfaces as refinements: `SoftwareTasks` with
`TimerQueue` for its set of entries, and `Runtime` as what `CriticalSections`,
`SoftwareTasks` and `TimerQueue` implement together. Each needs a module with the
state of both sides, for TLC to look at first, and an argument about steps of one that
are several steps of the other.
