------------------------------- MODULE Runtime -------------------------------
(***************************************************************************)
(* A small machine that runs whole applications: the contexts of one       *)
(* application on one core, their locks, messages and deadlines, with the  *)
(* code of each task as a sequence of instructions.  It is what the        *)
(* detailed modules promise together: preemption by priority, sections     *)
(* that mask up to a ceiling (CriticalSections), messages in order through *)
(* slots that are limited by a capacity (SoftwareTasks), releases in the   *)
(* order of deadlines (TimerQueue).                                        *)
(***************************************************************************)
EXTENDS ResourceAccess, Sequences, SequencesExt

CONSTANTS
    Apps,         (* records as in ResourceAccess, with four more fields:  *)
                  (* `code` of every context and of idle's `loop`, `memory`*)
                  (* for resources and statics, `expected`, the outputs    *)
                  (* there may be ({} if nothing is recorded), and `exits` *)
    MaxTime       (* bound on the clock                                    *)

(* What the other checks leave, as in Startup. *)
Lines(a) == Range(a.interrupts) \cup {a.hardware[t].binds : t \in DOMAIN a.hardware}

WellFormed(a) ==
    /\ a.idle \in BOOLEAN
    /\ DOMAIN a.software \cap DOMAIN a.hardware = {}
    /\ Names(a) \cap {"init", "idle", "loop", "wfi", "dispatcher"} = {}
    /\ Range(a.interrupts) \cap {a.hardware[t].binds : t \in DOMAIN a.hardware} = {}
    /\ IsInjective(a.interrupts) /\ "main" \notin Lines(a)
    /\ DOMAIN a.interrupts \subseteq 1..255
    /\ \A t \in DOMAIN a.software :
          a.software[t].priority \in DOMAIN a.interrupts /\ a.software[t].capacity \in Nat
    /\ \A t \in DOMAIN a.hardware : a.hardware[t].priority \in 1..255

(* The blocks of a context's code: conditionals nest two deep at most.     *)
Branches(S) ==
    S \cup UNION {{i.then, i.else} : i \in {j \in UNION {Range(s) : s \in S} : j.op = "when"}}
Blocks(a, c) ==
    Branches(Branches({a.code[c]} \cup (IF c = "idle" THEN {a.code["loop"]} ELSE {})))
Instructions(a, c) == UNION {Range(s) : s \in Blocks(a, c)}

(* The code compiles: there are the tasks it spawns, handlers for what it  *)
(* pends, and in the context a proxy for each resource it locks.           *)
Compiles(a, c) ==
    /\ Branches(Blocks(a, c)) = Blocks(a, c)
    /\ \A s \in Blocks(a, c) : s \in Seq(Instructions(a, c))
    /\ \A i \in Instructions(a, c) :
          /\ i.op \in {"spawn", "spawn_after"} => i.task \in DOMAIN a.software
          /\ i.op = "spawn_after" => i.delay \in Nat
          /\ i.op = "pend" => i.line \in Lines(a)
          /\ i.op = "lock" => i.resource \in Proxies(a, c)

ASSUME RuntimeAssumption ==
    /\ MaxTime \in Nat
    /\ \A a \in Apps :
          /\ Accepted(a) /\ WellFormed(a)
          /\ DOMAIN a.code = {"loop"} \cup Contexts(a)
          /\ \A c \in Contexts(a) : Compiles(a, c)

VARIABLES
    app,
    stack,        (* frames: main at the bottom, then active handlers      *)
    primask,      (* interrupts are disabled                               *)
    pended,
    memory,       (* resources and the statics of tasks                    *)
    FQ,           (* length of every task's free queue                     *)
    RQ,           (* of every priority, a sequence of messages             *)
    TQ,           (* messages with a deadline, a sequence in its order     *)
    clock,
    log,          (* what has been printed                                 *)
    exited,       (* debug::exit was called                                *)
    panicked      (* an unwrap failed                                      *)

vars == <<app, stack, primask, pended, memory, FQ, RQ, TQ, clock, log, exited, panicked>>
queues == <<FQ, RQ, TQ, clock>>
output == <<log, exited, panicked>>

-----------------------------------------------------------------------------
(* Instructions.  An expression is a number plus the values of names.      *)
K(n) == [plus |-> n, of |-> <<>>]
V(x) == [plus |-> 0, of |-> <<x>>]
VK(x, n) == [plus |-> n, of |-> <<x>>]
Sum(x, y) == [plus |-> 0, of |-> <<x, y>>]

Say(text, es) == [op |-> "print", text |-> text, args |-> es]
Add(x, e) == [op |-> "add", to |-> x, by |-> e]
Bind(x, e) == [op |-> "bind", to |-> x, by |-> e]
Pend(l) == [op |-> "pend", line |-> l]
Spawn(t, es) == [op |-> "spawn", task |-> t, args |-> es, unwrap |-> TRUE]
TrySpawn(t, es) == [op |-> "spawn", task |-> t, args |-> es, unwrap |-> FALSE]
SpawnAfter(t, d, u) == [op |-> "spawn_after", task |-> t, delay |-> d, unwrap |-> u]
Lock(r) == [op |-> "lock", resource |-> r]
Unlock == [op |-> "unlock"]
Exit == [op |-> "exit"]
(* `then` if the expression is at least n, else `else`. *)
When(e, n, then, else) == [op |-> "when", on |-> e, least |-> n, then |-> then, else |-> else]

-----------------------------------------------------------------------------
NoArgs == [x \in {} |-> 0]
Frame(l, c, args) ==
    [line |-> l, context |-> c, args |-> args, locked |-> <<>>,
     code |-> IF c \in DOMAIN app.code THEN app.code[c] ELSE <<>>]

Init ==
    /\ app \in Apps
    /\ stack = <<Frame("main", "init", NoArgs)>>
    /\ primask = TRUE /\ pended = {} /\ memory = app.memory
    /\ FQ = [t \in DOMAIN app.software |-> app.software[t].capacity]
    /\ RQ = [p \in DOMAIN app.interrupts |-> <<>>]
    /\ TQ = <<>> /\ clock = 0
    /\ log = <<>> /\ exited = FALSE /\ panicked = FALSE

Running == ~exited /\ ~panicked
Current == Last(stack)
ReplaceCurrent(f) == stack' = Append(Front(stack), f)

(* The context executes its next instruction, if that is an `op`. *)
Next_is(op) == Running /\ Current.code # <<>> /\ Head(Current.code).op = op
Instruction == Head(Current.code)
After == [Current EXCEPT !.code = Tail(@)]
Done == ReplaceCurrent(After)

Value(e) ==
    LET value(x) == IF x \in DOMAIN Current.args THEN Current.args[x] ELSE memory[x]
    IN  e.plus + FoldSeq(LAMBDA x, n : value(x) + n, 0, e.of)
Values(es) == [i \in DOMAIN es |-> Value(es[i])]

print ==
    /\ Next_is("print") /\ Done
    /\ log' = Append(log, <<Instruction.text>> \o Values(Instruction.args))
    /\ UNCHANGED <<app, primask, pended, memory, queues, exited, panicked>>

add ==
    /\ Next_is("add") /\ Done
    /\ memory' = [memory EXCEPT ![Instruction.to] = @ + Value(Instruction.by)]
    /\ UNCHANGED <<app, primask, pended, queues, output>>

(* let x = e; *)
bind ==
    /\ Next_is("bind")
    /\ ReplaceCurrent([After EXCEPT !.args =
          [x \in DOMAIN @ \cup {Instruction.to} |->
             IF x = Instruction.to THEN Value(Instruction.by) ELSE @[x]]])
    /\ UNCHANGED <<app, primask, pended, memory, queues, output>>

when ==
    /\ Next_is("when")
    /\ LET taken == IF Value(Instruction.on) >= Instruction.least
                    THEN Instruction.then ELSE Instruction.else
       IN  ReplaceCurrent([After EXCEPT !.code = taken \o @])
    /\ UNCHANGED <<app, primask, pended, memory, queues, output>>

exit ==
    /\ Next_is("exit") /\ Done
    /\ exited' = TRUE
    /\ UNCHANGED <<app, primask, pended, memory, queues, log, panicked>>

pend ==
    /\ Next_is("pend") /\ Done
    /\ pended' = pended \cup {Instruction.line}
    /\ UNCHANGED <<app, primask, memory, queues, output>>

-----------------------------------------------------------------------------
(* Sections. *)

(* Mutant: the section masks nothing. *)
Ceilings_None == {0}
Ceilings == {Ceiling(app, r) : r \in UNION {Range(stack[i].locked) : i \in DOMAIN stack}}

lock ==
    /\ Next_is("lock")
    /\ ReplaceCurrent([After EXCEPT !.locked = Append(@, Instruction.resource)])
    /\ UNCHANGED <<app, primask, pended, memory, queues, output>>

unlock ==
    /\ Next_is("unlock")
    /\ ReplaceCurrent([After EXCEPT !.locked = Front(@)])
    /\ UNCHANGED <<app, primask, pended, memory, queues, output>>

-----------------------------------------------------------------------------
(* Messages. *)
Message(t, args) == [task |-> t, args |-> args]
PriorityOf(t) == app.software[t].priority

(* The parameters of a task are x, y in this order. *)
Parameters(es) ==
    LET values == Values(es)
    IN  [x \in {<<"x", "y">>[i] : i \in DOMAIN es} |-> IF x = "x" THEN values[1] ELSE values[2]]

(* Mutant: the message goes in front of those that wait. *)
Enqueue_Lifo(t, args) ==
    /\ RQ' = [RQ EXCEPT ![PriorityOf(t)] = <<Message(t, args)>> \o @]
    /\ pended' = pended \cup {app.interrupts[PriorityOf(t)]}

Enqueue(t, args) ==
    /\ RQ' = [RQ EXCEPT ![PriorityOf(t)] = Append(@, Message(t, args))]
    /\ pended' = pended \cup {app.interrupts[PriorityOf(t)]}

(* With no free slot spawn is an error, fatal to a caller who unwraps. *)
spawn ==
    /\ Next_is("spawn") /\ Done
    /\ LET t == Instruction.task
       IN  IF FQ[t] > 0
           THEN /\ FQ' = [FQ EXCEPT ![t] = @ - 1]
                /\ Enqueue(t, Parameters(Instruction.args))
                /\ UNCHANGED panicked
           ELSE panicked' = Instruction.unwrap /\ UNCHANGED <<FQ, RQ, pended>>
    /\ UNCHANGED <<app, primask, memory, TQ, clock, log, exited>>

(* The baseline in init is Instant::new(0), which is what the clock shows. *)
spawn_after ==
    /\ Next_is("spawn_after") /\ Done
    /\ LET t == Instruction.task
           at == clock + Instruction.delay
           n == Cardinality({i \in DOMAIN TQ : TQ[i].at < at})
       IN  IF FQ[t] > 0
           THEN /\ FQ' = [FQ EXCEPT ![t] = @ - 1]
                /\ TQ' = InsertAt(TQ, n + 1, [at |-> at, task |-> t])
                /\ UNCHANGED panicked
           ELSE panicked' = Instruction.unwrap /\ UNCHANGED <<FQ, TQ>>
    /\ UNCHANGED <<app, primask, pended, memory, RQ, clock, log, exited>>

(* The dispatcher's loop: the slot is free again before the task runs. *)
AtDispatcher == Running /\ Current.context = "dispatcher"
Level == IF Current.line = "main" THEN 0
         ELSE CHOOSE p \in DOMAIN app.interrupts : app.interrupts[p] = Current.line

(* Mutant: the slot is not given back. *)
dispatch_Leak ==
    /\ AtDispatcher /\ RQ[Level] # <<>>
    /\ LET m == Head(RQ[Level])
       IN  ReplaceCurrent(Frame(Current.line, m.task, m.args))
    /\ RQ' = [RQ EXCEPT ![Level] = Tail(@)]
    /\ UNCHANGED <<app, primask, pended, memory, FQ, TQ, clock, output>>

dispatch ==
    /\ AtDispatcher /\ RQ[Level] # <<>>
    /\ LET m == Head(RQ[Level])
       IN  /\ FQ' = [FQ EXCEPT ![m.task] = @ + 1]
           /\ ReplaceCurrent(Frame(Current.line, m.task, m.args))
    /\ RQ' = [RQ EXCEPT ![Level] = Tail(@)]
    /\ UNCHANGED <<app, primask, pended, memory, TQ, clock, output>>

(* Mutant: the dispatcher runs one task only. *)
dispatcher_returns_Once ==
    /\ AtDispatcher
    /\ stack' = Front(stack)
    /\ UNCHANGED <<app, primask, pended, memory, queues, output>>

dispatcher_returns ==
    /\ AtDispatcher /\ RQ[Level] = <<>>
    /\ stack' = Front(stack)
    /\ UNCHANGED <<app, primask, pended, memory, queues, output>>

-----------------------------------------------------------------------------
(* The vectors: a hardware task or a dispatcher.                           *)
HardwareTask(l) == {t \in DOMAIN app.hardware : app.hardware[t].binds = l}
LinePriority(l) ==
    IF HardwareTask(l) # {} THEN PRIORITY(app, CHOOSE t \in HardwareTask(l) : TRUE)
    ELSE CHOOSE p \in DOMAIN app.interrupts : app.interrupts[p] = l

Active == {LinePriority(stack[i].line) : i \in 2..Len(stack)}
Takeable == {l \in pended : \A p \in Ceilings \cup Active : LinePriority(l) > p}

Take(l) ==
    /\ Running /\ ~primask /\ l \in Takeable
    /\ \A k \in Takeable : LinePriority(k) <= LinePriority(l)
    /\ pended' = pended \ {l}
    /\ stack' = Append(stack, IF HardwareTask(l) # {}
                              THEN Frame(l, CHOOSE t \in HardwareTask(l) : TRUE, NoArgs)
                              ELSE Frame(l, "dispatcher", NoArgs))
    /\ UNCHANGED <<app, primask, memory, queues, output>>

(* A context goes on only while nothing above it may start. *)
Undisturbed == primask \/ Takeable = {}

(* The end of init enables interrupts; idle ends in its loop. *)
init_returns ==
    /\ Running /\ Current.context = "init" /\ Current.code = <<>>
    /\ primask' = FALSE
    /\ stack' = <<Frame("main", IF app.idle THEN "idle" ELSE "wfi", NoArgs)>>
    /\ UNCHANGED <<app, pended, memory, queues, output>>

idle_loops ==
    /\ Running /\ Current.context = "idle" /\ Current.code = <<>> /\ app.code.loop # <<>>
    /\ ReplaceCurrent([Current EXCEPT !.code = app.code.loop, !.args = NoArgs])
    /\ UNCHANGED <<app, primask, pended, memory, queues, output>>

task_returns ==
    /\ Running /\ Current.context \in Names(app) /\ Current.code = <<>>
    /\ IF Current.context \in DOMAIN app.hardware THEN stack' = Front(stack)
       ELSE ReplaceCurrent(Frame(Current.line, "dispatcher", NoArgs))
    /\ UNCHANGED <<app, primask, pended, memory, queues, output>>

(* Seconds go by while there is nothing to do, until the first deadline:   *)
(* the handler of the timer queue releases what is due.                    *)
elapse ==
    /\ Running /\ Len(stack) = 1 /\ Current.code = <<>> /\ ~primask /\ pended = {}
    /\ TQ # <<>> /\ Head(TQ).at <= MaxTime
    /\ clock' = Head(TQ).at
    /\ Enqueue(Head(TQ).task, NoArgs)
    /\ TQ' = Tail(TQ)
    /\ UNCHANGED <<app, stack, primask, memory, FQ, output>>

Execute ==
    \/ print \/ add \/ bind \/ when \/ exit \/ pend \/ lock \/ unlock \/ spawn \/ spawn_after
    \/ dispatch \/ dispatcher_returns \/ init_returns \/ idle_loops \/ task_returns \/ elapse

Next == (Undisturbed /\ Execute) \/ \E l \in pended : Take(l)

Spec == Init /\ [][Next]_vars

(* The processor runs on. *)
FairSpec == Spec /\ WF_vars(Next)

-----------------------------------------------------------------------------
(* How many of the messages in a queue are for a task. *)
Waiting(q, t) == Cardinality({i \in DOMAIN q : q[i].task = t})

TypeOK ==
    /\ app \in Apps /\ clock \in 0..MaxTime
    /\ \A i \in DOMAIN stack :
          stack[i].context \in Contexts(app) \cup {"wfi", "dispatcher"}
    /\ FQ \in [DOMAIN app.software -> Nat]
    /\ \A t \in DOMAIN app.software :
          FQ[t] + Waiting(TQ, t) + Waiting(RQ[PriorityOf(t)], t) = app.software[t].capacity

(* While a context is inside a section on a resource, nothing that has     *)
(* started above it may reach the resource: neither a handler nor a        *)
(* software task that a dispatcher, running above it, has gone on to.      *)
HeldAlone ==
    \A i, j \in DOMAIN stack : i < j =>
       \A r \in Range(stack[i].locked) : stack[j].context \notin Users(app, r)

(* The output is what the repository records for the example, line by      *)
(* line: who preempts whom, which section delays whom, the order of        *)
(* messages and the values they carry.                                     *)
PrintsExpected ==
    app.expected # {} => \E output_ \in app.expected : IsPrefix(log, output_)

(* No `unwrap` of the examples fails: there is a free slot whenever they   *)
(* spawn, also where a task with one slot spawns itself.                   *)
UnwrapsSucceed == ~panicked

(* An example that is to exit does so, after the whole of its output. *)
Finishes ==
    <>(app.exits => exited /\ (app.expected # {} => log \in app.expected))
=============================================================================
