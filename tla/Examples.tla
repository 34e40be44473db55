------------------------------- MODULE Examples -------------------------------
(***************************************************************************)
(* The programs of examples/ as applications of Runtime, with the outputs  *)
(* recorded in ci/expected/ where there are any.                           *)
(***************************************************************************)
EXTENDS Runtime

Nothing == [x \in {} |-> 0]
Bound(line, p) == [priority |-> p, binds |-> line]
Task(p, n) == [priority |-> p, capacity |-> n]
Early == [late |-> FALSE, task_local |-> FALSE, lock_free |-> FALSE]
Late == [Early EXCEPT !.late = TRUE]
Exclusive(S) == [r \in S |-> "exclusive"]
Shared(S) == [r \in S |-> "shared"]

(* An example says what it has; the rest is empty.  The names of hardware  *)
(* tasks stand for their interrupts where these have the same name.        *)
Example(e) ==
    LET full == e @@ [software |-> Nothing, hardware |-> Nothing, interrupts |-> <<>>,
                      monotonics |-> Nothing, resources |-> Nothing, access |-> Nothing,
                      memory |-> Nothing, expected |-> {}, exits |-> TRUE]
        a == [idle |-> "idle" \in DOMAIN e.code] @@ full
    IN  [a EXCEPT !.access = [c \in Contexts(a) |-> IF c \in DOMAIN @ THEN @[c] ELSE Nothing],
                  !.code = [c \in Contexts(a) \cup {"loop"} |->
                               IF c \in DOMAIN @ THEN @[c] ELSE <<>>]]

Line(s) == <<s>>

-----------------------------------------------------------------------------
(* init, idle and hardware tasks. *)

init == Example([code |-> [init |-> <<Say("init", <<>>), Exit>>],
                 expected |-> {<<Line("init")>>}])

idle == Example([code |-> [init |-> <<Say("init", <<>>)>>,
                           idle |-> <<Say("idle", <<>>), Exit>>],
                 expected |-> {<<Line("init"), Line("idle")>>}])

(* Pended in init, the task starts when init has returned and before idle; *)
(* pended in idle it starts at once.                                       *)
CalledTwice(task, text) ==
    Example([hardware |-> task :> Bound("UART0", 1), memory |-> [TIMES |-> 0],
             code |-> [init |-> <<Pend("UART0"), Say("init", <<>>)>>,
                       idle |-> <<Say("idle", <<>>), Pend("UART0"), Exit>>]
                      @@ (task :> <<Add("TIMES", K(1)), Say(text, <<V("TIMES")>>)>>),
             expected |-> {<<Line("init"), <<text, 1>>, Line("idle"), <<text, 2>>>>}])

hardware == CalledTwice("uart0", "UART0 called")
binds == CalledTwice("foo", "foo called")

extern_binds ==
    Example([hardware |-> [foo |-> Bound("UART0", 1)],
             code |-> [init |-> <<Pend("UART0"), Say("init", <<>>)>>,
                       idle |-> <<Say("idle", <<>>), Pend("UART0"), Exit>>,
                       foo |-> <<Say("foo called", <<>>)>>]])

preempt ==
    Example([hardware |-> [gpioa |-> Bound("GPIOA", 1), gpiob |-> Bound("GPIOB", 2),
                           gpioc |-> Bound("GPIOC", 2)],
             code |-> [init |-> <<Pend("GPIOA")>>,
                       gpioa |-> <<Say("GPIOA - start", <<>>), Pend("GPIOC"),
                                   Say("GPIOA - end", <<>>), Exit>>,
                       gpiob |-> <<Say(" GPIOB", <<>>)>>,
                       gpioc |-> <<Say(" GPIOC - start", <<>>), Pend("GPIOB"),
                                   Say(" GPIOC - end", <<>>)>>],
             expected |-> {<<Line("GPIOA - start"), Line(" GPIOC - start"),
                             Line(" GPIOC - end"), Line(" GPIOB"), Line("GPIOA - end")>>}])

-----------------------------------------------------------------------------
(* Resources. *)

(* resource.lock(|x| { *x += 1; *x }), then print. *)
Increment(r, text) ==
    <<Lock(r), Add(r, K(1)), Bind("x", V(r)), Unlock, Say(text, <<V("x")>>)>>

lock_ ==
    Example([hardware |-> [gpioa |-> Bound("GPIOA", 1), gpiob |-> Bound("GPIOB", 2),
                           gpioc |-> Bound("GPIOC", 3)],
             resources |-> [shared |-> Early], memory |-> [shared |-> 0],
             access |-> [gpioa |-> Exclusive({"shared"}), gpiob |-> Exclusive({"shared"})],
             code |-> [init |-> <<Pend("GPIOA")>>,
                       gpioa |-> <<Say("A", <<>>), Lock("shared"), Add("shared", K(1)),
                                   Pend("GPIOB"), Say("B - shared", <<V("shared")>>),
                                   Pend("GPIOC"), Unlock, Say("E", <<>>), Exit>>,
                       gpiob |-> Increment("shared", "D - shared"),
                       gpioc |-> <<Say("C", <<>>)>>],
             expected |-> {<<Line("A"), <<"B - shared", 1>>, Line("C"),
                             <<"D - shared", 2>>, Line("E")>>}])

multilock ==
    LET S == {"shared1", "shared2", "shared3"}
        locks == <<Lock("shared1"), Lock("shared2"), Lock("shared3"), Add("shared1", K(1)),
                   Add("shared2", K(1)), Add("shared3", K(1)),
                   Say("Multiple single locks", <<V("shared1"), V("shared2"), V("shared3")>>),
                   Unlock, Unlock, Unlock>>
    IN  Example([hardware |-> [locks |-> Bound("GPIOA", 1)],
                 resources |-> [r \in S |-> Early], memory |-> [r \in S |-> 0],
                 access |-> [locks |-> Exclusive(S)],
                 code |-> [init |-> <<Pend("GPIOA")>>,
                           locks |-> <<Say("Multiple single locks", <<>>)>> \o locks
                                       \o <<Say("Multilock!", <<>>)>> \o locks \o <<Exit>>],
                 expected |-> {<<Line("Multiple single locks"),
                                 <<"Multiple single locks", 1, 1, 1>>, Line("Multilock!"),
                                 <<"Multiple single locks", 2, 2, 2>>>>}])

(* Two tasks pended in init, of priorities 1 and p. *)
TwoIncrement(p) ==
    [hardware |-> [uart0 |-> Bound("UART0", 1), uart1 |-> Bound("UART1", p)],
     resources |-> [shared |-> Early], memory |-> [shared |-> 0],
     access |-> [uart0 |-> Exclusive({"shared"}), uart1 |-> Exclusive({"shared"})],
     code |-> [init |-> <<Pend("UART0"), Pend("UART1")>>, idle |-> <<Exit>>,
               uart0 |-> Increment("shared", "UART0: shared"),
               uart1 |-> Increment("shared", "UART1: shared")]]

resource ==
    Example([expected |-> {<<<<"UART1: shared", 1>>, <<"UART0: shared", 2>>>>}]
            @@ TwoIncrement(2))
resource_user_struct == Example(TwoIncrement(1))

advance(state) ==
    <<Add(state, K(1)), Lock("shared"), Bind("old", V("shared")), Add("shared", V(state)),
      Bind("new", V("shared")), Unlock, Say("shared", <<V("old"), V("new")>>)>>

generics ==
    Example([hardware |-> [uart0 |-> Bound("UART0", 1), uart1 |-> Bound("UART1", 2)],
             resources |-> [shared |-> Early],
             memory |-> [shared |-> 0, STATE0 |-> 0, STATE1 |-> 0],
             access |-> [uart0 |-> Exclusive({"shared"}), uart1 |-> Exclusive({"shared"})],
             code |-> [init |-> <<Pend("UART0"), Pend("UART1")>>,
                       uart0 |-> <<Say("UART0", <<V("STATE0")>>)>> \o advance("STATE0")
                                   \o <<Pend("UART1"), Exit>>,
                       uart1 |-> <<Say("UART1", <<V("STATE1")>>)>> \o advance("STATE1")],
             expected |-> {<<<<"UART1", 0>>, <<"shared", 0, 1>>, <<"UART0", 0>>,
                             <<"shared", 1, 2>>, <<"UART1", 1>>, <<"shared", 2, 4>>>>}])

(* The key is 0xdead here, without the half that TLC has no number for. *)
only_shared_access ==
    Example([hardware |-> [uart0 |-> Bound("UART0", 1), uart1 |-> Bound("UART1", 2)],
             resources |-> [key |-> Late], memory |-> [key |-> 0],
             access |-> [uart0 |-> Shared({"key"}), uart1 |-> Shared({"key"})],
             code |-> [init |-> <<Pend("UART0"), Pend("UART1"), Add("key", K(57005))>>,
                       uart0 |-> <<Say("UART0", <<V("key")>>), Exit>>,
                       uart1 |-> <<Say("UART1", <<V("key")>>)>>],
             expected |-> {<<<<"UART1", 57005>>, <<"UART0", 57005>>>>}])

destructure ==
    LET S == {"a", "b", "c"}
        show == <<Say("UART0", <<V("a"), V("b"), V("c")>>)>>
    IN  Example([hardware |-> [uart0 |-> Bound("UART0", 1), uart1 |-> Bound("UART1", 1)],
                 resources |-> [r \in S |-> Early], memory |-> [r \in S |-> 0],
                 access |-> [uart0 |-> Shared(S), uart1 |-> Shared(S)], exits |-> FALSE,
                 code |-> [init |-> <<Pend("UART0"), Pend("UART1")>>,
                           uart0 |-> show, uart1 |-> show]])

not_sync ==
    Example([software |-> [foo |-> Task(1, 1), bar |-> Task(1, 1)], interrupts |-> <<"SSI0">>,
             resources |-> [shared |-> Early], memory |-> [shared |-> 0],
             access |-> [foo |-> Shared({"shared"}), bar |-> Shared({"shared"})],
             code |-> [init |-> <<Exit>>]])

(* Proxies in idle and in a handler; no handler is ever pended. *)
t_resource ==
    LET S == {"o1", "o2", "o3", "o4", "o5", "o6", "s1", "s2", "s3"}
    IN  Example([hardware |-> [uart0 |-> Bound("UART0", 1), uart1 |-> Bound("UART1", 1)],
                 resources |-> [r \in S |-> Early], memory |-> [r \in S |-> 0],
                 access |-> [idle |-> Exclusive({"o2", "s1"}) @@ Shared({"o4", "s3"}),
                             uart0 |-> Exclusive({"o3", "s1", "s2"}) @@ Shared({"s3"}),
                             uart1 |-> Exclusive({"s2"}) @@ Shared({"o5"})],
                 code |-> [idle |-> <<Lock("s1"), Unlock>>], exits |-> FALSE])

task_local_minimal ==
    Example([resources |-> [l |-> [Late EXCEPT !.task_local = TRUE]], memory |-> [l |-> 0],
             access |-> [idle |-> Exclusive({"l"})],
             code |-> [init |-> <<Add("l", K(42))>>,
                       idle |-> <<Say("IDLE:l", <<V("l")>>), Exit>>]])

(* Only `shared` needs a section: l1 and l2 have one user each, the users  *)
(* of e1 have one priority.                                                *)
task_local ==
    Example([hardware |-> [uart0 |-> Bound("UART0", 1), uart1 |-> Bound("UART1", 1)],
             resources |-> [shared |-> Early, l1 |-> [Early EXCEPT !.task_local = TRUE],
                            e1 |-> [Early EXCEPT !.lock_free = TRUE],
                            l2 |-> [Late EXCEPT !.task_local = TRUE],
                            e2 |-> [Late EXCEPT !.lock_free = TRUE]],
             memory |-> [shared |-> 0, l1 |-> 1, e1 |-> 1, l2 |-> 0, e2 |-> 0],
             access |-> [idle |-> Exclusive({"l1", "e2"}),
                         uart0 |-> Exclusive({"shared", "l2", "e1"}),
                         uart1 |-> Exclusive({"shared", "e1"})],
             code |-> [init |-> <<Pend("UART0"), Pend("UART1"), Add("e2", K(2)), Add("l2", K(2))>>,
                       idle |-> <<Say("IDLE:l1", <<V("l1")>>), Say("IDLE:e2", <<V("e2")>>),
                                  Exit>>,
                       uart0 |-> <<Lock("shared"), Add("shared", K(1)), Bind("x", V("shared")),
                                   Unlock, Add("e1", K(10)), Say("UART0: shared", <<V("x")>>),
                                   Say("UART0:l2", <<V("l2")>>), Say("UART0:e1", <<V("e1")>>)>>,
                       uart1 |-> Increment("shared", "UART1: shared")
                                   \o <<Say("UART1:e1", <<V("e1")>>)>>]])

(* A queue between a task and idle, its ends in two late resources; q is   *)
(* the number of elements in it, which are all 42.                         *)
Channel ==
    [hardware |-> [uart0 |-> Bound("UART0", 1)],
     resources |-> [p |-> Late, c |-> Late], memory |-> [q |-> 0, KALLE |-> 0],
     access |-> [idle |-> Exclusive({"c"}), uart0 |-> Exclusive({"p"})],
     code |-> [loop |-> <<Lock("c"), Bind("byte", V("q")),
                          When(V("byte"), 1, <<Add("q", K(-1))>>, <<>>), Unlock,
                          When(V("byte"), 1, <<Say("received message", <<K(42)>>), Exit>>,
                               <<Pend("UART0")>>)>>,
               idle |-> <<>>,
               uart0 |-> <<Lock("p"), Add("q", K(1)), Unlock>>]]

late ==
    Example([expected |-> {<<<<"received message", 42>>>>}] @@ Channel)
static ==
    Example([Channel EXCEPT !.code.uart0 = <<Add("KALLE", K(1))>> \o @])

-----------------------------------------------------------------------------
(* Software tasks. *)

task ==
    Example([software |-> [foo |-> Task(1, 1), bar |-> Task(1, 1), baz |-> Task(2, 1)],
             interrupts |-> <<"QEI0", "SSI0">>,
             code |-> [init |-> <<Spawn("foo", <<>>)>>,
                       foo |-> <<Say("foo - start", <<>>), Spawn("bar", <<>>),
                                 Say("foo - middle", <<>>), Spawn("baz", <<>>),
                                 Say("foo - end", <<>>)>>,
                       bar |-> <<Say("bar", <<>>), Exit>>, baz |-> <<Say("baz", <<>>)>>],
             expected |-> {<<Line("foo - start"), Line("foo - middle"), Line("baz"),
                             Line("foo - end"), Line("bar")>>}])

message ==
    Example([software |-> [foo |-> Task(1, 1), bar |-> Task(1, 1), baz |-> Task(1, 1)],
             interrupts |-> <<"SSI0">>, memory |-> [COUNT |-> 0],
             code |-> [init |-> <<Spawn("foo", <<>>)>>,
                       foo |-> <<Say("foo", <<>>), Spawn("bar", <<V("COUNT")>>),
                                 Add("COUNT", K(1))>>,
                       bar |-> <<Say("bar", <<V("x")>>), Spawn("baz", <<VK("x", 1), VK("x", 2)>>)>>,
                       baz |-> <<Say("baz", <<V("x"), V("y")>>),
                                 When(Sum("x", "y"), 5, <<Exit>>, <<>>), Spawn("foo", <<>>)>>],
             expected |-> {<<Line("foo"), <<"bar", 0>>, <<"baz", 1, 2>>,
                             Line("foo"), <<"bar", 1>>, <<"baz", 2, 3>>>>}])

capacity ==
    Example([software |-> [foo |-> Task(1, 4), bar |-> Task(1, 1)],
             hardware |-> [uart0 |-> Bound("UART0", 1)], interrupts |-> <<"SSI0">>,
             code |-> [init |-> <<Pend("UART0")>>,
                       uart0 |-> [i \in 1..4 |-> Spawn("foo", <<K(i - 1)>>)] \o <<Spawn("bar", <<>>)>>,
                       foo |-> <<Say("foo", <<V("x")>>)>>,
                       bar |-> <<Say("bar", <<>>), Exit>>],
             expected |-> {[i \in 1..4 |-> <<"foo", i - 1>>] \o <<Line("bar")>>}])

(* A task with one slot that spawns itself; with x = 2 it exits. *)
spawn_ ==
    Example([software |-> [foo |-> Task(1, 1)], interrupts |-> <<"SSI0">>,
             code |-> [init |-> <<Spawn("foo", <<K(1), K(2)>>)>>,
                       foo |-> <<Say("foo", <<V("x"), V("y")>>),
                                 When(V("x"), 2, <<Exit>>, <<>>),
                                 Spawn("foo", <<K(2), K(3)>>)>>]])
extern_spawn == spawn_

spawn2 ==
    Example([software |-> [foo |-> Task(1, 1), foo2 |-> Task(1, 1)], interrupts |-> <<"SSI0">>,
             code |-> [init |-> <<Spawn("foo", <<K(1), K(2)>>)>>,
                       foo |-> <<Say("foo", <<V("x"), V("y")>>),
                                 When(V("x"), 2, <<Exit>>, <<>>), Spawn("foo2", <<K(2)>>)>>,
                       foo2 |-> <<Say("foo2", <<V("x")>>), Spawn("foo", <<V("x"), K(0)>>)>>]])

(* count is locked twice, to change and to read it. *)
cfg ==
    Example([software |-> [foo |-> Task(1, 2), log |-> Task(1, 2)], interrupts |-> <<"SSI0">>,
             resources |-> [count |-> Early], memory |-> [count |-> 0],
             access |-> [foo |-> Exclusive({"count"})],
             code |-> [init |-> <<Spawn("foo", <<>>), Spawn("foo", <<>>)>>, idle |-> <<Exit>>,
                       foo |-> <<Lock("count"), Add("count", K(1)), Unlock, Lock("count"),
                                 Bind("n", V("count")), Unlock, Spawn("log", <<V("n")>>)>>,
                       log |-> <<Say("foo has been called", <<V("x")>>)>>],
             expected |-> {<<<<"foo has been called", 1>>, <<"foo has been called", 2>>>>}])

(* The same with a resource and a task that are never configured; its      *)
(* output is not recorded.                                                 *)
cfg_whole_task == [cfg EXCEPT !.expected = {}]

(* The messages are the three blocks of a pool, handed out from the        *)
(* highest; what is given back is not asked for again.                     *)
pool ==
    Example([software |-> [foo |-> Task(1, 1), bar |-> Task(2, 1)],
             hardware |-> [i2c0 |-> Bound("I2C0", 2)],
             interrupts |-> <<"QEI0", "SSI0">>, memory |-> [P |-> 3],
             code |-> [init |-> <<Pend("I2C0")>>,
                       i2c0 |-> <<Bind("x", V("P")), Add("P", K(-1)), Spawn("foo", <<V("x")>>),
                                  Bind("x", V("P")), Add("P", K(-1)), Spawn("bar", <<V("x")>>)>>,
                       foo |-> <<Say("foo", <<V("x")>>), Exit>>,
                       bar |-> <<Say("bar", <<V("x")>>)>>],
             expected |-> {<<<<"bar", 2>>, <<"foo", 3>>>>}])

ramfunc ==
    Example([software |-> [foo |-> Task(1, 1), bar |-> Task(2, 1)],
             interrupts |-> <<"UART1", "UART0">>,
             code |-> [init |-> <<Spawn("foo", <<>>)>>, foo |-> <<Say("foo", <<>>), Exit>>,
                       bar |-> <<Spawn("foo", <<>>)>>],
             expected |-> {<<Line("foo")>>}])

(* Spawns whose result is dropped, from every kind of context. *)
t_spawn ==
    LET try == <<TrySpawn("foo", <<>>), TrySpawn("bar", <<K(0)>>), TrySpawn("baz", <<K(0), K(1)>>)>>
    IN  Example([software |-> [foo |-> Task(1, 1), bar |-> Task(1, 1), baz |-> Task(1, 1)],
                 hardware |-> [svcall |-> Bound("SVCall", 1), uart0 |-> Bound("UART0", 1)],
                 interrupts |-> <<"SSI0">>, exits |-> FALSE,
                 code |-> [c \in {"init", "idle", "svcall", "uart0", "foo"} |-> try]])

(* The one spawned task exits: its name may also be main. *)
task_named_main ==
    Example([software |-> [main |-> Task(1, 1)], interrupts |-> <<"SSI0">>,
             code |-> [init |-> <<Spawn("main", <<>>)>>,
                       main |-> <<Say("This task is named main", <<>>), Exit>>]])

t_stask_main ==
    Example([software |-> [taskmain |-> Task(1, 1)], interrupts |-> <<"SSI0">>,
             code |-> [init |-> <<TrySpawn("taskmain", <<>>)>>, taskmain |-> <<Exit>>]])

t_htask_main ==
    Example([hardware |-> [taskmain |-> Bound("UART0", 1)],
             code |-> [init |-> <<Pend("UART0")>>, taskmain |-> <<Exit>>]])

-----------------------------------------------------------------------------
(* Scheduled tasks, the durations in seconds.  ci/expected/schedule.run    *)
(* and periodic.run are outputs of older programs.                         *)
Monotonic == [MyMono |-> [priority |-> 1, binds |-> "SysTick", disable |-> TRUE]]

schedule ==
    Example([software |-> [foo |-> Task(1, 1), bar |-> Task(1, 1)], interrupts |-> <<"SSI0">>,
             monotonics |-> Monotonic, exits |-> FALSE,
             code |-> [init |-> <<Say("init", <<>>), SpawnAfter("foo", 1, FALSE),
                                  SpawnAfter("bar", 2, FALSE)>>,
                       foo |-> <<Say("foo", <<>>)>>, bar |-> <<Say("bar", <<>>)>>]])

periodic ==
    Example([software |-> [foo |-> Task(1, 1)], interrupts |-> <<"SSI0">>,
             monotonics |-> Monotonic, exits |-> FALSE,
             code |-> [init |-> <<SpawnAfter("foo", 1, TRUE)>>,
                       foo |-> <<SpawnAfter("foo", 1, TRUE)>>]])

(* A monotonic and a task above the one that shares with it; init exits. *)
types ==
    Example([software |-> [foo |-> Task(2, 1)], hardware |-> [uart0 |-> Bound("UART0", 1)],
             interrupts |-> 2 :> "SSI0", monotonics |-> Monotonic,
             resources |-> [shared |-> Early], memory |-> [shared |-> 0],
             access |-> [foo |-> Exclusive({"shared"}), uart0 |-> Exclusive({"shared"})],
             code |-> [init |-> <<Exit>>, idle |-> <<>>]])

double_schedule ==
    Example([software |-> [task1 |-> Task(1, 1), task2 |-> Task(1, 1)], interrupts |-> <<"SSI0">>,
             monotonics |-> Monotonic, exits |-> FALSE,
             code |-> [init |-> <<TrySpawn("task1", <<>>)>>,
                       task1 |-> <<SpawnAfter("task2", 1, FALSE)>>,
                       task2 |-> <<SpawnAfter("task1", 1, FALSE)>>]])

AllExamples ==
    {init, idle, hardware, binds, extern_binds, preempt, lock_, multilock, resource,
     resource_user_struct, generics, only_shared_access, destructure, task_local_minimal,
     task_local, late, static, task, message, capacity, spawn_, extern_spawn, spawn2, cfg,
     cfg_whole_task, not_sync, t_resource, types, task_named_main, t_stask_main,
     t_htask_main, pool, ramfunc, t_spawn, schedule, periodic, double_schedule}
=============================================================================
