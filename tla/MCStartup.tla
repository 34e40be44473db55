------------------------------ MODULE MCStartup ------------------------------
(* Applications that differ in what start-up has to do for them.           *)
EXTENDS Startup

Task(p, cap) == [priority |-> p, capacity |-> cap]
Bound(p, line) == [priority |-> p, binds |-> line]
Timer(p, line, disable) == [priority |-> p, binds |-> line, disable |-> disable]
Resource(S) == [x \in {"late", "task_local", "lock_free"} |-> x \in S]
Exclusive(S) == [r \in S |-> "exclusive"]
NoTasks == [t \in {} |-> 0]

(* Late resources behind a proxy and by reference, an idle that locks, two *)
(* hardware tasks above and a software task, an early resource for init.   *)
Locking ==
    [software |-> [foo |-> Task(1, 1)],
     hardware |-> [uart0 |-> Bound(1, "UART0"), uart1 |-> Bound(2, "UART1")],
     interrupts |-> <<"SSI0">>, monotonics |-> NoTasks, idle |-> TRUE,
     resources |-> [x |-> Resource({"late"}), y |-> Resource({}), k |-> Resource({"late"}),
                    z |-> Resource({"lock_free"}), i |-> Resource({"task_local"})],
     access |-> [init |-> Exclusive({"i"}), idle |-> Exclusive({"x", "y"}),
                 foo |-> Exclusive({"x", "z"}), uart0 |-> Exclusive({"z"}),
                 uart1 |-> Exclusive({"y"}) @@ [k |-> "shared"]]]

(* A monotonic whose interrupt starts switched off, scheduled from init;   *)
(* two tasks, one of them on an exception, share a lock_free resource.     *)
Timed ==
    [software |-> [foo |-> Task(1, 2)], hardware |-> [pendsv |-> Bound(1, "PendSV")],
     interrupts |-> <<"SSI0">>, monotonics |-> [M |-> Timer(2, "TIMER0", TRUE)],
     idle |-> FALSE,
     resources |-> [z |-> Resource({"lock_free", "late"})],
     access |-> [init |-> Exclusive({}), foo |-> Exclusive({"z"}),
                 pendsv |-> Exclusive({"z"})]]

(* A monotonic on SysTick that is always on, and tasks of two priorities   *)
(* around its own; a shared late resource and one of idle alone.           *)
AlwaysOn ==
    [software |-> [foo |-> Task(1, 1), bar |-> Task(3, 1)], hardware |-> NoTasks,
     interrupts |-> (1 :> "SSI0") @@ (3 :> "QEI0"),
     monotonics |-> [M |-> Timer(2, "SysTick", FALSE)], idle |-> TRUE,
     resources |-> [k |-> Resource({"late"}), l |-> Resource({"late", "task_local"}),
                    x |-> Resource({})],
     access |-> [init |-> Exclusive({}),
                 idle |-> Exclusive({"l"}) @@ [k |-> "shared"],
                 foo |-> Exclusive({"x"}) @@ [k |-> "shared"],
                 bar |-> Exclusive({"x"}) @@ [k |-> "shared"]]]

MCApps == {Locking, Timed, AlwaysOn}
=============================================================================
