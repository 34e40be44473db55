---------------------------- MODULE ResourceAccess ----------------------------
(***************************************************************************)
(* How the contexts of an application reach its resources: what the        *)
(* generated struct `Resources` of a context holds for each of them, the   *)
(* ceiling behind a proxy, and which resources are written after init.     *)
(*                                                                         *)
(* An application `a` is the record that the code generator works from:    *)
(*   software, hardware   the tasks, with priority and capacity or binds   *)
(*   interrupts           Analysis::interrupts, from priorities to lines   *)
(*   monotonics           with priority, binds and `disable`, that is      *)
(*                        DISABLE_INTERRUPT_ON_EMPTY_QUEUE                 *)
(*   idle                 there is a function `idle`                       *)
(*   resources            with the properties late, task_local, lock_free  *)
(*   access               of a context, its resources: exclusive or shared *)
(***************************************************************************)
EXTENDS Integers, FiniteSets, FiniteSetsExt

Names(a) == DOMAIN a.software \cup DOMAIN a.hardware
Contexts(a) == {"init"} \cup (IF a.idle THEN {"idle"} ELSE {}) \cup Names(a)

(* The constant PRIORITY of a handler; idle gets Priority::new(0). *)
PRIORITY(a, c) ==
    CASE c \in DOMAIN a.software -> a.software[c].priority
      [] c \in DOMAIN a.hardware -> a.hardware[c].priority
      [] OTHER -> 0

runs_once(c) == c \in {"init", "idle"}

Users(a, r) == {c \in DOMAIN a.access : r \in DOMAIN a.access[c]}

-----------------------------------------------------------------------------
(* What is refused: a late resource in init, a task_local resource of two  *)
(* contexts, a lock_free one at two priorities, a resource that is shared  *)
(* here and exclusive there; and, by the Rust compiler, a proxy in init,   *)
(* whose constructor has no `priority`.                                    *)
Accepted(a) ==
    /\ DOMAIN a.access = Contexts(a)
    /\ \A r \in DOMAIN a.resources :
          LET p == a.resources[r]
              modes == {a.access[c][r] : c \in Users(a, r)}
          IN  /\ p.task_local => Cardinality(Users(a, r)) <= 1
              /\ p.lock_free /\ ~p.task_local =>
                    /\ "init" \notin Users(a, r)
                    /\ Cardinality({PRIORITY(a, c) : c \in Users(a, r)}) <= 1
              /\ Cardinality(modes) <= 1
              /\ "init" \in Users(a, r) =>
                    ~p.late /\ (p.task_local \/ modes = {"shared"})

-----------------------------------------------------------------------------
(* Mutant: a late resource is handed out by reference, never by proxy. *)
Field_LateByReference(a, c, r) ==
    LET p == a.resources[r]
        direct == p.task_local \/ p.lock_free \/ p.late
    IN  IF ~direct /\ a.access[c][r] = "exclusive"
        THEN [kind |-> "proxy", forever |-> FALSE]
        ELSE [kind |-> IF a.access[c][r] = "exclusive" THEN "mut" ELSE "ref",
              forever |-> direct /\ runs_once(c)]

(* resources_struct::codegen: a field is a proxy, `&mut` or `&`.  The      *)
(* lifetime is 'static (`forever`) in a context that runs once, if no      *)
(* other priority uses the resource, and else that of the context.         *)
Field(a, c, r) ==
    LET p == a.resources[r]
        direct == p.task_local \/ p.lock_free
    IN  IF ~direct /\ a.access[c][r] = "exclusive"
        THEN [kind |-> "proxy", forever |-> FALSE]
        ELSE [kind |-> IF a.access[c][r] = "exclusive" THEN "mut" ELSE "ref",
              forever |-> direct /\ runs_once(c)]

Proxies(a, c) == {r \in DOMAIN a.access[c] : Field(a, c, r).kind = "proxy"}

(* The ceiling a proxy passes to `lock`: Ownership is `Owned`, `CoOwned`   *)
(* or `Contended`, all three by the highest priority; 0 without users.     *)
Ceiling(a, r) ==
    LET users == Users(a, r) \ {"init"}
    IN  IF users = {} THEN 0 ELSE Max({PRIORITY(a, c) : c \in users})

(* The late resources post_init writes: those with a location. *)
LiveLate(a) == {r \in DOMAIN a.resources : a.resources[r].late /\ Users(a, r) # {}}
=============================================================================
