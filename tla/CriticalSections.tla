-------------------------- MODULE CriticalSections --------------------------
(***************************************************************************)
(* Preemptive scheduling and resource protection on one core: the wrapper  *)
(* `run` of every task handler and the critical section `lock` of          *)
(* src/src/export.rs, executed by interrupt handlers that the NVIC starts  *)
(* and stacks by priority.                                                 *)
(*                                                                         *)
(* A context is `idle` or an interrupt handler (a hardware task or the     *)
(* dispatcher of the software tasks of one priority).  The Priority cell,  *)
(* the BASEPRI value saved by `run` and the frames of nested locks are     *)
(* locals of a context; BASEPRI and PRIMASK are registers all of them      *)
(* share, and preemption may happen between any two actions.               *)
(***************************************************************************)
EXTENDS Integers, Sequences

CONSTANTS Handlers,    (* interrupt handlers bound to tasks and dispatchers *)
          Idle,        (* the context of `idle`                             *)
          Resources,   (* resources reached through a `lock` proxy          *)
          LockFree,    (* resources declared lock_free                      *)
          PRIORITY,    (* static priority of each context                   *)
          Uses,        (* resources each context declares                   *)
          CEILING,     (* the constant baked into each proxy's `lock`       *)
          LEVELS,      (* 1 << NVIC_PRIO_BITS                               *)
          Armv7m       (* TRUE when the target has BASEPRI                  *)

Contexts == Handlers \cup {Idle}

(* NVIC_PRIO_BITS is 1..7 (see the README for 8). *)
ASSUME LevelsAssumption == LEVELS \in {2, 4, 8, 16, 32, 64, 128}

ASSUME PriorityAssumption ==
    /\ Idle \notin Handlers
    /\ PRIORITY \in [Contexts -> 0..LEVELS]
    /\ PRIORITY[Idle] = 0
    /\ \A t \in Handlers : PRIORITY[t] > 0

(* The analysis gives a proxy a ceiling no user of the resource exceeds,   *)
(* and refuses lock_free resources shared between different priorities.    *)
ASSUME ResourceAssumption ==
    /\ Resources \cap LockFree = {}
    /\ Uses \in [Contexts -> SUBSET (Resources \cup LockFree)]
    /\ CEILING \in [Resources -> 0..LEVELS]
    /\ \A c \in Contexts : \A r \in Uses[c] \cap Resources :
          PRIORITY[c] <= CEILING[r]
    /\ \A c, d \in Contexts :
          Uses[c] \cap Uses[d] \cap LockFree # {} => PRIORITY[c] = PRIORITY[d]

ASSUME TargetAssumption == Armv7m \in BOOLEAN

VARIABLES
    pending,    (* handlers pended in the NVIC                              *)
    active,     (* contexts that started and did not return                 *)
    running,    (* the active context the processor executes                *)
    preempted,  (* the context each active handler interrupted              *)
    saved,      (* history: BASEPRI when a context was interrupted          *)
    pc,         (* "entry" of run, "body" (task code), "exit" of run        *)
    initial,    (* the local `initial` of run                               *)
    priority,   (* the Priority cell of each context                        *)
    locks,      (* the critical sections each context is in, outermost first *)
    basepri,    (* the BASEPRI register, 0 = no masking                     *)
    primask     (* the PRIMASK register, TRUE = everything masked           *)

vars == <<pending, active, running, preempted, saved, pc, initial, priority,
          locks, basepri, primask>>

-----------------------------------------------------------------------------
(* A u8: bits shifted out of the byte are lost. *)
U8 == 0..255
MaxPriority == 255   \* u8::max_value()

(* Mutant: the shift keeps the bits a u8 drops. *)
logical2hw_NoTruncation(logical) == (LEVELS - logical) * (256 \div LEVELS)

logical2hw(logical) == ((LEVELS - logical) * (256 \div LEVELS)) % 256

(* What a `lock` keeps on the stack: the resource, the dynamic priority    *)
(* `current`, the way it masks, and PRIMASK as interrupt::free found it.   *)
Frame == [res : Resources, current : U8,
          via : {"none", "basepri", "free"}, mask : BOOLEAN]

Depth(c) == Len(locks[c])
Innermost(c) == locks[c][Depth(c)]
Held(c) == {locks[c][i].res : i \in 1..Depth(c)}

Init ==
    /\ pending = {}
    /\ active = {Idle}
    /\ running = Idle
    /\ preempted = [t \in Handlers |-> Idle]
    /\ saved = [c \in Contexts |-> 0]
    /\ pc = [c \in Contexts |-> IF c = Idle THEN "body" ELSE "entry"]
    /\ initial = [t \in Handlers |-> 0]
    /\ priority = [c \in Contexts |-> PRIORITY[c]]
    /\ locks = [c \in Contexts |-> <<>>]
    /\ basepri = 0
    /\ primask = FALSE

-----------------------------------------------------------------------------
(* The NVIC: handlers are pended by devices or by rtic::pend, and the one  *)
(* with the highest priority starts as soon as nothing masks it.           *)

Masked(t) ==
    \/ primask
    \/ basepri # 0 /\ logical2hw(PRIORITY[t]) >= basepri

pend(t) ==
    /\ pending' = pending \cup {t}
    /\ UNCHANGED <<active, running, preempted, saved, pc, initial, priority,
                   locks, basepri, primask>>

Take(t) ==
    /\ t \in pending
    /\ PRIORITY[t] > PRIORITY[running]
    /\ ~Masked(t)
    /\ \A u \in pending : PRIORITY[u] <= PRIORITY[t]
    /\ pending' = pending \ {t}
    /\ active' = active \cup {t}
    /\ running' = t
    /\ preempted' = [preempted EXCEPT ![t] = running]
    /\ saved' = [saved EXCEPT ![running] = basepri]
    /\ pc' = [pc EXCEPT ![t] = "entry"]
    /\ UNCHANGED <<initial, priority, locks, basepri, primask>>

(* The locals of the handler die with it and are given their first values. *)
Return(t) ==
    /\ running = t
    /\ pc[t] = "exit"
    /\ active' = active \ {t}
    /\ running' = preempted[t]
    /\ pc' = [pc EXCEPT ![t] = "entry"]
    /\ preempted' = [preempted EXCEPT ![t] = Idle]
    /\ saved' = [saved EXCEPT ![preempted[t]] = 0]
    /\ initial' = [initial EXCEPT ![t] = 0]
    /\ UNCHANGED <<pending, priority, locks, basepri, primask>>

-----------------------------------------------------------------------------
(* rtic::export::run around the body of a handler. *)

RunEnter(t) ==
    /\ running = t
    /\ pc[t] = "entry"
    /\ pc' = [pc EXCEPT ![t] = "body"]
    /\ priority' = [priority EXCEPT ![t] = PRIORITY[t]]
    /\ IF Armv7m /\ PRIORITY[t] # 1
       THEN initial' = [initial EXCEPT ![t] = basepri]
       ELSE UNCHANGED initial
    /\ UNCHANGED <<pending, active, running, preempted, saved, locks, basepri,
                   primask>>

(* Mutant: `run` does not restore BASEPRI after the task. *)
RunExit_NoRestore(t) ==
    /\ running = t
    /\ pc[t] = "body"
    /\ locks[t] = <<>>
    /\ pc' = [pc EXCEPT ![t] = "exit"]
    /\ UNCHANGED <<pending, active, running, preempted, saved, initial,
                   priority, locks, basepri, primask>>

RunExit(t) ==
    /\ running = t
    /\ pc[t] = "body"
    /\ locks[t] = <<>>
    /\ pc' = [pc EXCEPT ![t] = "exit"]
    /\ basepri' = IF ~Armv7m THEN basepri
                  ELSE IF PRIORITY[t] = 1 THEN 0 ELSE initial[t]
    /\ UNCHANGED <<pending, active, running, preempted, saved, initial,
                   priority, locks, primask>>

-----------------------------------------------------------------------------
(* rtic::export::lock.  The cell is private to the context, so writing it  *)
(* together with the register that takes effect loses no interleaving.     *)
(* A proxy is borrowed mutably: a context does not lock a resource twice.  *)

CanLock(c, r) ==
    /\ running = c
    /\ pc[c] = "body"
    /\ r \in Uses[c]
    /\ r \notin Held(c)

Push(c, r, via) ==
    locks' = [locks EXCEPT ![c] =
                Append(@, [res |-> r, current |-> priority[c], via |-> via,
                           mask |-> primask])]

Pop(c) == locks' = [locks EXCEPT ![c] = SubSeq(@, 1, Len(@) - 1)]

(* current >= ceiling: the closure runs without further masking. *)
LockNone(c, r) ==
    /\ CanLock(c, r)
    /\ priority[c] >= CEILING[r]
    /\ Push(c, r, "none")
    /\ UNCHANGED <<pending, active, running, preempted, saved, pc, initial,
                   priority, basepri, primask>>

(* Mutant: BASEPRI is used for the top level too, where its value is 0. *)
LockBasepri_AnyCeiling(c, r) ==
    /\ CanLock(c, r)
    /\ Armv7m
    /\ priority[c] < CEILING[r]
    /\ Push(c, r, "basepri")
    /\ priority' = [priority EXCEPT ![c] = CEILING[r]]
    /\ basepri' = logical2hw(CEILING[r])
    /\ UNCHANGED <<pending, active, running, preempted, saved, pc, initial,
                   primask>>

(* The ceiling is below the hardware's top level: raise BASEPRI. *)
LockBasepri(c, r) ==
    /\ CanLock(c, r)
    /\ Armv7m
    /\ priority[c] < CEILING[r]
    /\ CEILING[r] # LEVELS
    /\ Push(c, r, "basepri")
    /\ priority' = [priority EXCEPT ![c] = CEILING[r]]
    /\ basepri' = logical2hw(CEILING[r])
    /\ UNCHANGED <<pending, active, running, preempted, saved, pc, initial,
                   primask>>

(* Mutant: the priority is raised and the interrupts stay enabled. *)
LockFreeSection_NotDisabled(c, r) ==
    /\ CanLock(c, r)
    /\ priority[c] < CEILING[r]
    /\ Armv7m => CEILING[r] = LEVELS
    /\ Push(c, r, "free")
    /\ priority' = [priority EXCEPT ![c] = MaxPriority]
    /\ UNCHANGED <<pending, active, running, preempted, saved, pc, initial,
                   basepri, primask>>

(* The top level, and every level without BASEPRI: interrupt::free. *)
LockFreeSection(c, r) ==
    /\ CanLock(c, r)
    /\ priority[c] < CEILING[r]
    /\ Armv7m => CEILING[r] = LEVELS
    /\ Push(c, r, "free")
    /\ priority' = [priority EXCEPT ![c] = MaxPriority]
    /\ primask' = TRUE
    /\ UNCHANGED <<pending, active, running, preempted, saved, pc, initial,
                   basepri>>

CanUnlock(c, via) ==
    /\ running = c
    /\ locks[c] # <<>>
    /\ Innermost(c).via = via

UnlockNone(c) ==
    /\ CanUnlock(c, "none")
    /\ Pop(c)
    /\ UNCHANGED <<pending, active, running, preempted, saved, pc, initial,
                   priority, basepri, primask>>

(* Mutant: the end of an inner lock unmasks everything. *)
UnlockBasepri_ToZero(c) ==
    /\ CanUnlock(c, "basepri")
    /\ basepri' = 0
    /\ priority' = [priority EXCEPT ![c] = Innermost(c).current]
    /\ Pop(c)
    /\ UNCHANGED <<pending, active, running, preempted, saved, pc, initial,
                   primask>>

UnlockBasepri(c) ==
    /\ CanUnlock(c, "basepri")
    /\ basepri' = logical2hw(Innermost(c).current)
    /\ priority' = [priority EXCEPT ![c] = Innermost(c).current]
    /\ Pop(c)
    /\ UNCHANGED <<pending, active, running, preempted, saved, pc, initial,
                   primask>>

(* Mutant: the interrupts stay disabled after the section. *)
UnlockFreeSection_StaysDisabled(c) ==
    /\ CanUnlock(c, "free")
    /\ priority' = [priority EXCEPT ![c] = Innermost(c).current]
    /\ Pop(c)
    /\ UNCHANGED <<pending, active, running, preempted, saved, pc, initial,
                   basepri, primask>>

(* interrupt::free enables interrupts again only if they were enabled. *)
UnlockFreeSection(c) ==
    /\ CanUnlock(c, "free")
    /\ primask' = Innermost(c).mask
    /\ priority' = [priority EXCEPT ![c] = Innermost(c).current]
    /\ Pop(c)
    /\ UNCHANGED <<pending, active, running, preempted, saved, pc, initial,
                   basepri>>

Lock(c, r) == LockNone(c, r) \/ LockBasepri(c, r) \/ LockFreeSection(c, r)
Unlock(c) == UnlockNone(c) \/ UnlockBasepri(c) \/ UnlockFreeSection(c)

Next ==
    \/ \E t \in Handlers :
          pend(t) \/ Take(t) \/ RunEnter(t) \/ RunExit(t) \/ Return(t)
    \/ \E c \in Contexts : Unlock(c) \/ \E r \in Resources : Lock(c, r)

Spec == Init /\ [][Next]_vars

(* Every closure given to `lock` returns and so does every task, whatever  *)
(* locks they nest meanwhile; the processor does not overlook for ever a   *)
(* handler it could start at infinitely many instruction boundaries.       *)
Fairness ==
    /\ \A c \in Contexts : \A r \in Uses[c] \cap Resources :
          SF_vars(Unlock(c) /\ Innermost(c).res = r)
    /\ \A t \in Handlers :
          /\ WF_vars(RunEnter(t))
          /\ SF_vars(RunExit(t))
          /\ WF_vars(Return(t))
          /\ SF_vars(Take(t))

FairSpec == Spec /\ Fairness

-----------------------------------------------------------------------------
TypeOK ==
    /\ pending \subseteq Handlers
    /\ active \subseteq Contexts
    /\ running \in Contexts
    /\ preempted \in [Handlers -> Contexts]
    /\ saved \in [Contexts -> U8]
    /\ pc \in [Contexts -> {"entry", "body", "exit"}]
    /\ initial \in [Handlers -> U8]
    /\ priority \in [Contexts -> U8]
    /\ locks \in [Contexts -> Seq(Frame)]
    /\ basepri \in U8
    /\ primask \in BOOLEAN

(* What a context may be touching: the resources it has locked and, while  *)
(* its code runs, the lock_free ones it declares.                          *)
Accesses(c) ==
    Held(c) \cup (IF pc[c] = "body" THEN Uses[c] \cap LockFree ELSE {})

(* No two contexts that have started are inside the data of one resource:  *)
(* the `&mut T` that lock hands out is unique.  BASEPRI alone, PRIMASK     *)
(* alone, nesting of both and the preemption of either must all keep it.   *)
MutualExclusion ==
    \A c, d \in active : c # d => Accesses(c) \cap Accesses(d) = {}

(* While a resource is locked no task that contends for it starts, whoever *)
(* preempted the holder meanwhile ("critical sections": tasks that could   *)
(* contend for the resource are not allowed to start).                     *)
NoContenderStarts ==
    [][\A t \in active' \ active : \A c \in active :
          Held(c) \cap Uses[t] = {}]_vars

(* A handler leaves BASEPRI the way it found it, although its locks end by *)
(* writing the level of the task and not the value from before: otherwise  *)
(* the interrupted context runs with too much or too little masked.        *)
BasepriInvariant ==
    pc[running] = "exit" => basepri = saved[preempted[running]]

(* Masking goes no further than the ceilings held: a handler above the     *)
(* running task and above each resource it has locked can start.  Without  *)
(* BASEPRI this is only so outside the sections that mask.                 *)
NoOverBlocking ==
    \A t \in Handlers :
       ( /\ PRIORITY[t] > PRIORITY[running]
         /\ \A r \in Held(running) :
               IF Armv7m THEN CEILING[r] < PRIORITY[t]
               ELSE CEILING[r] <= PRIORITY[running] )
       => ~Masked(t)

(* Priority inversion ends: from the moment a handler is pended the        *)
(* processor is eventually given to a context of at least its priority,    *)
(* however the lower ones nest their locks.                                *)
InversionEnds ==
    \A t \in Handlers : t \in pending ~> PRIORITY[running] >= PRIORITY[t]
=============================================================================
