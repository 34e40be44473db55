---------------------------- MODULE RuntimeProofs ----------------------------
(***************************************************************************)
(* For every set of applications that compile, whatever their tasks, code, *)
(* priorities and capacities: the machine keeps the slots of every task,   *)
(* the contexts on its stack rise in priority above all that those below   *)
(* them mask, so that a resource is held alone, every message in a ready   *)
(* queue has a dispatcher on its way, and a spawn fails only when all of   *)
(* its task's slots are taken.                                             *)
(***************************************************************************)
EXTENDS Runtime, Collections

(* LinePriority, of an application. *)
Handlers(a, l) == {t \in DOMAIN a.hardware : a.hardware[t].binds = l}
LineLevel(a, l) ==
    IF Handlers(a, l) # {} THEN PRIORITY(a, CHOOSE t \in Handlers(a, l) : TRUE)
    ELSE CHOOSE p \in DOMAIN a.interrupts : a.interrupts[p] = l

(* Frames, of which `args` may be anything. *)
IsFrame(f) ==
    f = [line |-> f.line, context |-> f.context, args |-> f.args, locked |-> f.locked,
         code |-> f.code]

(* The frame of main at the bottom of the stack. *)
AtBottom(a, f) ==
    /\ f.line = "main"
    /\ f.context \in {"init", "wfi"} \cup (IF a.idle THEN {"idle"} ELSE {})

(* The frame of a handler, or of the task its dispatcher has gone on to. *)
Serves(a, f) ==
    /\ f.line \in Lines(a)
    /\ \/ f.context = "dispatcher" /\ f.line \in Range(a.interrupts)
       \/ /\ f.context \in Names(a)
          /\ PRIORITY(a, f.context) = LineLevel(a, f.line)
          /\ f.context \in DOMAIN a.software => f.line \in Range(a.interrupts)
          /\ f.context \in DOMAIN a.hardware => a.hardware[f.context].binds = f.line

(* What is left of a context's code, and its sections. *)
InCode(a, f) ==
    IF f.context \in Contexts(a)
    THEN /\ f.code \in Seq(Instructions(a, f.context))
         /\ f.locked \in Seq(Proxies(a, f.context))
    ELSE f.code = <<>> /\ f.locked = <<>>

StackInv ==
    /\ stack \in Seq(Range(stack)) /\ stack # <<>>
    /\ AtBottom(app, stack[1])
    /\ primask = (stack[1].context = "init")
    /\ primask => Len(stack) = 1
    /\ \A i \in 2..Len(stack) : Serves(app, stack[i])
    /\ \A i \in 1..Len(stack) : IsFrame(stack[i]) /\ InCode(app, stack[i])

(* Priorities rise, also above what is masked. *)
LevelInv ==
    \A i, j \in 1..Len(stack) : i < j =>
       /\ i > 1 => LineLevel(app, stack[i].line) < LineLevel(app, stack[j].line)
       /\ \A r \in Range(stack[i].locked) : Ceiling(app, r) < LineLevel(app, stack[j].line)

ReadyTyped ==
    /\ RQ = [p \in DOMAIN app.interrupts |-> RQ[p]]
    /\ \A p \in DOMAIN app.interrupts :
          /\ RQ[p] \in Seq(Range(RQ[p]))
          /\ \A i \in 1..Len(RQ[p]) :
                RQ[p][i].task \in DOMAIN app.software /\ PriorityOf(RQ[p][i].task) = p

Entries == [at : Nat, task : DOMAIN app.software]

Counted ==
    \A t \in DOMAIN app.software :
       FQ[t] + Waiting(TQ, t) + Waiting(RQ[PriorityOf(t)], t) = app.software[t].capacity

QueueInv ==
    /\ pended \subseteq Lines(app) /\ clock \in 0..MaxTime
    /\ FQ \in [DOMAIN app.software -> Nat]
    /\ ReadyTyped /\ TQ \in Seq(Entries) /\ Counted

(* A caller panics for want of a slot, and nothing goes on after that. *)
PanicInv == panicked => \E t \in DOMAIN app.software : FQ[t] = 0

(* A dispatcher with a message is pended or on the stack. *)
WakeInv ==
    \A p \in DOMAIN app.interrupts : RQ[p] # <<>> =>
       \/ app.interrupts[p] \in pended
       \/ \E i \in 2..Len(stack) : stack[i].line = app.interrupts[p]

RuntimeInv ==
    app \in Apps /\ StackInv /\ LevelInv /\ QueueInv /\ PanicInv /\ WakeInv
-----------------------------------------------------------------------------
(* What is known of an application. *)
LEMMA BranchesHold == \A S : S \subseteq Branches(S)
BY DEF Branches

LEMMA Compiled ==
    ASSUME NEW a \in Apps, NEW c \in Contexts(a)
    PROVE  /\ c \in DOMAIN a.code
           /\ a.code[c] \in Blocks(a, c)
           /\ c = "idle" => a.code["loop"] \in Blocks(a, c)
           /\ \A s \in Blocks(a, c) : s \in Seq(Instructions(a, c))
           /\ \A i \in Instructions(a, c) : i.op = "when" =>
                 i.then \in Blocks(a, c) /\ i.else \in Blocks(a, c)
<1>1. Compiles(a, c) /\ DOMAIN a.code = {"loop"} \cup Contexts(a)
  BY RuntimeAssumption
<1> DEFINE S == {a.code[c]} \cup (IF c = "idle" THEN {a.code["loop"]} ELSE {})
           B == Blocks(a, c)
<1>2. S \subseteq Blocks(a, c)
  <2>1. Blocks(a, c) = Branches(Branches(S))
    BY DEF Blocks
  <2> HIDE DEF S
  <2>2. QED BY <2>1, BranchesHold
<1>3. ASSUME NEW i \in Instructions(a, c), i.op = "when"
      PROVE  i.then \in B /\ i.else \in B
  <2>1. i \in {j \in UNION {Range(s) : s \in B} : j.op = "when"}
    BY <1>3 DEF Instructions
  <2>2. {i.then, i.else} \subseteq Branches(B)
    <3> HIDE DEF B
    <3>1. QED BY <2>1 DEF Branches
  <2>3. Branches(B) = B
    BY <1>1 DEF Compiles
  <2>4. QED BY <2>2, <2>3
<1>4. QED BY <1>1, <1>2, <1>3 DEF Compiles

(* Lines have one handler and one priority. *)
LEMMA LevelIs == \A l : LinePriority(l) = LineLevel(app, l) /\ HardwareTask(l) = Handlers(app, l)
BY DEF LinePriority, LineLevel, HardwareTask, Handlers

LEMMA DispatcherLines ==
    ASSUME app \in Apps, NEW p \in DOMAIN app.interrupts
    PROVE  LET l == app.interrupts[p]
           IN  /\ l \in Range(app.interrupts) /\ l \in Lines(app) /\ l # "main"
               /\ HardwareTask(l) = {} /\ LinePriority(l) = p
               /\ \A q \in DOMAIN app.interrupts : app.interrupts[q] = l => q = p
<1> DEFINE l == app.interrupts[p]
<1>1. WellFormed(app)
  BY RuntimeAssumption
<1>2. l \in Range(app.interrupts) /\ l \in Lines(app)
  BY DEF Range, Lines
<1>3. HardwareTask(l) = {}
  BY <1>1, <1>2 DEF WellFormed, HardwareTask
<1>4. \A q \in DOMAIN app.interrupts : app.interrupts[q] = l => q = p
  BY <1>1 DEF WellFormed, IsInjective
<1>5. (CHOOSE q \in DOMAIN app.interrupts : app.interrupts[q] = l) = p
  BY <1>4
<1>6. LinePriority(l) = p
  BY <1>3, <1>5 DEF LinePriority
<1>7. l # "main"
  BY <1>1, <1>2 DEF WellFormed
<1>8. QED BY <1>2, <1>3, <1>4, <1>6, <1>7

LEMMA DispatcherLine ==
    ASSUME app \in Apps, NEW l \in Range(app.interrupts)
    PROVE  /\ l \in Lines(app) /\ l # "main" /\ HardwareTask(l) = {}
           /\ LinePriority(l) \in DOMAIN app.interrupts
           /\ app.interrupts[LinePriority(l)] = l
           /\ (CHOOSE q \in DOMAIN app.interrupts : app.interrupts[q] = l) = LinePriority(l)
<1>1. PICK p \in DOMAIN app.interrupts : app.interrupts[p] = l
  BY DEF Range
<1>2. /\ l \in Lines(app) /\ l # "main" /\ HardwareTask(l) = {} /\ LinePriority(l) = p
      /\ \A q \in DOMAIN app.interrupts : app.interrupts[q] = l => q = p
  BY <1>1, DispatcherLines
<1>3. (CHOOSE q \in DOMAIN app.interrupts : app.interrupts[q] = l) = p
  BY <1>1, <1>2
<1>4. QED BY <1>1, <1>2, <1>3

LEMMA HardwareLine ==
    ASSUME app \in Apps, NEW l \in Lines(app), HardwareTask(l) # {}
    PROVE  LET t == CHOOSE x \in HardwareTask(l) : TRUE
           IN  t \in DOMAIN app.hardware /\ PRIORITY(app, t) = LinePriority(l)
<1> DEFINE t == CHOOSE x \in HardwareTask(l) : TRUE
<1>1. t \in HardwareTask(l)
  OBVIOUS
<1>2. QED BY <1>1 DEF HardwareTask, LinePriority

LEMMA NamesApart ==
    ASSUME NEW a \in Apps
    PROVE  /\ \A c \in Names(a) : /\ c \in Contexts(a)
                                 /\ c \notin {"init", "idle", "loop", "wfi", "dispatcher"}
           /\ "wfi" \notin Contexts(a) /\ "dispatcher" \notin Contexts(a)
           /\ "init" \in Contexts(a) /\ a.idle \in BOOLEAN
           /\ "idle" \in Contexts(a) <=> a.idle
           /\ DOMAIN a.software \cap DOMAIN a.hardware = {}
<1>1. WellFormed(a)
  BY RuntimeAssumption
<1>2. QED BY <1>1 DEF WellFormed, Contexts, Names

LEMMA PriorityType ==
    ASSUME NEW a \in Apps, NEW c
    PROVE  PRIORITY(a, c) \in 0..255
<1>1. /\ \A t \in DOMAIN a.software : a.software[t].priority \in 1..255
      /\ \A t \in DOMAIN a.hardware : a.hardware[t].priority \in 1..255
      /\ DOMAIN a.software \cap DOMAIN a.hardware = {}
  BY RuntimeAssumption DEF WellFormed
<1>2. CASE c \in DOMAIN a.software
  BY <1>1, <1>2 DEF PRIORITY
<1>3. CASE c \in DOMAIN a.hardware
  BY <1>1, <1>3 DEF PRIORITY
<1>4. CASE c \notin DOMAIN a.software /\ c \notin DOMAIN a.hardware
  BY <1>1, <1>4 DEF PRIORITY
<1>5. QED BY <1>2, <1>3, <1>4

LEMMA LineType ==
    ASSUME app \in Apps, NEW l \in Lines(app)
    PROVE  LinePriority(l) \in 0..255
<1>1. CASE HardwareTask(l) # {}
  BY <1>1, HardwareLine, PriorityType
<1>2. CASE HardwareTask(l) = {}
  <2>1. l \in Range(app.interrupts)
    BY <1>2 DEF Lines, HardwareTask
  <2>2. LinePriority(l) \in DOMAIN app.interrupts
    BY <2>1, DispatcherLine
  <2>3. DOMAIN app.interrupts \subseteq 1..255
    BY RuntimeAssumption DEF WellFormed
  <2>4. QED BY <2>2, <2>3
<1>3. QED BY <1>1, <1>2

(* The ceiling is at least the priority of every user but init. *)
LEMMA CeilingIs ==
    ASSUME NEW a \in Apps, NEW r, NEW c \in Users(a, r), c # "init"
    PROVE  PRIORITY(a, c) <= Ceiling(a, r) /\ Ceiling(a, r) \in 0..255
<1> DEFINE users == Users(a, r) \ {"init"}
           S == {PRIORITY(a, d) : d \in users}
<1>1. 255 \in Nat /\ S \in SUBSET (0..255) /\ PRIORITY(a, c) \in S
  BY PriorityType
<1>2. users # {}
  OBVIOUS
<1>3. Ceiling(a, r) = Max(S)
  BY <1>2 DEF Ceiling
<1> HIDE DEF S
<1>4. PRIORITY(a, c) <= Max(S) /\ Max(S) \in 0..255
  BY <1>1, HighestIs
<1>5. QED BY <1>3, <1>4

-----------------------------------------------------------------------------
(* Frames, and what changes in one. *)
LEMMA CodeChanged ==
    ASSUME NEW f, IsFrame(f), NEW x
    PROVE  LET g == [f EXCEPT !.code = x]
           IN  /\ IsFrame(g) /\ g.line = f.line /\ g.context = f.context
               /\ g.locked = f.locked /\ g.code = x
BY DEF IsFrame

LEMMA LocksChanged ==
    ASSUME NEW f, IsFrame(f), NEW x
    PROVE  LET g == [f EXCEPT !.locked = x]
           IN  /\ IsFrame(g) /\ g.line = f.line /\ g.context = f.context
               /\ g.locked = x /\ g.code = f.code
BY DEF IsFrame

LEMMA ArgsChanged ==
    ASSUME NEW f, IsFrame(f), NEW x
    PROVE  LET g == [f EXCEPT !.args = x]
           IN  /\ IsFrame(g) /\ g.line = f.line /\ g.context = f.context
               /\ g.locked = f.locked /\ g.code = f.code
BY DEF IsFrame

LEMMA NewFrame ==
    ASSUME app \in Apps, NEW l, NEW args,
           NEW c \in Contexts(app) \cup {"wfi", "dispatcher"}
    PROVE  LET g == Frame(l, c, args)
           IN  IsFrame(g) /\ InCode(app, g) /\ g.line = l /\ g.context = c
<1> DEFINE g == Frame(l, c, args)
<1>1. /\ IsFrame(g) /\ g.line = l /\ g.context = c /\ g.locked = <<>>
      /\ g.code = IF c \in DOMAIN app.code THEN app.code[c] ELSE <<>>
  BY DEF Frame, IsFrame
<1> HIDE DEF g
<1>2. CASE c \in Contexts(app)
  <2>1. g.code = app.code[c] /\ app.code[c] \in Seq(Instructions(app, c))
    BY <1>1, <1>2, Compiled
  <2>2. g.locked \in Seq(Proxies(app, c))
    BY <1>1, EmptySeq
  <2>3. QED BY <1>1, <1>2, <2>1, <2>2 DEF InCode, g
<1>3. CASE c \notin Contexts(app)
  <2>1. c \notin DOMAIN app.code
    <3>1. DOMAIN app.code = {"loop"} \cup Contexts(app)
      BY RuntimeAssumption
    <3>2. QED BY <1>3, <3>1
  <2>2. QED BY <1>1, <1>3, <2>1 DEF InCode, g
<1>4. QED BY <1>1, <1>2, <1>3 DEF g

LEMMA SeqRange ==
    ASSUME NEW X, NEW s \in Seq(X)
    PROVE  s \in Seq(Range(s)) /\ \A i \in 1..Len(s) : s[i] \in Range(s)
<1>1. Len(s) \in Nat /\ DOMAIN s = 1..Len(s) /\ s = [i \in 1..Len(s) |-> s[i]]
  OBVIOUS
<1>2. \A i \in 1..Len(s) : s[i] \in Range(s)
  BY <1>1 DEF Range
<1>3. s \in [1..Len(s) -> Range(s)]
  BY <1>1, <1>2, Zenon
<1>4. QED BY <1>1, <1>2, <1>3

LEMMA StackIs ==
    ASSUME StackInv
    PROVE  /\ stack \in Seq(Range(stack)) /\ Len(stack) \in Nat /\ Len(stack) > 0
           /\ DOMAIN stack = 1..Len(stack)
           /\ Current = stack[Len(stack)] /\ IsFrame(Current) /\ InCode(app, Current)
           /\ Len(stack) = 1 => AtBottom(app, Current)
           /\ Len(stack) # 1 => Serves(app, Current) /\ Len(stack) > 1
<1>1. stack \in Seq(Range(stack)) /\ stack # <<>>
  BY DEF StackInv
<1>2. Len(stack) \in Nat /\ Len(stack) > 0 /\ DOMAIN stack = 1..Len(stack)
  BY <1>1
<1>3. Current = stack[Len(stack)]
  BY DEF Current, Last
<1>4. QED BY <1>1, <1>2, <1>3 DEF StackInv

(* The frame on top goes over into another of its line. *)
MayFollow(f) ==
    /\ f.line = Current.line /\ IsFrame(f) /\ InCode(app, f)
    /\ Len(stack) = 1 => AtBottom(app, f)
    /\ Len(stack) # 1 => Serves(app, f)

TopIs(f) ==
    /\ MayFollow(f) /\ stack' = Append(Front(stack), f)
    /\ primask' = IF Len(stack) = 1 THEN f.context = "init" ELSE primask

TopPopped ==
    Len(stack) > 1 /\ stack' = Front(stack) /\ primask' = primask

(* A handler starts above all that is on the stack. *)
FramePushed(f) ==
    /\ stack' = Append(stack, f) /\ IsFrame(f) /\ InCode(app, f) /\ Serves(app, f)
    /\ ~primask /\ primask' = primask
    /\ \A p \in Ceilings \cup Active : LineLevel(app, f.line) > p


LEMMA TopKeeps ==
    ASSUME StackInv, LevelInv, app' = app, NEW f, TopIs(f)
    PROVE  /\ StackInv' /\ LevelInv'
           /\ Len(stack') = Len(stack) /\ \A i \in 1..Len(stack) : stack'[i].line = stack[i].line
<1> DEFINE n == Len(stack)
           X == Range(stack) \cup {f}
<1>1. n \in Nat /\ n > 0 /\ n \in 1..n /\ Current = stack[n] /\ stack \in Seq(X)
  <2>1. stack \in Seq(Range(stack)) /\ n \in Nat /\ n > 0 /\ Current = stack[n]
    BY StackIs
  <2>2. QED BY <2>1
<1>2. /\ stack' \in Seq(X) /\ Len(stack') = n /\ stack'[n] = f
      /\ \A i \in 1..n : i # n => stack'[i] = stack[i]
  <2>1. OnTop(X, stack, f, Append(Front(stack), f))
    BY <1>1, ReplacedTop
  <2>2. QED BY <2>1 DEF OnTop, TopIs
<1>3. /\ f.line = Current.line /\ IsFrame(f) /\ InCode(app, f)
      /\ n = 1 => AtBottom(app, f) /\ primask' = (f.context = "init")
      /\ n # 1 => Serves(app, f) /\ primask' = primask
  BY DEF TopIs, MayFollow
<1>4. /\ AtBottom(app, stack[1]) /\ primask = (stack[1].context = "init")
      /\ primask => n = 1
      /\ \A i \in 2..n : Serves(app, stack[i])
      /\ \A i \in 1..n : IsFrame(stack[i]) /\ InCode(app, stack[i])
  BY DEF StackInv
<1>5. \A i, j \in 1..n : i < j =>
         /\ i > 1 => LineLevel(app, stack[i].line) < LineLevel(app, stack[j].line)
         /\ \A r \in Range(stack[i].locked) : Ceiling(app, r) < LineLevel(app, stack[j].line)
  BY DEF LevelInv
<1>6. stack' \in Seq(Range(stack')) /\ stack' # <<>>
  <2>1. stack' \in Seq(Range(stack'))
    BY <1>2, SeqRange
  <2>2. QED BY <1>1, <1>2, <2>1
<1> HIDE DEF n, X
<1>7. \A i \in 1..n : stack'[i].line = stack[i].line
  BY <1>1, <1>2, <1>3
<1>8. AtBottom(app, stack'[1]) /\ primask' = (stack'[1].context = "init")
  <2>1. CASE n = 1
    BY <1>1, <1>2, <1>3, <2>1
  <2>2. CASE n # 1
    <3>1. 1 \in 1..n /\ stack'[1] = stack[1]
      BY <1>1, <1>2, <2>2
    <3>2. QED BY <1>3, <1>4, <2>2, <3>1
  <2>3. QED BY <2>1, <2>2
<1>9. primask' => n = 1
  BY <1>3, <1>4
<1>10. ASSUME NEW i \in 2..n PROVE Serves(app, stack'[i])
  <2>1. i \in 1..n /\ n # 1
    BY <1>1
  <2>2. QED BY <1>2, <1>3, <1>4, <2>1
<1>11. ASSUME NEW i \in 1..n PROVE IsFrame(stack'[i]) /\ InCode(app, stack'[i])
  BY <1>2, <1>3, <1>4
<1>12. ASSUME NEW i \in 1..n, NEW j \in 1..n, i < j
       PROVE  /\ i > 1 => LineLevel(app, stack'[i].line) < LineLevel(app, stack'[j].line)
              /\ \A r \in Range(stack'[i].locked) :
                    Ceiling(app, r) < LineLevel(app, stack'[j].line)
  <2>1. i # n
    BY <1>1, <1>12
  <2>2. stack'[i] = stack[i] /\ stack'[j].line = stack[j].line
    BY <1>2, <1>7, <2>1
  <2>3. QED BY <1>5, <1>12, <2>2
<1>13. StackInv'
  BY <1>2, <1>6, <1>8, <1>9, <1>10, <1>11 DEF StackInv, n
<1>14. LevelInv'
  BY <1>2, <1>12 DEF LevelInv, n
<1>15. QED BY <1>2, <1>7, <1>13, <1>14 DEF n

LEMMA PopKeeps ==
    ASSUME StackInv, LevelInv, app' = app, TopPopped
    PROVE  /\ StackInv' /\ LevelInv'
           /\ Len(stack') = Len(stack) - 1
           /\ \A i \in 1..Len(stack') : stack'[i] = stack[i] /\ i \in 1..Len(stack)
<1> DEFINE n == Len(stack')
<1>1. stack \in Seq(Range(stack)) /\ Len(stack) \in Nat /\ Len(stack) > 1
  BY StackIs DEF TopPopped
<1>2. /\ stack' \in Seq(Range(stack)) /\ n = Len(stack) - 1
      /\ \A i \in 1..n : stack'[i] = stack[i] /\ i \in 1..Len(stack)
  BY <1>1, PoppedOff DEF TopPopped
<1>3. /\ AtBottom(app, stack[1]) /\ primask = (stack[1].context = "init")
      /\ primask => Len(stack) = 1
      /\ \A i \in 2..Len(stack) : Serves(app, stack[i])
      /\ \A i \in 1..Len(stack) : IsFrame(stack[i]) /\ InCode(app, stack[i])
  BY DEF StackInv
<1>4. \A i, j \in 1..Len(stack) : i < j =>
         /\ i > 1 => LineLevel(app, stack[i].line) < LineLevel(app, stack[j].line)
         /\ \A r \in Range(stack[i].locked) : Ceiling(app, r) < LineLevel(app, stack[j].line)
  BY DEF LevelInv
<1>5. ~primask /\ primask' = primask /\ n \in Nat /\ n > 0
  BY <1>1, <1>2, <1>3 DEF TopPopped
<1>6. stack' \in Seq(Range(stack')) /\ stack' # <<>>
  <2>1. stack' \in Seq(Range(stack'))
    BY <1>2, SeqRange
  <2>2. QED BY <1>5, <2>1
<1> HIDE DEF n
<1>7. \A i \in 2..n : i \in 1..n /\ i \in 2..Len(stack)
  BY <1>1, <1>2, <1>5
<1>8. AtBottom(app, stack'[1]) /\ primask' = (stack'[1].context = "init")
  <2>1. 1 \in 1..n
    BY <1>5
  <2>2. QED BY <1>2, <1>3, <1>5, <2>1
<1>9. \A i \in 2..n : Serves(app, stack'[i])
  BY <1>2, <1>3, <1>7
<1>10. \A i \in 1..n : IsFrame(stack'[i]) /\ InCode(app, stack'[i])
  BY <1>2, <1>3
<1>11. \A i, j \in 1..n : i < j =>
         /\ i > 1 => LineLevel(app, stack'[i].line) < LineLevel(app, stack'[j].line)
         /\ \A r \in Range(stack'[i].locked) : Ceiling(app, r) < LineLevel(app, stack'[j].line)
  BY <1>2, <1>4
<1>12. StackInv'
  BY <1>5, <1>6, <1>8, <1>9, <1>10 DEF StackInv, n
<1>13. LevelInv'
  BY <1>11 DEF LevelInv, n
<1>14. QED BY <1>2, <1>12, <1>13 DEF n

LEMMA PushKeeps ==
    ASSUME StackInv, LevelInv, app \in Apps, app' = app, NEW f, FramePushed(f)
    PROVE  /\ StackInv' /\ LevelInv'
           /\ Len(stack') = Len(stack) + 1 /\ stack'[Len(stack) + 1] = f
           /\ \A i \in 1..Len(stack) : stack'[i] = stack[i]
<1> DEFINE n == Len(stack)
           X == Range(stack) \cup {f}
<1>1. stack \in Seq(X) /\ n \in Nat /\ n > 0 /\ DOMAIN stack = 1..n
  <2>1. stack \in Seq(Range(stack)) /\ n \in Nat /\ n > 0 /\ DOMAIN stack = 1..n
    BY StackIs
  <2>2. QED BY <2>1
<1>2. /\ stack' \in Seq(X) /\ Len(stack') = n + 1 /\ stack'[n + 1] = f
      /\ \A i \in 1..n : stack'[i] = stack[i]
  BY <1>1, PushedOn DEF FramePushed
<1>3. /\ AtBottom(app, stack[1]) /\ primask = (stack[1].context = "init")
      /\ \A i \in 2..n : Serves(app, stack[i])
      /\ \A i \in 1..n : IsFrame(stack[i]) /\ InCode(app, stack[i])
  BY DEF StackInv
<1>4. \A i, j \in 1..n : i < j =>
         /\ i > 1 => LineLevel(app, stack[i].line) < LineLevel(app, stack[j].line)
         /\ \A r \in Range(stack[i].locked) : Ceiling(app, r) < LineLevel(app, stack[j].line)
  BY DEF LevelInv
<1>5. /\ IsFrame(f) /\ InCode(app, f) /\ Serves(app, f) /\ ~primask /\ primask' = primask
      /\ \A p \in Ceilings \cup Active : LineLevel(app, f.line) > p
  BY DEF FramePushed
<1>6. \A i \in 2..n : LineLevel(app, stack[i].line) \in Active
  BY LevelIs DEF Active
<1>7. \A i \in 1..n : \A r \in Range(stack[i].locked) : Ceiling(app, r) \in Ceilings
  BY <1>1 DEF Ceilings
<1>8. stack' \in Seq(Range(stack')) /\ stack' # <<>>
  <2>1. stack' \in Seq(Range(stack'))
    BY <1>2, SeqRange
  <2>2. QED BY <1>1, <1>2, <2>1
<1> HIDE DEF n, X
<1>9. /\ \A i \in 1..(n + 1) : i = n + 1 \/ i \in 1..n
      /\ \A i \in 2..(n + 1) : i = n + 1 \/ (i \in 2..n /\ i \in 1..n)
  BY <1>1
<1>10. AtBottom(app, stack'[1]) /\ primask' = (stack'[1].context = "init")
  <2>1. 1 \in 1..n
    BY <1>1
  <2>2. QED BY <1>2, <1>3, <1>5, <2>1
<1>11. \A i \in 2..(n + 1) : Serves(app, stack'[i])
  BY <1>2, <1>3, <1>5, <1>9
<1>12. \A i \in 1..(n + 1) : IsFrame(stack'[i]) /\ InCode(app, stack'[i])
  BY <1>2, <1>3, <1>5, <1>9
<1>13. ASSUME NEW i \in 1..(n + 1), NEW j \in 1..(n + 1), i < j
       PROVE  /\ i > 1 => LineLevel(app, stack'[i].line) < LineLevel(app, stack'[j].line)
              /\ \A r \in Range(stack'[i].locked) :
                    Ceiling(app, r) < LineLevel(app, stack'[j].line)
  <2>1. i \in 1..n /\ (i > 1 => i \in 2..n)
    BY <1>1, <1>13
  <2>2. stack'[i] = stack[i]
    BY <1>2, <2>1
  <2>3. CASE j \in 1..n
    BY <1>2, <1>4, <1>13, <2>1, <2>2, <2>3
  <2>4. CASE j = n + 1
    <3>1. stack'[j].line = f.line
      BY <1>2, <2>4
    <3>2. i > 1 => LineLevel(app, stack[i].line) < LineLevel(app, f.line)
      <4>1. ASSUME i > 1 PROVE LineLevel(app, f.line) > LineLevel(app, stack[i].line)
        BY <1>5, <1>6, <2>1, <4>1
      <4>2. /\ LineLevel(app, f.line) \in 0..255
            /\ i > 1 => LineLevel(app, stack[i].line) \in 0..255
        <5>1. f.line \in Lines(app) /\ (i > 1 => stack[i].line \in Lines(app))
          BY <1>3, <1>5, <2>1 DEF Serves
        <5>2. QED BY <5>1, LineType, LevelIs
      <4>3. QED BY <4>1, <4>2
    <3>3. ASSUME NEW r \in Range(stack[i].locked)
          PROVE  Ceiling(app, r) < LineLevel(app, f.line)
      BY <1>5, <1>7, <2>1
    <3>4. QED BY <2>2, <3>1, <3>2, <3>3
  <2>5. QED BY <1>9, <2>3, <2>4
<1>14. StackInv'
  BY <1>2, <1>5, <1>8, <1>10, <1>11, <1>12 DEF StackInv, n
<1>15. LevelInv'
  BY <1>2, <1>13 DEF LevelInv, n
<1>16. QED BY <1>2, <1>14, <1>15 DEF n

-----------------------------------------------------------------------------
(* Counting the messages for a task. *)
WaitingAt(q, t) == {i \in 1..Len(q) : q[i].task = t}

LEMMA WaitingIs ==
    ASSUME NEW X, NEW q \in Seq(X), NEW t
    PROVE  /\ IsFiniteSet(WaitingAt(q, t)) /\ Waiting(q, t) = Cardinality(WaitingAt(q, t))
           /\ Waiting(q, t) \in Nat
<1>1. Len(q) \in Nat /\ DOMAIN q = 1..Len(q)
  OBVIOUS
<1>2. IsFiniteSet(1..Len(q))
  BY <1>1, FS_Interval
<1>3. IsFiniteSet(WaitingAt(q, t))
  BY <1>2, FS_Subset DEF WaitingAt
<1>4. Waiting(q, t) = Cardinality(WaitingAt(q, t))
  BY <1>1 DEF Waiting, WaitingAt
<1>5. QED BY <1>3, <1>4, FS_CardinalityType

LEMMA NoneWaiting == \A t : Waiting(<<>>, t) = 0
<1> SUFFICES ASSUME NEW t PROVE Waiting(<<>>, t) = 0
  OBVIOUS
<1>1. {i \in DOMAIN <<>> : <<>>[i].task = t} = {}
  OBVIOUS
<1>2. QED BY <1>1, FS_EmptySet DEF Waiting

(* One more message, wherever in the queue it is put. *)
PutIn(q, k, e, s) ==
    /\ Len(s) = Len(q) + 1
    /\ \A i \in 1..(Len(q) + 1) :
          s[i] = IF i < k THEN q[i] ELSE IF i = k THEN e ELSE q[i - 1]

LEMMA OneMore ==
    ASSUME NEW X, NEW q \in Seq(X), NEW s \in Seq(X), NEW k \in 1..(Len(q) + 1), NEW e,
           PutIn(q, k, e, s), NEW t
    PROVE  Waiting(s, t) = Waiting(q, t) + (IF e.task = t THEN 1 ELSE 0)
<1> DEFINE Q == WaitingAt(q, t)
           S == WaitingAt(s, t)
           T == S \ {k}
           shift == [i \in Q |-> IF i < k THEN i ELSE i + 1]
           n == Len(q)
<1>1. n \in Nat /\ Len(s) = n + 1 /\ k \in 1..(n + 1)
  BY DEF PutIn
<1>2. \A i \in 1..(n + 1) : s[i] = IF i < k THEN q[i] ELSE IF i = k THEN e ELSE q[i - 1]
  BY DEF PutIn
<1>3. IsFiniteSet(Q) /\ IsFiniteSet(S)
      /\ Waiting(q, t) = Cardinality(Q) /\ Waiting(s, t) = Cardinality(S)
      /\ Cardinality(Q) \in Nat /\ Cardinality(S) \in Nat
  BY WaitingIs
<1>4. /\ \A i : i \in Q <=> i \in 1..n /\ q[i].task = t
      /\ \A i : i \in S <=> i \in 1..(n + 1) /\ s[i].task = t
  BY <1>1 DEF WaitingAt
<1> HIDE DEF n, Q, S
<1>5. shift \in [Q -> T]
  <2>1. ASSUME NEW i \in Q PROVE (IF i < k THEN i ELSE i + 1) \in T
    <3>1. i \in 1..n /\ q[i].task = t
      BY <1>4
    <3>2. CASE i < k
      <4>1. i \in 1..(n + 1) /\ i # k /\ s[i] = q[i]
        BY <1>1, <1>2, <3>1, <3>2
      <4>2. QED BY <1>4, <3>1, <3>2, <4>1
    <3>3. CASE ~(i < k)
      <4>1. i + 1 \in 1..(n + 1) /\ i + 1 # k /\ s[i + 1] = q[i]
        <5>1. /\ i + 1 \in 1..(n + 1) /\ ~(i + 1 < k) /\ i + 1 # k
              /\ (i + 1) - 1 = i
          BY <1>1, <3>1, <3>3
        <5>2. QED BY <1>2, <5>1
      <4>2. QED BY <1>4, <3>1, <3>3, <4>1
    <3>4. QED BY <3>2, <3>3
  <2>2. QED BY <2>1
<1>6. IsInjective(shift)
  <2>1. \A i \in Q : i \in Int
    BY <1>1, <1>4
  <2>2. QED BY <1>1, <2>1 DEF IsInjective
<1>7. \A j \in T : \E i \in Q : shift[i] = j
  <2> SUFFICES ASSUME NEW j \in T PROVE \E i \in Q : shift[i] = j
    OBVIOUS
  <2>1. j \in 1..(n + 1) /\ s[j].task = t /\ j # k
    BY <1>4
  <2>2. CASE j < k
    <3>1. j \in 1..n /\ s[j] = q[j]
      BY <1>1, <1>2, <2>1, <2>2
    <3>2. QED BY <1>4, <2>1, <2>2, <3>1
  <2>3. CASE ~(j < k)
    <3>1. j - 1 \in 1..n /\ s[j] = q[j - 1] /\ ~(j - 1 < k) /\ (j - 1) + 1 = j
      BY <1>1, <1>2, <2>1, <2>3
    <3>2. QED BY <1>4, <2>1, <3>1
  <2>4. QED BY <2>2, <2>3
<1>8. Cardinality(T) = Cardinality(Q) /\ IsFiniteSet(T)
  <2>1. ExistsBijection(Q, T)
    <3> HIDE DEF shift, T
    <3>1. QED BY <1>5, <1>6, <1>7 DEF ExistsBijection, Bijection, Injection, Surjection
  <2>2. QED BY <1>3, <2>1, FS_Bijection
<1>9. k \in S <=> e.task = t
  <2>1. s[k] = e /\ k \in 1..(n + 1)
    BY <1>1, <1>2
  <2>2. QED BY <1>4, <2>1
<1>10. CASE e.task = t
  <2>1. S = T \cup {k} /\ k \notin T
    BY <1>9, <1>10
  <2>2. Cardinality(T \cup {k}) = Cardinality(T) + 1
    <3> HIDE DEF T
    <3>1. QED BY <1>8, <2>1, FS_AddElement
  <2>3. QED BY <1>3, <1>8, <1>10, <2>1, <2>2
<1>11. CASE e.task # t
  <2>1. S = T
    BY <1>9, <1>11
  <2>2. Waiting(s, t) = Waiting(q, t) /\ Waiting(q, t) \in Nat
    <3> HIDE DEF T
    <3>1. QED BY <1>3, <1>8, <2>1
  <2>3. QED BY <1>11, <2>2
<1>12. QED BY <1>10, <1>11

LEMMA OneAppended ==
    ASSUME NEW X, NEW q \in Seq(X), NEW e \in X, NEW t
    PROVE  Waiting(Append(q, e), t) = Waiting(q, t) + (IF e.task = t THEN 1 ELSE 0)
<1> DEFINE s == Append(q, e)
           k == Len(q) + 1
<1>1. Len(q) \in Nat /\ k \in 1..(Len(q) + 1)
  OBVIOUS
<1>2. s \in Seq(X) /\ Len(s) = k /\ s[k] = e /\ \A i \in 1..Len(q) : s[i] = q[i]
  BY PushedOn
<1>3. PutIn(q, k, e, s)
  BY <1>1, <1>2 DEF PutIn
<1> HIDE DEF s, k
<1>4. Waiting(s, t) = Waiting(q, t) + (IF e.task = t THEN 1 ELSE 0)
  BY <1>1, <1>2, <1>3, OneMore
<1>5. QED BY <1>4 DEF s

(* A queue with one more entry. *)
LEMMA EntryPut ==
    ASSUME NEW X, NEW q \in Seq(X), NEW k \in 1..(Len(q) + 1), NEW e \in X
    PROVE  InsertAt(q, k, e) \in Seq(X) /\ PutIn(q, k, e, InsertAt(q, k, e))
BY Inserted DEF PutIn

LEMMA OneInserted ==
    ASSUME NEW X, NEW q \in Seq(X), NEW e \in X, NEW k \in 1..(Len(q) + 1), NEW t
    PROVE  Waiting(InsertAt(q, k, e), t) = Waiting(q, t) + (IF e.task = t THEN 1 ELSE 0)
<1> DEFINE s == InsertAt(q, k, e)
<1> HIDE DEF s
<1>1. s \in Seq(X) /\ PutIn(q, k, e, s)
  BY EntryPut DEF s
<1>2. Waiting(s, t) = Waiting(q, t) + (IF e.task = t THEN 1 ELSE 0)
  BY <1>1, OneMore
<1>3. QED BY <1>2 DEF s

LEMMA OneTaken ==
    ASSUME NEW X, NEW q \in Seq(X), q # <<>>, NEW t
    PROVE  /\ Waiting(q, t) = Waiting(Tail(q), t) + (IF Head(q).task = t THEN 1 ELSE 0)
           /\ Waiting(Tail(q), t) \in Nat
<1> DEFINE r == Tail(q)
<1>1. /\ r \in Seq(X) /\ Len(q) \in Nat /\ Len(q) > 0 /\ Len(r) = Len(q) - 1
      /\ Head(q) = q[1] /\ \A i \in 1..(Len(q) - 1) : r[i] = q[i + 1]
  BY HeadTailProperties
<1>2. PutIn(r, 1, Head(q), q) /\ 1 \in 1..(Len(r) + 1)
  BY <1>1 DEF PutIn
<1> HIDE DEF r
<1>3. Waiting(q, t) = Waiting(r, t) + (IF Head(q).task = t THEN 1 ELSE 0)
  BY <1>1, <1>2, OneMore
<1>4. QED BY <1>1, <1>3, WaitingIs DEF r

-----------------------------------------------------------------------------
(* The instruction a context is at, and what is left after it. *)
LEMMA Ongoing ==
    ASSUME RuntimeInv, NEW op, Next_is(op)
    PROVE  /\ Current.context \in Contexts(app) /\ Running
           /\ Instruction \in Instructions(app, Current.context) /\ Instruction.op = op
           /\ MayFollow(After) /\ app \in Apps
           /\ After.context = Current.context /\ After.locked = Current.locked
           /\ After.code = Tail(Current.code)
           /\ After.code \in Seq(Instructions(app, Current.context))
           /\ Current.locked \in Seq(Proxies(app, Current.context))
<1> DEFINE f == Current
           I == Instructions(app, f.context)
<1>1. /\ app \in Apps /\ IsFrame(f) /\ InCode(app, f)
      /\ Len(stack) = 1 => AtBottom(app, f)
      /\ Len(stack) # 1 => Serves(app, f)
  BY StackIs DEF RuntimeInv
<1>2. Running /\ f.code # <<>> /\ Head(f.code).op = op
  BY DEF Next_is
<1>3. f.context \in Contexts(app) /\ f.code \in Seq(I) /\ f.locked \in Seq(Proxies(app, f.context))
  BY <1>1, <1>2 DEF InCode
<1> HIDE DEF I
<1>4. Head(f.code) \in I /\ Tail(f.code) \in Seq(I)
  BY <1>2, <1>3, HeadTailProperties
<1>5. /\ IsFrame(After) /\ After.line = f.line /\ After.context = f.context
      /\ After.locked = f.locked /\ After.code = Tail(f.code)
  <2>1. After = [f EXCEPT !.code = Tail(f.code)]
    BY DEF After
  <2> HIDE DEF f
  <2>2. QED BY <1>1, <2>1, CodeChanged
<1>6. InCode(app, After)
  BY <1>3, <1>4, <1>5 DEF InCode, I
<1>7. MayFollow(After)
  BY <1>1, <1>5, <1>6 DEF MayFollow, AtBottom, Serves
<1>8. QED BY <1>2, <1>3, <1>4, <1>5, <1>1, <1>7 DEF I, Instruction

(* The context goes on: what is common to its instructions. *)
LEMMA SameContext ==
    ASSUME RuntimeInv, NEW f, MayFollow(f), f.context = Current.context,
           stack' = Append(Front(stack), f), primask' = primask
    PROVE  TopIs(f)
<1>1. Len(stack) = 1 => primask = (Current.context = "init")
  BY StackIs DEF RuntimeInv, StackInv
<1>2. QED BY <1>1 DEF TopIs

(* The queues as they are. *)
LEMMA QueuesKept ==
    ASSUME app' = app, QueueInv, UNCHANGED queues, pended' \subseteq Lines(app)
    PROVE  QueueInv'
<1>1. FQ' = FQ /\ RQ' = RQ /\ TQ' = TQ /\ clock' = clock
  BY DEF queues
<1>2. ReadyTyped'
  BY <1>1 DEF QueueInv, ReadyTyped, PriorityOf
<1>3. Counted'
  BY <1>1 DEF QueueInv, Counted, PriorityOf
<1>4. TQ' \in Seq(Entries')
  BY <1>1 DEF QueueInv, Entries
<1>5. FQ' \in [DOMAIN app'.software -> Nat] /\ clock' \in 0..MaxTime
  BY <1>1 DEF QueueInv
<1>6. pended' \subseteq Lines(app')
  OBVIOUS
<1>7. QED BY <1>2, <1>3, <1>4, <1>5, <1>6 DEF QueueInv

(* The queues as they are, and the lines. *)
LEMMA QuietStep ==
    ASSUME RuntimeInv, app' = app, NEW f, TopIs(f), UNCHANGED queues, panicked' = panicked,
           pended \subseteq pended', pended' \subseteq Lines(app)
    PROVE  RuntimeInv'
<1>1. StackInv' /\ LevelInv'
  BY TopKeeps DEF RuntimeInv
<1>2. QueueInv'
  <2>1. pended' \subseteq Lines(app)
    BY DEF RuntimeInv, QueueInv
  <2>2. QED BY <2>1, QueuesKept DEF RuntimeInv
<1>3. PanicInv'
  BY DEF RuntimeInv, PanicInv, queues
<1>4. WakeInv'
  <2>1. Len(stack') = Len(stack) /\ \A i \in 1..Len(stack) : stack'[i].line = stack[i].line
    BY TopKeeps DEF RuntimeInv
  <2>2. \A i \in 2..Len(stack) : i \in 1..Len(stack)
    BY StackIs DEF RuntimeInv
  <2>3. \A i \in 2..Len(stack) : stack'[i].line = stack[i].line
    BY <2>1, <2>2
  <2>4. RQ' = RQ
    BY DEF queues
  <2>5. QED BY <2>1, <2>3, <2>4 DEF RuntimeInv, WakeInv
<1>5. QED BY <1>1, <1>2, <1>3, <1>4 DEF RuntimeInv

LEMMA Follows ==
    ASSUME RuntimeInv, NEW op, Next_is(op), NEW f, IsFrame(f),
           f.line = After.line, f.context = After.context,
           f.code \in Seq(Instructions(app, f.context)),
           f.locked \in Seq(Proxies(app, f.context))
    PROVE  MayFollow(f) /\ f.context = Current.context
<1>1. MayFollow(After) /\ After.context = Current.context /\ Current.context \in Contexts(app)
  BY Ongoing
<1>2. InCode(app, f)
  BY <1>1 DEF InCode
<1>3. QED BY <1>1, <1>2 DEF MayFollow, AtBottom, Serves

(* An instruction that leaves the queues alone. *)
LEMMA QuietInstruction ==
    ASSUME RuntimeInv, NEW op, Next_is(op), app' = app, primask' = primask,
           UNCHANGED queues, panicked' = panicked,
           pended \subseteq pended', pended' \subseteq Lines(app),
           NEW f, MayFollow(f), f.context = Current.context, ReplaceCurrent(f)
    PROVE  RuntimeInv'
<1>1. TopIs(f)
  BY SameContext DEF ReplaceCurrent
<1>2. QED BY <1>1, QuietStep

LEMMA PendedTyped == RuntimeInv => pended \subseteq Lines(app) /\ ~(Running /\ panicked)
BY DEF RuntimeInv, QueueInv, Running

LEMMA PlainSteps ==
    ASSUME RuntimeInv, print \/ add \/ exit
    PROVE  RuntimeInv'
<1>1. PICK op \in {"print", "add", "exit"} : Next_is(op)
  BY DEF print, add, exit
<1>2. /\ app' = app /\ primask' = primask /\ UNCHANGED queues /\ panicked' = panicked
      /\ pended' = pended /\ ReplaceCurrent(After)
  BY DEF print, add, exit, Done, queues, output
<1>3. MayFollow(After) /\ After.context = Current.context
  BY <1>1, Ongoing
<1>4. pended \subseteq Lines(app)
  BY PendedTyped
<1>5. QED BY <1>1, <1>2, <1>3, <1>4, QuietInstruction

LEMMA PendStep ==
    ASSUME RuntimeInv, pend
    PROVE  RuntimeInv'
<1>1. /\ Next_is("pend") /\ app' = app /\ primask' = primask /\ UNCHANGED queues
      /\ panicked' = panicked /\ pended' = pended \cup {Instruction.line}
      /\ ReplaceCurrent(After)
  BY DEF pend, Done, queues, output
<1>2. /\ Current.context \in Contexts(app) /\ app \in Apps
      /\ Instruction \in Instructions(app, Current.context) /\ Instruction.op = "pend"
      /\ MayFollow(After) /\ After.context = Current.context
  BY <1>1, Ongoing
<1>3. Instruction.line \in Lines(app)
  BY <1>2, RuntimeAssumption DEF Compiles
<1>4. pended \subseteq pended' /\ pended' \subseteq Lines(app)
  BY <1>1, <1>3, PendedTyped
<1>5. QED BY <1>1, <1>2, <1>4, QuietInstruction

LEMMA BindStep ==
    ASSUME RuntimeInv, bind
    PROVE  RuntimeInv'
<1>1. Next_is("bind")
  BY DEF bind
<1>2. PICK x : ReplaceCurrent([After EXCEPT !.args = x])
  BY DEF bind
<1> DEFINE f == [After EXCEPT !.args = x]
<1>3. /\ app' = app /\ primask' = primask /\ UNCHANGED queues /\ panicked' = panicked
      /\ pended' = pended
  BY DEF bind, queues, output
<1>4. /\ IsFrame(After) /\ After.context = Current.context
      /\ After.code \in Seq(Instructions(app, Current.context))
      /\ After.locked \in Seq(Proxies(app, Current.context))
  BY <1>1, Ongoing DEF MayFollow
<1>5. /\ IsFrame(f) /\ f.line = After.line /\ f.context = After.context
      /\ f.code = After.code /\ f.locked = After.locked
  BY <1>4, ArgsChanged
<1>6. ReplaceCurrent(f)
  BY <1>2
<1> HIDE DEF f
<1>7. MayFollow(f) /\ f.context = Current.context
  BY <1>1, <1>4, <1>5, Follows
<1>8. QED BY <1>1, <1>3, <1>6, <1>7, PendedTyped, QuietInstruction

LEMMA WhenStep ==
    ASSUME RuntimeInv, when
    PROVE  RuntimeInv'
<1> DEFINE I == Instructions(app, Current.context)
<1>1. Next_is("when")
  BY DEF when
<1>2. PICK taken \in {Instruction.then, Instruction.else} :
         ReplaceCurrent([After EXCEPT !.code = taken \o After.code])
  BY DEF when
<1> DEFINE f == [After EXCEPT !.code = taken \o After.code]
<1>3. /\ app' = app /\ primask' = primask /\ UNCHANGED queues /\ panicked' = panicked
      /\ pended' = pended
  BY DEF when, queues, output
<1>4. /\ IsFrame(After) /\ After.context = Current.context /\ After.code \in Seq(I)
      /\ After.locked \in Seq(Proxies(app, Current.context))
      /\ Current.context \in Contexts(app) /\ app \in Apps
      /\ Instruction \in I /\ Instruction.op = "when"
  BY <1>1, Ongoing DEF MayFollow
<1>5. taken \in Seq(I)
  <2>1. taken \in Blocks(app, Current.context)
    BY <1>2, <1>4, Compiled
  <2>2. QED BY <1>4, <2>1, Compiled
<1>6. taken \o After.code \in Seq(I)
  <2> HIDE DEF I
  <2>1. QED BY <1>4, <1>5
<1>7. /\ IsFrame(f) /\ f.line = After.line /\ f.context = After.context
      /\ f.code = taken \o After.code /\ f.locked = After.locked
  BY <1>4, CodeChanged
<1>8. ReplaceCurrent(f)
  BY <1>2
<1> HIDE DEF f
<1>9. MayFollow(f) /\ f.context = Current.context
  BY <1>1, <1>4, <1>6, <1>7, Follows
<1>10. QED BY <1>1, <1>3, <1>8, <1>9, PendedTyped, QuietInstruction

LEMMA SectionSteps ==
    ASSUME RuntimeInv, lock \/ unlock
    PROVE  RuntimeInv'
<1> DEFINE P == Proxies(app, Current.context)
<1>1. PICK op \in {"lock", "unlock"} : Next_is(op)
  BY DEF lock, unlock
<1>2. /\ app' = app /\ primask' = primask /\ UNCHANGED queues /\ panicked' = panicked
      /\ pended' = pended
  BY DEF lock, unlock, queues, output
<1>3. /\ IsFrame(After) /\ After.context = Current.context
      /\ After.code \in Seq(Instructions(app, Current.context))
      /\ After.locked \in Seq(P)
      /\ Current.context \in Contexts(app) /\ app \in Apps
      /\ Instruction \in Instructions(app, Current.context)
  BY <1>1, Ongoing DEF MayFollow
<1>4. PICK x \in Seq(P) : ReplaceCurrent([After EXCEPT !.locked = x])
  <2>1. CASE lock
    <3>1. Instruction.op = "lock"
      BY <2>1 DEF lock, Next_is, Instruction
    <3>2. Instruction.resource \in P
      BY <1>3, <3>1, RuntimeAssumption DEF Compiles
    <3>3. Append(After.locked, Instruction.resource) \in Seq(P)
      <4> HIDE DEF P
      <4>1. QED BY <1>3, <3>2
    <3>4. ReplaceCurrent([After EXCEPT !.locked = Append(After.locked, Instruction.resource)])
      BY <2>1 DEF lock
    <3>5. QED BY <3>3, <3>4
  <2>2. CASE unlock
    <3>1. Front(After.locked) \in Seq(P)
      <4> HIDE DEF P
      <4>1. CASE After.locked = <<>>
        BY <1>3, <4>1 DEF Front
      <4>2. CASE After.locked # <<>>
        <5>1. Len(After.locked) > 0
          BY <1>3, <4>2
        <5>2. QED BY <1>3, <5>1, PoppedOff
      <4>3. QED BY <4>1, <4>2
    <3>2. ReplaceCurrent([After EXCEPT !.locked = Front(After.locked)])
      BY <2>2 DEF unlock
    <3>3. QED BY <3>1, <3>2
  <2>3. QED BY <2>1, <2>2
<1> DEFINE f == [After EXCEPT !.locked = x]
<1>5. /\ IsFrame(f) /\ f.line = After.line /\ f.context = After.context
      /\ f.code = After.code /\ f.locked = x
  BY <1>3, LocksChanged
<1>6. ReplaceCurrent(f)
  BY <1>4
<1> HIDE DEF f
<1>7. MayFollow(f) /\ f.context = Current.context
  BY <1>1, <1>3, <1>4, <1>5, Follows
<1>8. QED BY <1>1, <1>2, <1>6, <1>7, PendedTyped, QuietInstruction

-----------------------------------------------------------------------------
(* Messages. *)
LEMMA TaskLine ==
    ASSUME app \in Apps, NEW t \in DOMAIN app.software
    PROVE  /\ PriorityOf(t) \in DOMAIN app.interrupts
           /\ app.interrupts[PriorityOf(t)] \in Lines(app)
           /\ PRIORITY(app, t) = PriorityOf(t)
           /\ t \in Names(app) /\ t \in Contexts(app)
<1>1. PriorityOf(t) \in DOMAIN app.interrupts
  BY RuntimeAssumption DEF WellFormed, PriorityOf
<1>2. app.interrupts[PriorityOf(t)] \in Lines(app)
  BY <1>1, DispatcherLines
<1>3. PRIORITY(app, t) = PriorityOf(t)
  <2>1. t \notin DOMAIN app.hardware
    BY NamesApart
  <2>2. QED BY <2>1 DEF PRIORITY, PriorityOf
<1>4. t \in Names(app) /\ t \in Contexts(app)
  BY DEF Names, Contexts
<1>5. QED BY <1>1, <1>2, <1>3, <1>4

LEMMA ReadyIs ==
    ASSUME RuntimeInv, NEW p \in DOMAIN app.interrupts
    PROVE  /\ RQ[p] \in Seq(Range(RQ[p])) /\ DOMAIN RQ = DOMAIN app.interrupts
           /\ \A i \in 1..Len(RQ[p]) :
                 RQ[p][i].task \in DOMAIN app.software /\ PriorityOf(RQ[p][i].task) = p
           /\ \A t : Waiting(RQ[p], t) \in Nat
<1>1. ReadyTyped
  BY DEF RuntimeInv, QueueInv
<1>2. QED BY <1>1, WaitingIs DEF ReadyTyped

LEMMA EnqueueKeeps ==
    ASSUME RuntimeInv, app' = app, NEW t \in DOMAIN app.software, NEW args, Enqueue(t, args)
    PROVE  /\ ReadyTyped'
           /\ \A u \in DOMAIN app.software :
                 Waiting(RQ'[PriorityOf(u)], u) =
                    Waiting(RQ[PriorityOf(u)], u) + (IF u = t THEN 1 ELSE 0)
           /\ pended \subseteq pended' /\ pended' \subseteq Lines(app)
           /\ \A p \in DOMAIN app.interrupts :
                 RQ'[p] # <<>> => RQ[p] # <<>> \/ app.interrupts[p] \in pended'
<1> DEFINE p == PriorityOf(t)
           m == Message(t, args)
           q == RQ[p]
           X == Range(q) \cup {m}
           s == Append(q, m)
<1>1. app \in Apps
  BY DEF RuntimeInv
<1>2. p \in DOMAIN app.interrupts /\ app.interrupts[p] \in Lines(app)
  BY <1>1, TaskLine
<1>3. /\ q \in Seq(Range(q)) /\ DOMAIN RQ = DOMAIN app.interrupts
      /\ \A i \in 1..Len(q) : q[i].task \in DOMAIN app.software /\ PriorityOf(q[i].task) = p
  BY <1>2, ReadyIs
<1>4. q \in Seq(X) /\ m \in X /\ m.task = t
  BY <1>3 DEF Message
<1>5. RQ' = [RQ EXCEPT ![p] = s] /\ pended' = pended \cup {app.interrupts[p]}
  BY DEF Enqueue
<1> HIDE DEF p, m, X
<1>6. s \in Seq(X) /\ Len(s) = Len(q) + 1 /\ s[Len(q) + 1] = m /\ \A i \in 1..Len(q) : s[i] = q[i]
  BY <1>4, PushedOn
<1>7. \A u : Waiting(s, u) = Waiting(q, u) + (IF m.task = u THEN 1 ELSE 0)
  BY <1>4, OneAppended
<1>8. s \in Seq(Range(s)) /\ Len(q) \in Nat
  <2>1. Len(q) \in Nat
    BY <1>4, LenProperties
  <2> HIDE DEF s, q
  <2>2. s \in Seq(Range(s))
    BY <1>6, SeqRange
  <2>3. QED BY <2>1, <2>2
<1> HIDE DEF s, q
<1>9. RQ'[p] = s /\ \A r \in DOMAIN app.interrupts : r # p => RQ'[r] = RQ[r]
  BY <1>2, <1>3, <1>5
<1>10. ASSUME NEW r \in DOMAIN app.interrupts
       PROVE  /\ RQ'[r] \in Seq(Range(RQ'[r]))
              /\ \A i \in 1..Len(RQ'[r]) :
                    RQ'[r][i].task \in DOMAIN app.software /\ PriorityOf(RQ'[r][i].task) = r
  <2>1. CASE r = p
    <3>1. \A i \in 1..(Len(q) + 1) : i = Len(q) + 1 \/ i \in 1..Len(q)
      BY <1>8
    <3>2. PriorityOf(m.task) = p
      BY <1>4 DEF p
    <3>3. \A i \in 1..Len(s) : s[i].task \in DOMAIN app.software /\ PriorityOf(s[i].task) = p
      BY <1>3, <1>4, <1>6, <3>1, <3>2
    <3>4. QED BY <1>8, <1>9, <2>1, <3>3
  <2>2. CASE r # p
    BY <1>9, <2>2, ReadyIs
  <2>3. QED BY <2>1, <2>2
<1>11. RQ' = [r \in DOMAIN app.interrupts |-> RQ'[r]]
  BY <1>3, <1>5
<1>12. ReadyTyped'
  BY <1>10, <1>11 DEF ReadyTyped, PriorityOf
<1>13. ASSUME NEW u \in DOMAIN app.software
       PROVE  Waiting(RQ'[PriorityOf(u)], u) =
                 Waiting(RQ[PriorityOf(u)], u) + (IF u = t THEN 1 ELSE 0)
  <2>1. PriorityOf(u) \in DOMAIN app.interrupts
    BY <1>1, TaskLine
  <2>2. CASE PriorityOf(u) = p
    BY <1>4, <1>7, <1>9, <2>2 DEF q
  <2>3. CASE PriorityOf(u) # p
    <3>1. u # t
      BY <2>3 DEF p
    <3>2. Waiting(RQ[PriorityOf(u)], u) \in Nat
      BY <2>1, ReadyIs
    <3>3. RQ'[PriorityOf(u)] = RQ[PriorityOf(u)]
      BY <1>9, <2>1, <2>3
    <3>4. QED BY <3>1, <3>2, <3>3
  <2>4. QED BY <2>2, <2>3
<1>14. pended \subseteq pended' /\ pended' \subseteq Lines(app)
  BY <1>2, <1>5, PendedTyped
<1>15. \A r \in DOMAIN app.interrupts :
          RQ'[r] # <<>> => RQ[r] # <<>> \/ app.interrupts[r] \in pended'
  BY <1>5, <1>9
<1>16. QED BY <1>12, <1>13, <1>14, <1>15

LEMMA WakeKept ==
    ASSUME RuntimeInv, app' = app, pended \subseteq pended',
           \A p \in DOMAIN app.interrupts :
              RQ'[p] # <<>> => RQ[p] # <<>> \/ app.interrupts[p] \in pended',
           \/ stack' = stack
           \/ Len(stack') = Len(stack) /\ \A i \in 1..Len(stack) : stack'[i].line = stack[i].line
    PROVE  WakeInv'
<1>1. Len(stack') = Len(stack) /\ \A i \in 2..Len(stack) : stack'[i].line = stack[i].line
  <2>1. \A i \in 2..Len(stack) : i \in 1..Len(stack)
    BY StackIs DEF RuntimeInv
  <2>2. QED BY <2>1
<1>2. QED BY <1>1 DEF RuntimeInv, WakeInv

LEMMA SlotsAre ==
    ASSUME RuntimeInv, NEW t \in DOMAIN app.software
    PROVE  /\ FQ \in [DOMAIN app.software -> Nat] /\ FQ[t] \in Nat
           /\ TQ \in Seq(Entries) /\ Waiting(TQ, t) \in Nat
           /\ Waiting(RQ[PriorityOf(t)], t) \in Nat
           /\ FQ[t] + Waiting(TQ, t) + Waiting(RQ[PriorityOf(t)], t) = app.software[t].capacity
<1>1. app \in Apps /\ FQ \in [DOMAIN app.software -> Nat] /\ TQ \in Seq(Entries) /\ Counted
  BY DEF RuntimeInv, QueueInv
<1>2. PriorityOf(t) \in DOMAIN app.interrupts
  BY <1>1, TaskLine
<1>3. Waiting(RQ[PriorityOf(t)], t) \in Nat
  BY <1>2, ReadyIs
<1>4. Waiting(TQ, t) \in Nat
  BY <1>1, WaitingIs
<1>5. QED BY <1>1, <1>3, <1>4 DEF Counted

(* The task an instruction names, if it is to spawn one. *)
LEMMA Spawned ==
    ASSUME RuntimeInv, NEW op \in {"spawn", "spawn_after"}, Next_is(op)
    PROVE  /\ Instruction.task \in DOMAIN app.software
           /\ op = "spawn_after" => Instruction.delay \in Nat
<1>1. /\ Current.context \in Contexts(app) /\ app \in Apps
      /\ Instruction \in Instructions(app, Current.context) /\ Instruction.op = op
  BY Ongoing
<1>2. QED BY <1>1, RuntimeAssumption DEF Compiles

(* The context goes on after an instruction. *)
LEMMA DoneIs ==
    ASSUME RuntimeInv, NEW op, Next_is(op), Done, app' = app, primask' = primask
    PROVE  /\ StackInv' /\ LevelInv' /\ app \in Apps /\ Running
           /\ Len(stack') = Len(stack)
           /\ \A i \in 1..Len(stack) : stack'[i].line = stack[i].line
<1>1. MayFollow(After) /\ After.context = Current.context /\ Running /\ app \in Apps
  BY Ongoing
<1>2. TopIs(After)
  BY <1>1, SameContext DEF Done, ReplaceCurrent
<1>3. QED BY <1>1, <1>2, TopKeeps DEF RuntimeInv

(* There is no slot: the spawn fails, and the caller panics or goes on. *)
LEMMA SpawnFails ==
    ASSUME RuntimeInv, NEW op \in {"spawn", "spawn_after"}, Next_is(op), Done,
           app' = app, primask' = primask, pended' = pended, UNCHANGED queues,
           FQ[Instruction.task] = 0
    PROVE  RuntimeInv'
<1>1. /\ StackInv' /\ LevelInv' /\ app \in Apps
      /\ Len(stack') = Len(stack)
      /\ \A i \in 1..Len(stack) : stack'[i].line = stack[i].line
  BY DoneIs
<1>2. QueueInv'
  <2>1. pended' \subseteq Lines(app)
    BY DEF RuntimeInv, QueueInv
  <2>2. QED BY <2>1, QueuesKept DEF RuntimeInv
<1>3. PanicInv'
  BY Spawned DEF PanicInv, queues
<1>4. WakeInv'
  BY <1>1, WakeKept DEF queues
<1>5. QED BY <1>1, <1>2, <1>3, <1>4 DEF RuntimeInv

LEMMA SpawnStep ==
    ASSUME RuntimeInv, spawn
    PROVE  RuntimeInv'
<1> DEFINE t == Instruction.task
<1>1. /\ Next_is("spawn") /\ Done /\ app' = app /\ primask' = primask
      /\ TQ' = TQ /\ clock' = clock
  BY DEF spawn
<1>2. t \in DOMAIN app.software
  BY <1>1, Spawned
<1>3. CASE FQ[t] > 0
  <2>1. PICK args : Enqueue(t, args)
    BY <1>3 DEF spawn
  <2>2. FQ' = [FQ EXCEPT ![t] = FQ[t] - 1] /\ panicked' = panicked
    BY <1>3 DEF spawn
  <2> HIDE DEF t
  <2>3. /\ ReadyTyped' /\ pended \subseteq pended' /\ pended' \subseteq Lines(app)
        /\ \A u \in DOMAIN app.software :
              Waiting(RQ'[PriorityOf(u)], u) =
                 Waiting(RQ[PriorityOf(u)], u) + (IF u = t THEN 1 ELSE 0)
        /\ \A p \in DOMAIN app.interrupts :
              RQ'[p] # <<>> => RQ[p] # <<>> \/ app.interrupts[p] \in pended'
    BY <1>1, <1>2, <2>1, EnqueueKeeps
  <2>4. /\ StackInv' /\ LevelInv' /\ app \in Apps /\ Running
        /\ Len(stack') = Len(stack)
        /\ \A i \in 1..Len(stack) : stack'[i].line = stack[i].line
    BY <1>1, DoneIs
  <2>5. FQ' \in [DOMAIN app.software -> Nat]
    BY <1>2, <1>3, <2>2, SlotsAre
  <2>6. Counted'
    <3>1. ASSUME NEW u \in DOMAIN app.software
          PROVE  FQ'[u] + Waiting(TQ, u) + Waiting(RQ'[PriorityOf(u)], u)
                    = app.software[u].capacity
      <4>1. /\ FQ[u] \in Nat /\ Waiting(TQ, u) \in Nat /\ Waiting(RQ[PriorityOf(u)], u) \in Nat
            /\ FQ[u] + Waiting(TQ, u) + Waiting(RQ[PriorityOf(u)], u)
                  = app.software[u].capacity
            /\ FQ'[u] = IF u = t THEN FQ[u] - 1 ELSE FQ[u]
        BY <1>2, <2>2, SlotsAre
      <4>2. QED BY <2>3, <4>1
    <3>2. QED BY <1>1, <3>1 DEF Counted, PriorityOf
  <2>7. QueueInv'
    BY <1>1, <2>3, <2>5, <2>6 DEF RuntimeInv, QueueInv, Entries
  <2>8. PanicInv'
    BY <2>2, <2>4 DEF PanicInv, Running
  <2>9. WakeInv'
    BY <1>1, <2>3, <2>4, WakeKept
  <2>10. QED BY <1>1, <2>4, <2>7, <2>8, <2>9 DEF RuntimeInv
<1>4. CASE ~(FQ[t] > 0)
  <2>1. FQ[t] = 0
    BY <1>2, <1>4, SlotsAre
  <2>2. pended' = pended /\ UNCHANGED queues
    BY <1>1, <1>4 DEF spawn, queues
  <2>3. QED BY <1>1, <2>1, <2>2, SpawnFails
<1>5. QED BY <1>3, <1>4

LEMMA SpawnAfterStep ==
    ASSUME RuntimeInv, spawn_after
    PROVE  RuntimeInv'
<1> DEFINE t == Instruction.task
           at == clock + Instruction.delay
           e == [at |-> at, task |-> t]
           S == {i \in DOMAIN TQ : TQ[i].at < at}
           k == Cardinality(S) + 1
<1>1. /\ Next_is("spawn_after") /\ Done /\ app' = app /\ primask' = primask
      /\ RQ' = RQ /\ clock' = clock /\ pended' = pended
  BY DEF spawn_after
<1>2. t \in DOMAIN app.software /\ Instruction.delay \in Nat
  BY <1>1, Spawned
<1>3. CASE FQ[t] > 0
  <2>1. /\ FQ' = [FQ EXCEPT ![t] = FQ[t] - 1] /\ panicked' = panicked
        /\ TQ' = InsertAt(TQ, k, e)
    BY <1>3 DEF spawn_after
  <2>2. e \in Entries /\ e.task = t
    <3>1. clock \in Nat
      BY RuntimeAssumption DEF RuntimeInv, QueueInv
    <3>2. QED BY <1>2, <3>1 DEF Entries
  <2>3. TQ \in Seq(Entries)
    BY DEF RuntimeInv, QueueInv
  <2>4. k \in 1..(Len(TQ) + 1)
    <3>1. Len(TQ) \in Nat /\ S \subseteq 1..Len(TQ)
      BY <2>3
    <3> HIDE DEF S
    <3>2. IsFiniteSet(1..Len(TQ)) /\ Cardinality(1..Len(TQ)) = Len(TQ)
      <4>1. /\ IsFiniteSet(1..Len(TQ))
            /\ Cardinality(1..Len(TQ)) = IF 1 > Len(TQ) THEN 0 ELSE Len(TQ) - 1 + 1
        BY <3>1, FS_Interval
      <4>2. (IF 1 > Len(TQ) THEN 0 ELSE Len(TQ) - 1 + 1) = Len(TQ)
        BY <3>1
      <4>3. QED BY <4>1, <4>2
    <3>3. Cardinality(S) \in Nat /\ Cardinality(S) <= Len(TQ)
      BY <3>1, <3>2, FS_Subset, FS_CardinalityType
    <3>4. QED BY <3>1, <3>3
  <2> HIDE DEF t, k, e
  <2>5. TQ' \in Seq(Entries)
    BY <2>1, <2>2, <2>3, <2>4, EntryPut
  <2>6. \A u : Waiting(TQ', u) = Waiting(TQ, u) + (IF e.task = u THEN 1 ELSE 0)
    BY <2>1, <2>2, <2>3, <2>4, OneInserted
  <2>7. /\ StackInv' /\ LevelInv' /\ app \in Apps /\ Running
        /\ Len(stack') = Len(stack)
        /\ \A i \in 1..Len(stack) : stack'[i].line = stack[i].line
    BY <1>1, DoneIs
  <2>8. FQ' \in [DOMAIN app.software -> Nat]
    BY <1>2, <1>3, <2>1, SlotsAre
  <2>9. Counted'
    <3>1. ASSUME NEW u \in DOMAIN app.software
          PROVE  FQ'[u] + Waiting(TQ', u) + Waiting(RQ[PriorityOf(u)], u)
                    = app.software[u].capacity
      <4>1. /\ FQ[u] \in Nat /\ Waiting(TQ, u) \in Nat /\ Waiting(RQ[PriorityOf(u)], u) \in Nat
            /\ FQ[u] + Waiting(TQ, u) + Waiting(RQ[PriorityOf(u)], u)
                  = app.software[u].capacity
            /\ FQ'[u] = IF u = t THEN FQ[u] - 1 ELSE FQ[u]
        BY <1>2, <2>1, SlotsAre
      <4>2. Waiting(TQ', u) = Waiting(TQ, u) + (IF u = t THEN 1 ELSE 0)
        BY <2>2, <2>6
      <4>3. QED BY <4>1, <4>2
    <3>2. QED BY <1>1, <3>1 DEF Counted, PriorityOf
  <2>10. QueueInv'
    BY <1>1, <2>5, <2>8, <2>9 DEF RuntimeInv, QueueInv, Entries, ReadyTyped, PriorityOf
  <2>11. PanicInv'
    BY <2>1, <2>7 DEF PanicInv, Running
  <2>12. WakeInv'
    BY <1>1, <2>7, WakeKept
  <2>13. QED BY <1>1, <2>7, <2>10, <2>11, <2>12 DEF RuntimeInv
<1>4. CASE ~(FQ[t] > 0)
  <2>1. FQ[t] = 0
    BY <1>2, <1>4, SlotsAre
  <2>2. UNCHANGED queues
    BY <1>1, <1>4 DEF spawn_after, queues
  <2>3. QED BY <1>1, <2>1, <2>2, SpawnFails
<1>5. QED BY <1>3, <1>4

-----------------------------------------------------------------------------
(* Dispatchers, returns and vectors. *)
LEMMA AtLine ==
    ASSUME RuntimeInv, Current.context = "dispatcher"
    PROVE  /\ Len(stack) > 1 /\ Len(stack) # 1 /\ Len(stack) \in Nat
           /\ Current.line \in Range(app.interrupts) /\ Current.line \in Lines(app)
           /\ Level \in DOMAIN app.interrupts /\ app.interrupts[Level] = Current.line
           /\ LineLevel(app, Current.line) = Level
<1>1. /\ app \in Apps /\ Len(stack) \in Nat /\ Current.context = "dispatcher"
      /\ Len(stack) = 1 => AtBottom(app, Current)
      /\ Len(stack) # 1 => Serves(app, Current) /\ Len(stack) > 1
  BY StackIs DEF RuntimeInv
<1>2. Len(stack) > 1 /\ Len(stack) # 1 /\ Serves(app, Current)
  <2>1. ~AtBottom(app, Current)
    BY <1>1 DEF AtBottom
  <2>2. QED BY <1>1, <2>1
<1>3. Current.line \in Lines(app) /\ Current.line \in Range(app.interrupts)
  BY <1>1, <1>2, NamesApart DEF Serves
<1>4. /\ Current.line # "main" /\ LinePriority(Current.line) \in DOMAIN app.interrupts
      /\ app.interrupts[LinePriority(Current.line)] = Current.line
      /\ (CHOOSE q \in DOMAIN app.interrupts : app.interrupts[q] = Current.line)
            = LinePriority(Current.line)
  BY <1>1, <1>3, DispatcherLine
<1>5. Level = LinePriority(Current.line)
  BY <1>4 DEF Level
<1>6. QED BY <1>1, <1>2, <1>3, <1>4, <1>5, LevelIs

LEMMA DispatchStep ==
    ASSUME RuntimeInv, dispatch
    PROVE  RuntimeInv'
<1> DEFINE p == Level
           q == RQ[p]
           m == Head(q)
           f == Frame(Current.line, m.task, m.args)
<1>1. /\ Running /\ Current.context = "dispatcher" /\ q # <<>>
      /\ app' = app /\ primask' = primask /\ pended' = pended /\ TQ' = TQ /\ clock' = clock
      /\ panicked' = panicked
      /\ FQ' = [FQ EXCEPT ![m.task] = FQ[m.task] + 1] /\ RQ' = [RQ EXCEPT ![p] = Tail(q)]
      /\ stack' = Append(Front(stack), f)
  BY DEF dispatch, AtDispatcher, ReplaceCurrent, output
<1>2. /\ Len(stack) # 1 /\ Current.line \in Range(app.interrupts) /\ Current.line \in Lines(app)
      /\ p \in DOMAIN app.interrupts /\ LineLevel(app, Current.line) = p
  BY <1>1, AtLine
<1>3. /\ q \in Seq(Range(q)) /\ DOMAIN RQ = DOMAIN app.interrupts
      /\ \A i \in 1..Len(q) : q[i].task \in DOMAIN app.software /\ PriorityOf(q[i].task) = p
  BY <1>2, ReadyIs
<1>4. /\ Tail(q) \in Seq(Range(q)) /\ Len(q) \in Nat /\ Len(q) > 0
      /\ Len(Tail(q)) = Len(q) - 1 /\ m = q[1]
      /\ \A i \in 1..(Len(q) - 1) : Tail(q)[i] = q[i + 1]
  <2> HIDE DEF q
  <2>1. QED BY <1>1, <1>3, HeadTailProperties DEF m
<1>5. m.task \in DOMAIN app.software /\ PriorityOf(m.task) = p
  <2>1. 1 \in 1..Len(q)
    BY <1>4
  <2>2. QED BY <1>3, <1>4, <2>1
<1>6. \A u : Waiting(q, u) = Waiting(Tail(q), u) + (IF m.task = u THEN 1 ELSE 0)
             /\ Waiting(Tail(q), u) \in Nat
  <2> HIDE DEF q
  <2>1. QED BY <1>1, <1>3, OneTaken DEF m
<1>7. /\ PRIORITY(app, m.task) = p /\ m.task \in Names(app) /\ m.task \in Contexts(app)
      /\ app \in Apps
  BY <1>5, TaskLine DEF RuntimeInv
<1>8. /\ IsFrame(f) /\ InCode(app, f) /\ f.line = Current.line /\ f.context = m.task
  <2> HIDE DEF m
  <2>1. QED BY <1>7, NewFrame
<1> HIDE DEF m, f
<1>9. TopIs(f)
  <2>1. Serves(app, f)
    <3>1. m.task \notin DOMAIN app.hardware
      BY <1>5, <1>7, NamesApart
    <3>2. QED BY <1>2, <1>7, <1>8, <3>1 DEF Serves
  <2>2. QED BY <1>1, <1>2, <1>8, <2>1 DEF TopIs, MayFollow
<1>10. /\ StackInv' /\ LevelInv' /\ Len(stack') = Len(stack)
       /\ \A i \in 1..Len(stack) : stack'[i].line = stack[i].line
  BY <1>9, <1>1, TopKeeps DEF RuntimeInv
<1> HIDE DEF q, p
<1>11. RQ'[p] = Tail(q) /\ \A r \in DOMAIN app.interrupts : r # p => RQ'[r] = RQ[r]
  BY <1>1, <1>2, <1>3
<1>12. ReadyTyped'
  <2>1. ASSUME NEW r \in DOMAIN app.interrupts
        PROVE  /\ RQ'[r] \in Seq(Range(RQ'[r]))
               /\ \A i \in 1..Len(RQ'[r]) :
                     RQ'[r][i].task \in DOMAIN app.software /\ PriorityOf(RQ'[r][i].task) = r
    <3>1. CASE r = p
      <4>1. Tail(q) \in Seq(Range(Tail(q)))
        BY <1>4, SeqRange
      <4>2. \A i \in 1..Len(Tail(q)) : Tail(q)[i] = q[i + 1] /\ i + 1 \in 1..Len(q)
        BY <1>4
      <4>3. \A i \in 1..Len(Tail(q)) :
               Tail(q)[i].task \in DOMAIN app.software /\ PriorityOf(Tail(q)[i].task) = p
        BY <1>3, <4>2
      <4>4. QED BY <1>11, <3>1, <4>1, <4>3
    <3>2. CASE r # p
      BY <1>11, <3>2, ReadyIs
    <3>3. QED BY <3>1, <3>2
  <2>2. RQ' = [r \in DOMAIN app.interrupts |-> RQ'[r]]
    BY <1>1, <1>3
  <2>3. QED BY <1>1, <2>1, <2>2 DEF ReadyTyped, PriorityOf
<1>13. FQ' \in [DOMAIN app.software -> Nat]
  BY <1>1, <1>5, SlotsAre
<1>14. Counted'
  <2>1. ASSUME NEW u \in DOMAIN app.software
        PROVE  FQ'[u] + Waiting(TQ, u) + Waiting(RQ'[PriorityOf(u)], u)
                  = app.software[u].capacity
    <3>1. /\ FQ[u] \in Nat /\ Waiting(TQ, u) \in Nat /\ Waiting(RQ[PriorityOf(u)], u) \in Nat
          /\ FQ[u] + Waiting(TQ, u) + Waiting(RQ[PriorityOf(u)], u)
                = app.software[u].capacity
          /\ FQ'[u] = IF u = m.task THEN FQ[u] + 1 ELSE FQ[u]
      BY <1>1, <1>5, SlotsAre
    <3>2. Waiting(RQ[PriorityOf(u)], u)
             = Waiting(RQ'[PriorityOf(u)], u) + (IF m.task = u THEN 1 ELSE 0)
          /\ Waiting(RQ'[PriorityOf(u)], u) \in Nat
      <4>1. CASE PriorityOf(u) = p
        BY <1>6, <1>11, <4>1 DEF q
      <4>2. CASE PriorityOf(u) # p
        <5>1. u # m.task /\ PriorityOf(u) \in DOMAIN app.interrupts
          BY <1>5, <1>7, <4>2, TaskLine
        <5>2. RQ'[PriorityOf(u)] = RQ[PriorityOf(u)]
          BY <1>11, <4>2, <5>1
        <5>3. QED BY <3>1, <5>1, <5>2
      <4>3. QED BY <4>1, <4>2
    <3>3. QED BY <3>1, <3>2
  <2>2. QED BY <1>1, <2>1 DEF Counted, PriorityOf
<1>15. QueueInv'
  BY <1>1, <1>12, <1>13, <1>14 DEF RuntimeInv, QueueInv, Entries
<1>16. PanicInv'
  BY <1>1 DEF PanicInv, Running
<1>17. WakeInv'
  <2>1. \A r \in DOMAIN app.interrupts : RQ'[r] # <<>> => RQ[r] # <<>>
    BY <1>1, <1>11 DEF q
  <2>2. QED BY <1>1, <1>10, <2>1, WakeKept
<1>18. QED BY <1>1, <1>7, <1>10, <1>15, <1>16, <1>17 DEF RuntimeInv

(* A handler returns: its line has no message. *)
LEMMA PopStep ==
    ASSUME RuntimeInv, app' = app, TopPopped, UNCHANGED queues, panicked' = panicked,
           pended' = pended,
           \A p \in DOMAIN app.interrupts : app.interrupts[p] = Current.line => RQ[p] = <<>>
    PROVE  RuntimeInv'
<1>1. /\ StackInv' /\ LevelInv' /\ Len(stack') = Len(stack) - 1
      /\ \A i \in 1..Len(stack') : stack'[i] = stack[i] /\ i \in 1..Len(stack)
  BY PopKeeps DEF RuntimeInv
<1>2. Len(stack) \in Nat /\ Current = stack[Len(stack)]
  BY StackIs DEF RuntimeInv
<1>3. QueueInv'
  <2>1. pended' \subseteq Lines(app)
    BY DEF RuntimeInv, QueueInv
  <2>2. QED BY <2>1, QueuesKept DEF RuntimeInv
<1>4. PanicInv'
  BY DEF RuntimeInv, PanicInv, queues
<1>5. WakeInv'
  <2>1. ASSUME NEW p \in DOMAIN app.interrupts, RQ[p] # <<>>, app.interrupts[p] \notin pended
        PROVE  \E i \in 2..Len(stack') : stack'[i].line = app.interrupts[p]
    <3>1. PICK i \in 2..Len(stack) : stack[i].line = app.interrupts[p]
      BY <2>1 DEF RuntimeInv, WakeInv
    <3>2. i # Len(stack)
      BY <1>2, <2>1, <3>1
    <3>3. i \in 2..Len(stack') /\ i \in 1..Len(stack')
      BY <1>1, <1>2, <3>2
    <3>4. QED BY <1>1, <3>1, <3>3
  <2>2. QED BY <2>1 DEF WakeInv, queues
<1>6. QED BY <1>1, <1>3, <1>4, <1>5 DEF RuntimeInv

LEMMA DispatcherReturnsStep ==
    ASSUME RuntimeInv, dispatcher_returns
    PROVE  RuntimeInv'
<1>1. /\ Current.context = "dispatcher" /\ RQ[Level] = <<>> /\ stack' = Front(stack)
      /\ app' = app /\ primask' = primask /\ pended' = pended /\ UNCHANGED queues
      /\ panicked' = panicked
  BY DEF dispatcher_returns, AtDispatcher, queues, output
<1>2. /\ Len(stack) > 1 /\ Level \in DOMAIN app.interrupts
      /\ app.interrupts[Level] = Current.line /\ app \in Apps
  BY <1>1, AtLine DEF RuntimeInv
<1>3. \A p \in DOMAIN app.interrupts : app.interrupts[p] = Current.line => p = Level
  BY <1>2, DispatcherLines
<1>4. TopPopped
  BY <1>1, <1>2 DEF TopPopped
<1>5. QED BY <1>1, <1>3, <1>4, PopStep

LEMMA TaskReturnsStep ==
    ASSUME RuntimeInv, task_returns
    PROVE  RuntimeInv'
<1>1. /\ Current.context \in Names(app)
      /\ app' = app /\ primask' = primask /\ pended' = pended /\ UNCHANGED queues
      /\ panicked' = panicked
  BY DEF task_returns, queues, output
<1>2. /\ app \in Apps /\ Len(stack) \in Nat /\ Len(stack) > 0
      /\ Len(stack) = 1 => AtBottom(app, Current)
      /\ Len(stack) # 1 => Serves(app, Current) /\ Len(stack) > 1
  BY StackIs DEF RuntimeInv
<1>3. Len(stack) > 1 /\ Len(stack) # 1 /\ Serves(app, Current)
  <2>1. ~AtBottom(app, Current)
    BY <1>1, <1>2, NamesApart DEF AtBottom
  <2>2. QED BY <1>2, <2>1
<1>4. CASE Current.context \in DOMAIN app.hardware
  <2>1. TopPopped
    BY <1>1, <1>3, <1>4 DEF task_returns, TopPopped
  <2>2. ASSUME NEW p \in DOMAIN app.interrupts, app.interrupts[p] = Current.line,
               RQ[p] # <<>>
        PROVE  FALSE
    <3>1. app.hardware[Current.context].binds = Current.line
      BY <1>3, <1>1, <1>2, <1>4, NamesApart DEF Serves
    <3>2. app.interrupts[p] \in Range(app.interrupts)
      BY <1>2, DispatcherLines
    <3>3. \A t \in DOMAIN app.hardware : app.hardware[t].binds \notin Range(app.interrupts)
      <4>1. Range(app.interrupts)
               \cap {app.hardware[t].binds : t \in DOMAIN app.hardware} = {}
        BY <1>2, RuntimeAssumption DEF WellFormed
      <4>2. QED BY <4>1
    <3>4. QED BY <1>4, <2>2, <3>1, <3>2, <3>3
  <2>3. QED BY <1>1, <2>1, <2>2, PopStep
<1>5. CASE Current.context \notin DOMAIN app.hardware
  <2> DEFINE f == Frame(Current.line, "dispatcher", NoArgs)
  <2>1. Current.line \in Lines(app) /\ Current.line \in Range(app.interrupts)
    BY <1>1, <1>2, <1>3, <1>5, NamesApart DEF Serves, Names
  <2>2. stack' = Append(Front(stack), f)
    BY <1>5 DEF task_returns, ReplaceCurrent
  <2>3. IsFrame(f) /\ InCode(app, f) /\ f.line = Current.line /\ f.context = "dispatcher"
    BY <1>2, NewFrame
  <2> HIDE DEF f
  <2>4. TopIs(f)
    <3>1. Serves(app, f)
      BY <2>1, <2>3 DEF Serves
    <3>2. QED BY <1>1, <1>3, <2>2, <2>3, <3>1 DEF TopIs, MayFollow
  <2>5. QED BY <1>1, <2>4, PendedTyped, QuietStep
<1>6. QED BY <1>4, <1>5

LEMMA InitReturnsStep ==
    ASSUME RuntimeInv, init_returns
    PROVE  RuntimeInv'
<1> DEFINE c == IF app.idle THEN "idle" ELSE "wfi"
           f == Frame("main", c, NoArgs)
<1>1. /\ Current.context = "init" /\ app' = app /\ pended' = pended /\ UNCHANGED queues
      /\ panicked' = panicked /\ primask' = FALSE /\ stack' = <<f>>
  BY DEF init_returns, output
<1>2. /\ app \in Apps /\ Len(stack) \in Nat /\ Len(stack) > 0
      /\ stack \in Seq(Range(stack))
      /\ Len(stack) = 1 => AtBottom(app, Current)
      /\ Len(stack) # 1 => Serves(app, Current) /\ Len(stack) > 1
  BY StackIs DEF RuntimeInv
<1>3. Len(stack) = 1 /\ Current.line = "main"
  <2>1. ~Serves(app, Current)
    BY <1>1, <1>2, NamesApart DEF Serves
  <2>2. QED BY <1>2, <2>1 DEF AtBottom
<1>4. c \in Contexts(app) \cup {"wfi", "dispatcher"} /\ c # "init"
      /\ c \in {"init", "wfi"} \cup (IF app.idle THEN {"idle"} ELSE {})
  BY <1>2, NamesApart
<1>5. Front(stack) = <<>>
  BY <1>2, <1>3 DEF Front
<1> HIDE DEF c
<1>6. IsFrame(f) /\ InCode(app, f) /\ f.line = "main" /\ f.context = c
  BY <1>2, <1>4, NewFrame
<1> HIDE DEF f
<1>7. stack' = Append(Front(stack), f)
  BY <1>1, <1>5
<1>8. TopIs(f)
  BY <1>1, <1>3, <1>4, <1>6, <1>7 DEF TopIs, MayFollow, AtBottom
<1>9. QED BY <1>1, <1>8, PendedTyped, QuietStep

LEMMA IdleLoopsStep ==
    ASSUME RuntimeInv, idle_loops
    PROVE  RuntimeInv'
<1> DEFINE g == [Current EXCEPT !.code = app.code["loop"]]
           f == [g EXCEPT !.args = NoArgs]
           I == Instructions(app, "idle")
<1>1. /\ Current.context = "idle" /\ app' = app /\ pended' = pended /\ UNCHANGED queues
      /\ panicked' = panicked /\ primask' = primask
      /\ stack' = Append(Front(stack),
                         [Current EXCEPT !.code = app.code["loop"], !.args = NoArgs])
  BY DEF idle_loops, output, queues, ReplaceCurrent
<1>2. /\ app \in Apps /\ IsFrame(Current) /\ InCode(app, Current)
      /\ Len(stack) = 1 => AtBottom(app, Current)
      /\ Len(stack) # 1 => Serves(app, Current) /\ Len(stack) > 1
  BY StackIs DEF RuntimeInv
<1>3. Len(stack) = 1 /\ app.idle /\ "idle" \in Contexts(app)
  <2>1. ~Serves(app, Current)
    BY <1>1, <1>2, NamesApart DEF Serves
  <2>2. QED BY <1>1, <1>2, <2>1, NamesApart DEF AtBottom
<1>4. app.code["loop"] \in Seq(I)
  BY <1>2, <1>3, Compiled
<1>5. stack' = Append(Front(stack), f)
  BY <1>1
<1>6. /\ IsFrame(f) /\ f.line = Current.line /\ f.context = Current.context
      /\ f.locked = Current.locked /\ f.code = app.code["loop"]
  <2>1. /\ IsFrame(g) /\ g.line = Current.line /\ g.context = Current.context
        /\ g.locked = Current.locked /\ g.code = app.code["loop"]
    BY <1>2, CodeChanged
  <2> HIDE DEF g
  <2>2. QED BY <2>1, ArgsChanged
<1> HIDE DEF f
<1>7. InCode(app, f)
  BY <1>1, <1>2, <1>3, <1>4, <1>6 DEF InCode
<1>8. MayFollow(f)
  BY <1>2, <1>6, <1>7 DEF MayFollow, AtBottom, Serves
<1>9. TopIs(f)
  BY <1>1, <1>5, <1>6, <1>8, SameContext
<1>10. QED BY <1>1, <1>9, PendedTyped, QuietStep

LEMMA ElapseStep ==
    ASSUME RuntimeInv, elapse
    PROVE  RuntimeInv'
<1> DEFINE e == Head(TQ)
<1>1. /\ Running /\ TQ # <<>> /\ e.at <= MaxTime /\ clock' = e.at
      /\ Enqueue(e.task, NoArgs) /\ TQ' = Tail(TQ) /\ app' = app /\ stack' = stack
      /\ primask' = primask /\ FQ' = FQ /\ panicked' = panicked
  BY DEF elapse, output
<1>2. TQ \in Seq(Entries)
  BY DEF RuntimeInv, QueueInv
<1>3. e \in Entries /\ Tail(TQ) \in Seq(Entries)
  BY <1>1, <1>2, HeadTailProperties
<1>4. e.at \in Nat /\ e.task \in DOMAIN app.software
  BY <1>3 DEF Entries
<1>5. \A u : Waiting(TQ, u) = Waiting(TQ', u) + (IF e.task = u THEN 1 ELSE 0)
             /\ Waiting(TQ', u) \in Nat
  BY <1>1, <1>2, OneTaken
<1> HIDE DEF e
<1>6. /\ ReadyTyped' /\ pended \subseteq pended' /\ pended' \subseteq Lines(app)
      /\ \A u \in DOMAIN app.software :
            Waiting(RQ'[PriorityOf(u)], u) =
               Waiting(RQ[PriorityOf(u)], u) + (IF u = e.task THEN 1 ELSE 0)
      /\ \A p \in DOMAIN app.interrupts :
            RQ'[p] # <<>> => RQ[p] # <<>> \/ app.interrupts[p] \in pended'
  BY <1>1, <1>4, EnqueueKeeps
<1>7. StackInv' /\ LevelInv'
  BY <1>1 DEF RuntimeInv, StackInv, LevelInv
<1>8. Counted'
  <2>1. ASSUME NEW u \in DOMAIN app.software
        PROVE  FQ[u] + Waiting(TQ', u) + Waiting(RQ'[PriorityOf(u)], u)
                  = app.software[u].capacity
    <3>1. /\ FQ[u] \in Nat /\ Waiting(TQ, u) \in Nat /\ Waiting(RQ[PriorityOf(u)], u) \in Nat
          /\ FQ[u] + Waiting(TQ, u) + Waiting(RQ[PriorityOf(u)], u)
                = app.software[u].capacity
      BY SlotsAre
    <3>2. QED BY <1>5, <1>6, <3>1
  <2>2. QED BY <1>1, <2>1 DEF Counted, PriorityOf
<1>9. clock' \in 0..MaxTime
  BY <1>1, <1>4, RuntimeAssumption
<1>10. QueueInv'
  BY <1>1, <1>3, <1>6, <1>8, <1>9 DEF RuntimeInv, QueueInv, Entries
<1>11. PanicInv'
  BY <1>1 DEF PanicInv, Running
<1>12. WakeInv'
  BY <1>1, <1>6, WakeKept
<1>13. QED BY <1>1, <1>7, <1>10, <1>11, <1>12 DEF RuntimeInv

LEMMA TakeStep ==
    ASSUME RuntimeInv, NEW l \in pended, Take(l)
    PROVE  RuntimeInv'
<1> DEFINE c == IF HardwareTask(l) # {} THEN CHOOSE t \in HardwareTask(l) : TRUE
                ELSE "dispatcher"
           f == Frame(l, c, NoArgs)
           n == Len(stack)
<1>1. /\ Running /\ ~primask /\ l \in Takeable /\ pended' = pended \ {l}
      /\ stack' = Append(stack, f) /\ app' = app /\ primask' = primask /\ UNCHANGED queues
      /\ panicked' = panicked
  BY DEF Take, output, queues
<1>2. app \in Apps /\ l \in Lines(app) /\ n \in Nat
  BY PendedTyped, StackIs DEF RuntimeInv
<1>3. c \in Contexts(app) \cup {"wfi", "dispatcher"} /\ Serves(app, [line |-> l, context |-> c])
  <2>1. CASE HardwareTask(l) # {}
    <3>1. /\ c \in HardwareTask(l) /\ c \in DOMAIN app.hardware
          /\ PRIORITY(app, c) = LinePriority(l)
      BY <1>2, <2>1, HardwareLine
    <3>2. app.hardware[c].binds = l
      BY <3>1 DEF HardwareTask
    <3>3. c \in Names(app) /\ c \in Contexts(app) /\ c \notin DOMAIN app.software
      BY <1>2, <3>1, NamesApart DEF Names, Contexts
    <3> HIDE DEF c
    <3>4. QED BY <1>2, <3>1, <3>2, <3>3, LevelIs DEF Serves
  <2>2. CASE HardwareTask(l) = {}
    <3>1. c = "dispatcher" /\ l \in Range(app.interrupts)
      BY <1>2, <2>2 DEF Lines, HardwareTask
    <3>2. QED BY <1>2, <3>1 DEF Serves
  <2>3. QED BY <2>1, <2>2
<1> HIDE DEF c
<1>4. IsFrame(f) /\ InCode(app, f) /\ f.line = l /\ f.context = c
  BY <1>2, <1>3, NewFrame
<1> HIDE DEF f
<1>5. \A p \in Ceilings \cup Active : LineLevel(app, l) > p
  BY <1>1, LevelIs DEF Takeable
<1>6. FramePushed(f)
  BY <1>1, <1>3, <1>4, <1>5 DEF FramePushed, Serves
<1>7. /\ StackInv' /\ LevelInv' /\ Len(stack') = n + 1 /\ stack'[n + 1] = f
      /\ \A i \in 1..n : stack'[i] = stack[i]
  BY <1>1, <1>6, PushKeeps DEF RuntimeInv
<1>8. QueueInv'
  <2>1. pended' \subseteq Lines(app)
    BY <1>1 DEF RuntimeInv, QueueInv
  <2>2. QED BY <1>1, <2>1, QueuesKept DEF RuntimeInv
<1>9. PanicInv'
  BY <1>1 DEF PanicInv, Running
<1>10. WakeInv'
  <2>1. ASSUME NEW p \in DOMAIN app.interrupts, RQ[p] # <<>>, app.interrupts[p] \notin pended'
        PROVE  \E i \in 2..(n + 1) : stack'[i].line = app.interrupts[p]
    <3>1. CASE app.interrupts[p] = l
      <4>1. n + 1 \in 2..(n + 1)
        BY <1>2, StackIs DEF RuntimeInv
      <4>2. QED BY <1>4, <1>7, <3>1, <4>1
    <3>2. CASE app.interrupts[p] # l
      <4>1. PICK i \in 2..n : stack[i].line = app.interrupts[p]
        BY <1>1, <2>1, <3>2 DEF RuntimeInv, WakeInv
      <4>2. i \in 1..n /\ i \in 2..(n + 1)
        BY <1>2
      <4>3. QED BY <1>7, <4>1, <4>2
    <3>3. QED BY <3>1, <3>2
  <2> HIDE DEF n
  <2>2. QED BY <1>1, <1>7, <2>1 DEF WakeInv, queues
<1>11. QED BY <1>1, <1>2, <1>7, <1>8, <1>9, <1>10 DEF RuntimeInv

-----------------------------------------------------------------------------
LEMMA InitHolds == Init => RuntimeInv
<1> SUFFICES ASSUME Init PROVE RuntimeInv
  OBVIOUS
<1> DEFINE f == Frame("main", "init", NoArgs)
<1>1. /\ app \in Apps /\ stack = <<f>> /\ primask = TRUE /\ pended = {}
      /\ FQ = [t \in DOMAIN app.software |-> app.software[t].capacity]
      /\ RQ = [p \in DOMAIN app.interrupts |-> <<>>]
      /\ TQ = <<>> /\ clock = 0 /\ panicked = FALSE
  BY DEF Init
<1>2. "init" \in Contexts(app)
  BY <1>1, NamesApart
<1>3. IsFrame(f) /\ InCode(app, f) /\ f.line = "main" /\ f.context = "init"
  BY <1>1, <1>2, NewFrame
<1> HIDE DEF f
<1>4. /\ Len(stack) = 1 /\ stack[1] = f /\ stack # <<>> /\ stack \in Seq(Range(stack))
      /\ \A i \in 1..Len(stack) : i = 1
      /\ 2..Len(stack) = {}
  <2>1. <<f>> \in Seq({f}) /\ Len(<<f>>) = 1 /\ <<f>>[1] = f
    OBVIOUS
  <2>2. <<f>> \in Seq(Range(<<f>>))
    BY <2>1, SeqRange
  <2>3. QED BY <1>1, <2>1, <2>2
<1>5. StackInv
  BY <1>1, <1>3, <1>4 DEF StackInv, AtBottom
<1>6. LevelInv
  BY <1>4 DEF LevelInv
<1>7. ReadyTyped
  <2>1. \A p \in DOMAIN app.interrupts : RQ[p] = <<>>
    BY <1>1
  <2>2. \A X : <<>> \in Seq(X) /\ 1..Len(<<>>) = {}
    OBVIOUS
  <2>3. RQ = [p \in DOMAIN app.interrupts |-> RQ[p]]
    BY <1>1
  <2>4. QED BY <2>1, <2>2, <2>3 DEF ReadyTyped
<1>8. FQ \in [DOMAIN app.software -> Nat]
  BY <1>1, RuntimeAssumption DEF WellFormed
<1>9. Counted
  <2>1. ASSUME NEW t \in DOMAIN app.software
        PROVE  FQ[t] + Waiting(TQ, t) + Waiting(RQ[PriorityOf(t)], t)
                  = app.software[t].capacity
    <3>1. FQ[t] = app.software[t].capacity /\ FQ[t] \in Nat
      BY <1>1, <1>8
    <3>2. RQ[PriorityOf(t)] = <<>>
      BY <1>1, TaskLine
    <3>3. QED BY <1>1, <3>1, <3>2, NoneWaiting
  <2>2. QED BY <2>1 DEF Counted
<1>10. QueueInv
  <2>1. clock \in 0..MaxTime
    BY <1>1, RuntimeAssumption
  <2>2. TQ \in Seq(Entries)
    BY <1>1
  <2>3. QED BY <1>1, <1>7, <1>8, <1>9, <2>1, <2>2 DEF QueueInv
<1>11. PanicInv /\ WakeInv
  BY <1>1 DEF PanicInv, WakeInv
<1>12. QED BY <1>1, <1>5, <1>6, <1>10, <1>11 DEF RuntimeInv

LEMMA StepHolds == RuntimeInv /\ [Next]_vars => RuntimeInv'
<1> SUFFICES ASSUME RuntimeInv, [Next]_vars PROVE RuntimeInv'
  OBVIOUS
<1>1. CASE print \/ add \/ exit
  BY <1>1, PlainSteps
<1>2. CASE pend
  BY <1>2, PendStep
<1>3. CASE bind
  BY <1>3, BindStep
<1>4. CASE when
  BY <1>4, WhenStep
<1>5. CASE lock \/ unlock
  BY <1>5, SectionSteps
<1>6. CASE spawn
  BY <1>6, SpawnStep
<1>7. CASE spawn_after
  BY <1>7, SpawnAfterStep
<1>8. CASE dispatch
  BY <1>8, DispatchStep
<1>9. CASE dispatcher_returns
  BY <1>9, DispatcherReturnsStep
<1>10. CASE init_returns
  BY <1>10, InitReturnsStep
<1>11. CASE idle_loops
  BY <1>11, IdleLoopsStep
<1>12. CASE task_returns
  BY <1>12, TaskReturnsStep
<1>13. CASE elapse
  BY <1>13, ElapseStep
<1>14. ASSUME NEW l \in pended, Take(l) PROVE RuntimeInv'
  BY <1>14, TakeStep
<1>15. CASE UNCHANGED vars
  <2>1. /\ app' = app /\ stack' = stack /\ primask' = primask /\ pended' = pended
        /\ UNCHANGED queues /\ RQ' = RQ /\ FQ' = FQ /\ panicked' = panicked
    BY <1>15 DEF vars, queues, output
  <2>2. StackInv' /\ LevelInv'
    BY <2>1 DEF RuntimeInv, StackInv, LevelInv
  <2>3. QueueInv'
    <3>1. pended' \subseteq Lines(app)
      BY <2>1 DEF RuntimeInv, QueueInv
    <3>2. QED BY <2>1, <3>1, QueuesKept DEF RuntimeInv
  <2>4. PanicInv' /\ WakeInv'
    BY <2>1 DEF RuntimeInv, PanicInv, WakeInv
  <2>5. QED BY <2>1, <2>2, <2>3, <2>4 DEF RuntimeInv
<1>16. QED BY <1>1, <1>2, <1>3, <1>4, <1>5, <1>6, <1>7, <1>8, <1>9, <1>10, <1>11, <1>12,
              <1>13, <1>14, <1>15 DEF Next, Execute

(* The inductive invariant, for all applications that compile. *)
THEOREM Invariance == Spec => []RuntimeInv
<1>1. QED BY InitHolds, StepHolds, PTL DEF Spec

(* What is on the stack is a context of the application, a dispatcher or   *)
(* main asleep, and every slot of every task is either free or taken by    *)
(* one message that waits: none is lost, and no message is one too many.   *)
THEOREM TypeCorrect == Spec => []TypeOK
<1>1. ASSUME RuntimeInv PROVE TypeOK
  <2>1. app \in Apps /\ clock \in 0..MaxTime /\ FQ \in [DOMAIN app.software -> Nat] /\ Counted
    BY <1>1 DEF RuntimeInv, QueueInv
  <2>2. /\ DOMAIN stack = 1..Len(stack) /\ Len(stack) \in Nat
        /\ AtBottom(app, stack[1]) /\ \A i \in 2..Len(stack) : Serves(app, stack[i])
    BY <1>1, StackIs DEF RuntimeInv, StackInv
  <2>3. ASSUME NEW i \in DOMAIN stack
        PROVE  stack[i].context \in Contexts(app) \cup {"wfi", "dispatcher"}
    <3>1. CASE i = 1
      BY <2>1, <2>2, <3>1, NamesApart DEF AtBottom
    <3>2. CASE i # 1
      <4>1. Serves(app, stack[i])
        BY <2>2, <3>2
      <4>2. QED BY <2>1, <4>1, NamesApart DEF Serves
    <3>3. QED BY <3>1, <3>2
  <2>4. QED BY <2>1, <2>3 DEF TypeOK, Counted
<1>2. QED BY <1>1, Invariance, PTL

(* A context that may not reach a resource a section is on: what LevelInv  *)
(* says of the ceiling, in terms of the users.                             *)
LEMMA AboveSections ==
    ASSUME RuntimeInv, NEW i \in 1..Len(stack), NEW j \in 1..Len(stack), i < j,
           NEW r \in Range(stack[i].locked)
    PROVE  stack[j].context \notin Users(app, r)
<1> DEFINE c == stack[j].context
<1> SUFFICES ASSUME c \in Users(app, r) PROVE FALSE
  OBVIOUS
<1>1. app \in Apps /\ Len(stack) \in Nat
  BY StackIs DEF RuntimeInv
<1>2. j \in 2..Len(stack)
  BY <1>1
<1>3. Serves(app, stack[j])
  BY <1>2 DEF RuntimeInv, StackInv
<1>4. c \in Contexts(app)
  BY <1>1, RuntimeAssumption DEF Accepted, Users
<1>5. c \in Names(app) /\ PRIORITY(app, c) = LineLevel(app, stack[j].line) /\ c # "init"
  BY <1>1, <1>3, <1>4, NamesApart DEF Serves
<1>6. PRIORITY(app, c) <= Ceiling(app, r) /\ Ceiling(app, r) \in 0..255
  BY <1>1, <1>5, CeilingIs
<1>7. Ceiling(app, r) < LineLevel(app, stack[j].line)
  BY DEF RuntimeInv, LevelInv
<1>8. PRIORITY(app, c) \in 0..255
  BY <1>1, PriorityType
<1> HIDE DEF c
<1>9. LineLevel(app, stack[j].line) \in 0..255
  BY <1>5, <1>8
<1>10. \A x, y \in 0..255 : ~(x <= y /\ y < x)
  OBVIOUS
<1>11. LineLevel(app, stack[j].line) <= Ceiling(app, r)
  BY <1>5, <1>6
<1>12. QED BY <1>6, <1>7, <1>9, <1>10, <1>11

(* While a context is inside a section, none of those that have preempted  *)
(* it, nor a task their dispatchers have gone on to, is a user of the      *)
(* resource, however the sections nest and whatever is pended meanwhile.   *)
THEOREM HeldAloneHolds == Spec => []HeldAlone
<1>1. ASSUME RuntimeInv PROVE HeldAlone
  <2>1. DOMAIN stack = 1..Len(stack)
    BY <1>1, StackIs DEF RuntimeInv
  <2>2. QED BY <1>1, <2>1, AboveSections DEF HeldAlone
<1>2. QED BY <1>1, Invariance, PTL

(* The resources that two contexts of the stack have locked.               *)
LockedOnce ==
    \A i, j \in DOMAIN stack : i < j => Range(stack[i].locked) \cap Range(stack[j].locked) = {}

(* Two contexts of the stack are never inside sections on one resource,    *)
(* although `lock` looks at nothing but priorities.                        *)
THEOREM MutualExclusion == Spec => []LockedOnce
<1>1. ASSUME RuntimeInv PROVE LockedOnce
  <2>1. DOMAIN stack = 1..Len(stack) /\ app \in Apps /\ Len(stack) \in Nat
    BY <1>1, StackIs DEF RuntimeInv
  <2>2. ASSUME NEW i \in 1..Len(stack), NEW j \in 1..Len(stack), i < j,
               NEW r \in Range(stack[i].locked), r \in Range(stack[j].locked)
        PROVE  FALSE
    <3> DEFINE f == stack[j]
    <3>1. f.context \notin Users(app, r)
      BY <1>1, <2>2, AboveSections
    <3>2. InCode(app, f)
      BY <1>1 DEF RuntimeInv, StackInv
    <3>3. f.context \in Contexts(app) /\ f.locked \in Seq(Proxies(app, f.context))
      <4>1. f.locked # <<>>
        BY <2>2 DEF Range
      <4>2. QED BY <3>2, <4>1 DEF InCode
    <3>4. r \in Proxies(app, f.context)
      <4> HIDE DEF f
      <4>1. PICK k \in DOMAIN f.locked : f.locked[k] = r
        BY <2>2 DEF Range, f
      <4>2. QED BY <3>3, <4>1
    <3>5. f.context \in Users(app, r)
      BY <2>1, <3>3, <3>4, RuntimeAssumption DEF Accepted, Users, Proxies
    <3>6. QED BY <3>1, <3>5
  <2>3. QED BY <2>1, <2>2 DEF LockedOnce
<1>2. QED BY <1>1, Invariance, PTL

(* No wakeup is lost: a message in a ready queue has its dispatcher pended *)
(* or on the stack, however many spawns one pending stands for.            *)
THEOREM NoLostWakeup == Spec => []WakeInv
<1>1. QED BY Invariance, PTL DEF RuntimeInv

(* Every slot of some task holds a message that waits.                     *)
SlotsTaken ==
    \E t \in DOMAIN app.software :
       Waiting(TQ, t) + Waiting(RQ[PriorityOf(t)], t) = app.software[t].capacity

(* A caller that unwraps panics only when every slot of a task holds a     *)
(* message that waits: with a free slot no spawn fails.                    *)
THEOREM UnwrapsFailOnlyWhenFull ==
    Spec => [](UnwrapsSucceed \/ SlotsTaken)
<1>1. ASSUME RuntimeInv PROVE UnwrapsSucceed \/ SlotsTaken
  <2>1. ASSUME panicked PROVE SlotsTaken
    <3>1. PICK t \in DOMAIN app.software : FQ[t] = 0
      BY <1>1, <2>1 DEF RuntimeInv, PanicInv
    <3>2. Waiting(TQ, t) + Waiting(RQ[PriorityOf(t)], t) = app.software[t].capacity
      BY <1>1, <3>1, SlotsAre
    <3>3. QED BY <3>2 DEF SlotsTaken
  <2>2. QED BY <2>1 DEF UnwrapsSucceed
<1>2. QED BY <1>1, Invariance, PTL

-----------------------------------------------------------------------------
(* Deadlines.  The entries that wait are in the order of their instants,   *)
(* none of them in the past.                                               *)
InOrder(q) == \A i, j \in 1..Len(q) : i < j => q[i].at <= q[j].at
TimeInv == InOrder(TQ) /\ \A i \in 1..Len(TQ) : clock <= TQ[i].at

LEMMA TimesAre ==
    ASSUME RuntimeInv
    PROVE  /\ TQ \in Seq(Entries) /\ Len(TQ) \in Nat /\ clock \in Nat
           /\ \A i \in 1..Len(TQ) : TQ[i].at \in Nat
<1>1. TQ \in Seq(Entries) /\ clock \in 0..MaxTime /\ MaxTime \in Nat
  BY RuntimeAssumption DEF RuntimeInv, QueueInv
<1>2. Len(TQ) \in Nat /\ \A i \in 1..Len(TQ) : TQ[i] \in Entries
  BY <1>1, LenProperties, ElementOfSeq
<1>3. QED BY <1>1, <1>2 DEF Entries

(* The entries before an instant are a first part of a queue in order.     *)
LEMMA EarlierOnes ==
    ASSUME NEW q \in Seq(Entries), InOrder(q), NEW at \in Nat
    PROVE  LET n == Cardinality({i \in DOMAIN q : q[i].at < at})
           IN  /\ n \in 0..Len(q)
               /\ \A i \in 1..Len(q) : q[i].at < at <=> i <= n
<1> DEFINE S == {i \in DOMAIN q : q[i].at < at}
           L == {i \in 1..Len(q) : ~(q[i].at < at)}
<1>1. /\ Len(q) \in Nat /\ DOMAIN q = 1..Len(q)
      /\ \A i \in 1..Len(q) : q[i].at \in Nat
  <2>1. /\ Len(q) \in Nat /\ DOMAIN q = 1..Len(q)
        /\ \A i \in 1..Len(q) : q[i] \in Entries
    BY LenProperties, ElementOfSeq
  <2>2. QED BY <2>1 DEF Entries
<1>2. PICK k \in 0..Len(q) : S = 1..k
  <2>1. CASE L = {}
    <3>1. S = 1..Len(q) /\ Len(q) \in 0..Len(q)
      BY <1>1, <2>1
    <3>2. QED BY <3>1
  <2>2. CASE L # {}
    <3>1. L \in SUBSET Nat
      BY <1>1
    <3>2. PICK l \in L : \A x \in L : l <= x
      <4> HIDE DEF L
      <4>1. QED BY <2>2, <3>1, Least
    <3>3. \A i \in 1..Len(q) : q[i].at < at <=> i < l
      <4> SUFFICES ASSUME NEW i \in 1..Len(q) PROVE q[i].at < at <=> i < l
        OBVIOUS
      <4>1. CASE i < l
        <5>1. i \notin L
          BY <1>1, <3>2, <4>1
        <5>2. QED BY <4>1, <5>1
      <4>2. CASE i = l
        BY <1>1, <3>2, <4>2
      <4>3. CASE i > l
        <5>1. q[l].at <= q[i].at /\ ~(q[l].at < at) /\ l \in 1..Len(q)
          BY <1>1, <3>2, <4>3 DEF InOrder
        <5>2. QED BY <1>1, <4>3, <5>1
      <4>4. QED BY <1>1, <4>1, <4>2, <4>3
    <3>4. l - 1 \in 0..Len(q) /\ S = 1..(l - 1)
      BY <1>1, <3>2, <3>3
    <3>5. QED BY <3>4
  <2>3. QED BY <2>1, <2>2
<1>3. Cardinality(1..k) = k
  <2>1. k \in Nat
    BY <1>1
  <2>2. Cardinality(1..k) = IF 1 > k THEN 0 ELSE k - 1 + 1
    BY <2>1, FS_Interval
  <2>3. QED BY <2>1, <2>2
<1>4. Cardinality(S) = k
  BY <1>2, <1>3
<1>5. \A i \in 1..Len(q) : q[i].at < at <=> i <= k
  BY <1>1, <1>2
<1> HIDE DEF S
<1>6. QED BY <1>4, <1>5 DEF S

LEMMA TimeStep == RuntimeInv /\ TimeInv /\ [Next]_vars => TimeInv' /\ clock <= clock'
<1> SUFFICES ASSUME RuntimeInv, TimeInv, [Next]_vars PROVE TimeInv' /\ clock <= clock'
  OBVIOUS
<1>1. /\ TQ \in Seq(Entries) /\ Len(TQ) \in Nat /\ clock \in Nat
      /\ \A i \in 1..Len(TQ) : TQ[i].at \in Nat
  BY TimesAre
<1>2. CASE spawn_after
  <2> DEFINE at == clock + Instruction.delay
             e == [at |-> at, task |-> Instruction.task]
             n == Cardinality({i \in DOMAIN TQ : TQ[i].at < at})
  <2>1. Instruction.delay \in Nat /\ Instruction.task \in DOMAIN app.software
    BY <1>2, Spawned DEF spawn_after
  <2>2. clock' = clock /\ (TQ' = TQ \/ TQ' = InsertAt(TQ, n + 1, e))
    BY <1>2 DEF spawn_after
  <2>3. CASE TQ' = TQ
    BY <1>1, <2>2, <2>3 DEF TimeInv, InOrder
  <2>4. CASE TQ' = InsertAt(TQ, n + 1, e)
    <3>1. at \in Nat /\ clock <= at /\ e \in Entries /\ e.at = at
      BY <1>1, <2>1 DEF Entries
    <3> HIDE DEF at
    <3>2. n \in 0..Len(TQ) /\ \A i \in 1..Len(TQ) : TQ[i].at < at <=> i <= n
      BY <1>1, <3>1, EarlierOnes DEF TimeInv
    <3> HIDE DEF n, e
    <3> DEFINE k == n + 1
               q == TQ'
    <3>3. k \in 1..(Len(TQ) + 1)
      BY <1>1, <3>2
    <3>4. /\ Len(q) = Len(TQ) + 1
          /\ \A i \in 1..(Len(TQ) + 1) :
                q[i] = IF i < k THEN TQ[i] ELSE IF i = k THEN e ELSE TQ[i - 1]
      <4>1. q = InsertAt(TQ, k, e)
        BY <2>4
      <4> HIDE DEF k, q
      <4>2. PutIn(TQ, k, e, q)
        BY <1>1, <3>1, <3>3, <4>1, EntryPut
      <4>3. QED BY <4>2 DEF PutIn
    <3> HIDE DEF q
    <3>5. ASSUME NEW i \in 1..(Len(TQ) + 1)
          PROVE  /\ i < k => i \in 1..Len(TQ) /\ q[i] = TQ[i] /\ TQ[i].at < at
                 /\ i = k => q[i].at = at
                 /\ i > k => i - 1 \in 1..Len(TQ) /\ q[i] = TQ[i - 1] /\ at <= TQ[i - 1].at
      <4>1. i < k => i \in 1..Len(TQ) /\ q[i] = TQ[i] /\ TQ[i].at < at
        BY <1>1, <3>2, <3>3, <3>4
      <4>2. i = k => q[i].at = at
        BY <3>1, <3>3, <3>4
      <4>3. ASSUME i > k
            PROVE  i - 1 \in 1..Len(TQ) /\ q[i] = TQ[i - 1] /\ at <= TQ[i - 1].at
        <5>1. i - 1 \in 1..Len(TQ) /\ ~(i - 1 <= n) /\ ~(i < k) /\ i # k
          BY <1>1, <3>2, <4>3
        <5>2. q[i] = TQ[i - 1] /\ ~(TQ[i - 1].at < at) /\ TQ[i - 1].at \in Nat
          BY <1>1, <3>2, <3>4, <5>1
        <5>3. QED BY <3>1, <5>1, <5>2
      <4>4. QED BY <4>1, <4>2, <4>3
    <3>6. ASSUME NEW i \in 1..(Len(TQ) + 1), NEW j \in 1..(Len(TQ) + 1), i < j
          PROVE  q[i].at <= q[j].at
      <4>1. \A x, y \in 1..Len(TQ) : x < y => TQ[x].at <= TQ[y].at
        BY DEF TimeInv, InOrder
      <4>2. k \in Nat /\ i \in Nat /\ j \in Nat
        BY <1>1, <3>3
      <4>3. CASE j < k
        BY <3>5, <3>6, <4>1, <4>2, <4>3
      <4>4. CASE i < k /\ ~(j < k)
        <5>1. TQ[i].at \in Nat /\ q[i] = TQ[i] /\ TQ[i].at < at
          BY <1>1, <3>5, <4>4
        <5>2. q[j].at \in Nat /\ at <= q[j].at
          <6>1. CASE j = k
            BY <3>1, <3>5, <6>1
          <6>2. CASE j > k
            BY <1>1, <3>5, <6>2
          <6>3. QED BY <4>2, <4>4, <6>1, <6>2
        <5>3. QED BY <3>1, <5>1, <5>2
      <4>5. CASE ~(i < k)
        <5>1. j > k /\ j - 1 \in 1..Len(TQ) /\ q[j] = TQ[j - 1] /\ at <= TQ[j - 1].at
          BY <3>5, <3>6, <4>2, <4>5
        <5>2. CASE i = k
          BY <3>5, <5>1, <5>2
        <5>3. CASE i > k
          <6>1. i - 1 \in 1..Len(TQ) /\ q[i] = TQ[i - 1] /\ i - 1 < j - 1
            BY <3>5, <3>6, <4>2, <5>3
          <6>2. QED BY <4>1, <5>1, <6>1
        <5>4. QED BY <4>2, <4>5, <5>2, <5>3
      <4>6. QED BY <4>3, <4>4, <4>5
    <3>7. ASSUME NEW i \in 1..(Len(TQ) + 1)
          PROVE  clock <= q[i].at
      <4>1. k \in Nat /\ i \in Nat
        BY <1>1, <3>3
      <4>2. CASE i < k
        BY <3>5, <4>2 DEF TimeInv
      <4>3. CASE i = k
        BY <3>1, <3>5, <4>3
      <4>4. CASE i > k
        BY <3>5, <4>4 DEF TimeInv
      <4>5. QED BY <4>1, <4>2, <4>3, <4>4
    <3>8. InOrder(q)
      BY <3>4, <3>6 DEF InOrder
    <3>9. QED BY <1>1, <2>2, <3>4, <3>7, <3>8 DEF TimeInv, InOrder, q
  <2>5. QED BY <2>2, <2>3, <2>4
<1>3. CASE elapse
  <2>1. TQ # <<>> /\ clock' = Head(TQ).at /\ TQ' = Tail(TQ)
    BY <1>3 DEF elapse
  <2> DEFINE q == TQ'
  <2>2. /\ Len(TQ) > 0 /\ Len(q) = Len(TQ) - 1 /\ Head(TQ) = TQ[1] /\ 1 \in 1..Len(TQ)
        /\ \A i \in 1..Len(q) : q[i] = TQ[i + 1] /\ i + 1 \in 1..Len(TQ)
    BY <1>1, <2>1, HeadTailProperties
  <2>3. /\ \A i, j \in 1..Len(TQ) : i < j => TQ[i].at <= TQ[j].at
        /\ clock <= TQ[1].at
    BY <2>2 DEF TimeInv, InOrder
  <2> HIDE DEF q
  <2>4. \A i, j \in 1..Len(q) : i < j => q[i].at <= q[j].at
    <3> SUFFICES ASSUME NEW i \in 1..Len(q), NEW j \in 1..Len(q), i < j
                 PROVE  q[i].at <= q[j].at
      OBVIOUS
    <3>1. i + 1 \in 1..Len(TQ) /\ j + 1 \in 1..Len(TQ) /\ i + 1 < j + 1
          /\ q[i] = TQ[i + 1] /\ q[j] = TQ[j + 1]
      BY <2>2
    <3>2. QED BY <2>3, <3>1
  <2>5. \A i \in 1..Len(q) : TQ[1].at <= q[i].at
    <3> SUFFICES ASSUME NEW i \in 1..Len(q) PROVE TQ[1].at <= q[i].at
      OBVIOUS
    <3>1. i + 1 \in 1..Len(TQ) /\ 1 < i + 1 /\ q[i] = TQ[i + 1]
      BY <2>2
    <3>2. QED BY <2>2, <2>3, <3>1
  <2>6. QED BY <2>1, <2>2, <2>3, <2>4, <2>5 DEF TimeInv, InOrder, q
<1>4. CASE UNCHANGED <<TQ, clock>>
  BY <1>1, <1>4 DEF TimeInv, InOrder
<1>5. spawn_after \/ elapse \/ UNCHANGED <<TQ, clock>>
  BY DEF Next, Execute, Take, print, add, bind, when, exit, pend, lock, unlock, spawn, dispatch,
         dispatcher_returns, init_returns, idle_loops, task_returns, queues, vars
<1>6. QED BY <1>2, <1>3, <1>4, <1>5

(* Messages with a deadline leave in the order of their instants, whenever *)
(* they were scheduled, and time does not go back for any of them.         *)
THEOREM DeadlinesInOrder == Spec => []TimeInv /\ [][clock <= clock']_clock
<1>1. Init => TimeInv
  BY DEF Init, TimeInv, InOrder
<1>2. RuntimeInv /\ TimeInv /\ [Next]_vars => TimeInv'
  BY TimeStep
<1>3. RuntimeInv /\ TimeInv /\ [Next]_vars => [clock <= clock']_clock
  BY TimeStep
<1>4. QED BY <1>1, <1>2, <1>3, Invariance, PTL DEF Spec

-----------------------------------------------------------------------------
(* The priorities of handlers, and what the stack holds at most.           *)
LevelsInUse == {LineLevel(app, l) : l \in Lines(app)}
StackBounded == Len(stack) <= Cardinality(LevelsInUse) + 1

(* One stack is enough: whatever is pended, and however messages come, a   *)
(* context is preempted only from above, so that the stack holds no more   *)
(* handlers than there are priorities of handlers.                         *)
THEOREM StackBoundedHolds == Spec => []StackBounded
<1>1. ASSUME RuntimeInv PROVE StackBounded
  <2> DEFINE n == Len(stack)
             S == 1..(n - 1)
             T == LevelsInUse
             level == [i \in S |-> LineLevel(app, stack[i + 1].line)]
  <2>1. app \in Apps /\ n \in Nat /\ n > 0
    BY <1>1, StackIs DEF RuntimeInv
  <2>2. ASSUME NEW i \in S
        PROVE  /\ level[i] \in T /\ level[i] \in 0..255
               /\ i + 1 \in 1..n /\ i + 1 > 1
    <3>1. i + 1 \in 2..n /\ i + 1 \in 1..n /\ i + 1 > 1
      BY <2>1
    <3>2. stack[i + 1].line \in Lines(app)
      BY <1>1, <3>1 DEF RuntimeInv, StackInv, Serves
    <3>3. QED BY <1>1, <2>1, <3>1, <3>2, LineType, LevelIs DEF LevelsInUse
  <2>3. \A i, j \in S : i < j => level[i] < level[j]
    <3> SUFFICES ASSUME NEW i \in S, NEW j \in S, i < j PROVE level[i] < level[j]
      OBVIOUS
    <3>1. i + 1 < j + 1
      BY <2>1
    <3>2. QED BY <1>1, <2>2, <3>1 DEF RuntimeInv, LevelInv
  <2>4. IsFiniteSet(T)
    <3>1. T \subseteq 0..255
      BY <2>1, LineType, LevelIs DEF LevelsInUse
    <3> HIDE DEF S, T, level, n
    <3>2. 0 \in Int /\ 255 \in Int
      OBVIOUS
    <3>3. IsFiniteSet(0..255)
      BY <3>2, FS_Interval
    <3>4. QED BY <3>1, <3>3, FS_Subset
  <2>5. level \in [S -> T]
    BY <2>2
  <2>6. IsInjective(level)
    <3>1. \A i, j \in S : level[i] = level[j] => i = j
      <4> SUFFICES ASSUME NEW i \in S, NEW j \in S, i # j PROVE level[i] # level[j]
        OBVIOUS
      <4>1. level[i] \in 0..255 /\ level[j] \in 0..255
        BY <2>2
      <4>2. i < j \/ j < i
        BY <2>1
      <4> HIDE DEF level, S
      <4>3. QED BY <2>3, <4>1, <4>2
    <3>2. QED BY <3>1 DEF IsInjective
  <2>7. level \in Injection(S, T)
    <3> HIDE DEF level
    <3>1. QED BY <2>5, <2>6 DEF Injection
  <2>8. Cardinality(S) <= Cardinality(T) /\ Cardinality(T) \in Nat
    <3> HIDE DEF level, S, T
    <3>1. QED BY <2>4, <2>7, FS_Injection, FS_CardinalityType
  <2>9. Cardinality(S) = n - 1
    <3>1. Cardinality(S) = IF 1 > n - 1 THEN 0 ELSE (n - 1) - 1 + 1
      BY <2>1, FS_Interval
    <3>2. QED BY <2>1, <3>1
  <2>10. QED BY <2>1, <2>8, <2>9 DEF StackBounded
<1>2. QED BY <1>1, Invariance, PTL
=============================================================================
