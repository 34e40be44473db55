---------------------------- MODULE TaskMailbox ----------------------------
(***************************************************************************)
(* What the message passing of software tasks promises: each task has a    *)
(* box of bounded size; a message that spawn or spawn_at has accepted is   *)
(* in it until it is given out, once, to the task or to who cancels it.    *)
(***************************************************************************)
EXTENDS Naturals, FiniteSetsExt, Functions

CONSTANTS Tasks, CAPACITY, Messages, None

VARIABLES box,     (* of each task: how often each message is in its box   *)
          given    (* the message given out last                           *)

Init ==
    /\ box = [t \in Tasks |-> [m \in Messages |-> 0]]
    /\ given = None

Accept(t, m) ==
    /\ FoldFunction(+, 0, box[t]) < CAPACITY[t]
    /\ box' = [box EXCEPT ![t][m] = @ + 1]
    /\ UNCHANGED given

Give(t, m) ==
    /\ box[t][m] > 0
    /\ box' = [box EXCEPT ![t][m] = @ - 1]
    /\ given' = m

Next == \E t \in Tasks, m \in Messages : Accept(t, m) \/ Give(t, m)

Spec == Init /\ [][Next]_<<box, given>>
=============================================================================
