--------------------------- MODULE SortedEntries ---------------------------
(* The order in which src/src/linked_list.rs (kind Min) and NotReady's     *)
(* comparison keep entries: by instant, the newest first among equals.     *)
EXTENDS Integers, Sequences, SequencesExt

(* An entry goes in front of the first one that is not strictly earlier,   *)
(* by a given comparison of instants.                                      *)
PlaceBy(Earlier(_, _), s, e) ==
    LET before == SelectInSeq(s, LAMBDA x : ~Earlier(x.instant, e.instant))
    IN  IF before = 0 THEN Append(s, e) ELSE InsertAt(s, before, e)

Place(s, e) == PlaceBy(LAMBDA i, j : i < j, s, e)

(* The first entry with the marker, 0 if there is none. *)
Position(s, m) == SelectInSeq(s, LAMBDA x : x.marker = m)

InOrder(s) ==
    \A i, j \in 1..Len(s) : i < j => s[i].instant <= s[j].instant
=============================================================================
