----------------------------- MODULE SortedList -----------------------------
(***************************************************************************)
(* What src/src/linked_list.rs promises its one user, the timer queue: a   *)
(* bounded list of entries kept in the order of their instants, from which *)
(* the first entry is taken, or any entry through a FindMut handle that    *)
(* can also change it in place.                                            *)
(***************************************************************************)
EXTENDS SortedEntries

CONSTANTS Capacity,   (* the number of nodes                    *)
          Instants,   (* the sort keys, integers                *)
          Markers,    (* what find_mut is asked to look for     *)
          None,       (* nothing was returned                   *)
          Full        (* push returned Err                      *)

Entry == [instant : Instants, marker : Markers]

VARIABLES entries,   (* the list, first entry first                      *)
          cursor,    (* position of the live FindMut handle, 0 if none   *)
          changed,   (* whether the entry was borrowed mutably           *)
          returned   (* what the last operation gave back                *)

vars == <<entries, cursor, changed, returned>>

Init == entries = <<>> /\ cursor = 0 /\ changed = FALSE /\ returned = None

Push(e) ==
    /\ cursor = 0
    /\ IF Len(entries) < Capacity
       THEN entries' = Place(entries, e) /\ returned' = None
       ELSE entries' = entries /\ returned' = Full
    /\ UNCHANGED <<cursor, changed>>

Pop ==
    /\ cursor = 0
    /\ entries # <<>>
    /\ returned' = Head(entries)
    /\ entries' = Tail(entries)
    /\ UNCHANGED <<cursor, changed>>

Find(m) ==
    /\ cursor = 0
    /\ cursor' = Position(entries, m)
    /\ returned' = None
    /\ UNCHANGED <<entries, changed>>

Modify(e) ==
    /\ cursor # 0
    /\ entries' = [entries EXCEPT ![cursor] = e]
    /\ changed' = TRUE
    /\ returned' = None
    /\ UNCHANGED cursor

PopFound ==
    /\ cursor # 0
    /\ returned' = entries[cursor]
    /\ entries' = RemoveAt(entries, cursor)
    /\ cursor' = 0
    /\ changed' = FALSE

(* The handle goes out of scope: a changed entry moves to its place. *)
Finish ==
    /\ cursor # 0
    /\ entries' = IF changed
                  THEN Place(RemoveAt(entries, cursor), entries[cursor])
                  ELSE entries
    /\ cursor' = 0
    /\ changed' = FALSE
    /\ returned' = None

Next ==
    \/ \E e \in Entry : Push(e) \/ Modify(e)
    \/ \E m \in Markers : Find(m)
    \/ Pop \/ PopFound \/ Finish

Spec == Init /\ [][Next]_vars

(* Whenever no changed entry is outstanding the list is in order, so its  *)
(* first entry is the next deadline.                                       *)
Sorted == changed \/ InOrder(entries)
=============================================================================
