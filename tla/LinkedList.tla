----------------------------- MODULE LinkedList -----------------------------
(***************************************************************************)
(* src/src/linked_list.rs: the min-sorted list inside an array of nodes,   *)
(* linked by u16 indices, with a second list threading the free nodes.     *)
(* The array and its two heads are one record, the operations functions    *)
(* from record to record, as one call may perform several of them.         *)
(***************************************************************************)
EXTENDS Integers, Sequences, SequencesExt

CONSTANTS Capacity, Instants, Markers,
          None, Full,   (* what a call returns that returns no entry    *)
          PopsChanged   (* TRUE if a client may pop what it has changed *)

Nil == 65535                       \* u16::MAX, LinkedIndex::none()

ASSUME LinkedListAssumption ==
    /\ Capacity \in Nat \ {0} /\ Capacity <= Nil
    /\ Instants \subseteq Int /\ PopsChanged \in BOOLEAN

Nodes == 0..(Capacity - 1)
LinkedIndex == Nodes \cup {Nil}
Entry == [instant : Instants, marker : Markers]

VARIABLES list,      (* the array of nodes, `head` and `free`            *)
          found,     (* the FindMut handle, or NoHandle                  *)
          returned   (* what the last call gave back                     *)

vars == <<list, found, returned>>

Handle == [is_head : BOOLEAN, prev_index : LinkedIndex, index : LinkedIndex,
           maybe_changed : BOOLEAN]
NoHandle == [is_head |-> FALSE, prev_index |-> Nil, index |-> Nil,
             maybe_changed |-> FALSE]

(* Mutant: the last node is not made the end of the free list. *)
new_NoEnd(memory) ==
    [next |-> [n \in Nodes |-> n + 1],
     val  |-> memory,
     head |-> Nil,
     free |-> 0]

(* The vals are not initialized: they are whatever the memory held. *)
new(memory) ==
    [next |-> [n \in Nodes |-> IF n = Capacity - 1 THEN Nil ELSE n + 1],
     val  |-> memory,
     head |-> Nil,
     free |-> 0]

Init ==
    /\ \E memory \in [Nodes -> Entry] : list = new(memory)
    /\ found = NoHandle
    /\ returned = None

-----------------------------------------------------------------------------
(* The nodes met from index n on, as `while let Some(next)` meets them; a  *)
(* cycle would not end, so at most one node more than there are is taken.  *)
NodesFrom(l, n) ==
    LET walk[k \in 0..(Capacity + 1)] ==
          [i \in LinkedIndex |->
             IF i = Nil \/ k = 0 THEN <<>> ELSE <<i>> \o walk[k - 1][l.next[i]]]
    IN  walk[Capacity + 1][n]

Chain(l) == NodesFrom(l, l.head)
FreeChain(l) == NodesFrom(l, l.free)

is_empty(l) == l.head = Nil
is_full(l) == l.free = Nil

(* partial_cmp(..) == Kind::ordering(), for kind Min. *)
Earlier(l, n, e) == l.val[n].instant < e.instant

(* Mutant: among equal instants the scan goes on. *)
LastEarlier_Fifo(l, e) ==
    LET nodes == Chain(l)
        stop == SelectInSeq(nodes, LAMBDA n : l.val[n].instant > e.instant)
    IN  IF stop = 0 THEN (IF nodes = <<>> THEN Nil ELSE Last(nodes))
        ELSE IF stop = 1 THEN Nil ELSE nodes[stop - 1]

(* The scan of push_unchecked: the last node of the initial run of nodes   *)
(* that are earlier than the new entry, Nil when the head is not.          *)
LastEarlier(l, e) ==
    LET nodes == Chain(l)
        stop == SelectInSeq(nodes, LAMBDA n : ~Earlier(l, n, e))
    IN  IF stop = 0 THEN (IF nodes = <<>> THEN Nil ELSE Last(nodes))
        ELSE IF stop = 1 THEN Nil ELSE nodes[stop - 1]

(* Assumes that the list is not full. *)
push_unchecked(l, e) ==
    LET n == l.free
        m == [l EXCEPT !.val[n] = e, !.free = l.next[n]]
        current == LastEarlier(l, e)
    IN  IF current = Nil
        THEN [m EXCEPT !.next[n] = m.head, !.head = n]
        ELSE [m EXCEPT !.next[n] = m.next[current], !.next[current] = n]

(* Assumes that the list is not empty.  The value read out of a node stays *)
(* in its memory.                                                          *)
pop_unchecked(l) ==
    [value |-> l.val[l.head],
     list |-> [l EXCEPT !.head = l.next[l.head],
                        !.next[l.head] = l.free,
                        !.free = l.head]]

(* Mutant: the popped node is not given back. *)
pop_internal_Leak(l, f) ==
    IF f.is_head THEN pop_unchecked(l)
    ELSE [value |-> l.val[f.index],
          list |-> [l EXCEPT !.next[f.prev_index] = l.next[f.index]]]

pop_internal(l, f) ==
    IF f.is_head THEN pop_unchecked(l)
    ELSE LET m == [l EXCEPT !.next[f.prev_index] = l.next[f.index]]
         IN  [value |-> l.val[f.index],
              list |-> [m EXCEPT !.next[f.index] = m.free, !.free = f.index]]

(* Mutant: a changed entry stays where it is. *)
drop_InPlace(l, f) == l

(* FindMut::drop: a changed entry is popped and pushed. *)
drop(l, f) ==
    IF f.maybe_changed
    THEN LET p == pop_internal(l, f) IN push_unchecked(p.list, p.value)
    ELSE l

-----------------------------------------------------------------------------
(* The calls.  A handle borrows the list: nothing else happens while it    *)
(* lives.                                                                  *)

push(e) ==
    /\ found = NoHandle
    /\ IF is_full(list)
       THEN list' = list /\ returned' = Full
       ELSE list' = push_unchecked(list, e) /\ returned' = None
    /\ UNCHANGED found

pop ==
    /\ found = NoHandle
    /\ ~is_empty(list)
    /\ list' = pop_unchecked(list).list
    /\ returned' = pop_unchecked(list).value
    /\ UNCHANGED found

find_mut(m) ==
    /\ found = NoHandle
    /\ LET nodes == Chain(list)
           at == SelectInSeq(nodes, LAMBDA n : list.val[n].marker = m)
       IN  found' = IF at = 0 THEN NoHandle
                    ELSE [is_head |-> at = 1,
                          prev_index |-> IF at = 1 THEN Nil ELSE nodes[at - 1],
                          index |-> nodes[at],
                          maybe_changed |-> FALSE]
    /\ returned' = None
    /\ UNCHANGED list

deref_mut(e) ==
    /\ found # NoHandle
    /\ list' = [list EXCEPT !.val[found.index] = e]
    /\ found' = [found EXCEPT !.maybe_changed = TRUE]
    /\ returned' = None

(* FindMut::pop consumes the handle, which is then dropped.  Dropping the  *)
(* changed handle of a list of one entry reads a node outside the array    *)
(* and has no meaning; the timer queue never pops what it has changed.     *)
FindMut_pop ==
    /\ found # NoHandle
    /\ found.maybe_changed => PopsChanged /\ Len(Chain(list)) > 1
    /\ LET p == pop_internal(list, found)
       IN  list' = drop(p.list, found) /\ returned' = p.value
    /\ found' = NoHandle

finish ==
    /\ found # NoHandle
    /\ list' = drop(list, found)
    /\ found' = NoHandle
    /\ returned' = None

Next ==
    \/ \E e \in Entry : push(e) \/ deref_mut(e)
    \/ \E m \in Markers : find_mut(m)
    \/ pop \/ FindMut_pop \/ finish

Spec == Init /\ [][Next]_vars

-----------------------------------------------------------------------------
TypeOK ==
    /\ list \in [next : [Nodes -> LinkedIndex],
                 val : [Nodes -> Entry],
                 head : LinkedIndex, free : LinkedIndex]
    /\ found \in Handle
    /\ returned \in Entry \cup {None, Full}

(* Every node is in exactly one of the two chains, once: no slot is lost   *)
(* or handed out twice however the operations alternate.                   *)
NodesPartitioned ==
    LET all == Chain(list) \o FreeChain(list)
    IN  IsInjective(all) /\ Range(all) = Nodes

(* The entries of the list, in the order of the chain. *)
Entries(l) == [i \in 1..Len(Chain(l)) |-> l.val[Chain(l)[i]]]

Sorted == INSTANCE SortedList WITH
    entries <- Entries(list),
    cursor <- IF found = NoHandle THEN 0
              ELSE SelectInSeq(Chain(list), LAMBDA n : n = found.index),
    changed <- found.maybe_changed

(* The array of nodes implements the sorted list: order, the place among   *)
(* equal instants, what each call returns and when a push is refused.      *)
ImplementsSortedList == Sorted!Spec

(* min-sorted: unless a changed entry is outstanding, the instants never   *)
(* decrease along the chain, so that the head is the earliest deadline.    *)
ChainInOrder == Sorted!Sorted

(* Popping through a handle takes the handle's entry off the list, "This   *)
(* will pop the element from the list", and leaves the others alone.       *)
PopRemovesEntry ==
    [][FindMut_pop =>
          LET at == SelectInSeq(Chain(list), LAMBDA n : n = found.index)
          IN  Entries(list)' = RemoveAt(Entries(list), at)]_vars
=============================================================================
