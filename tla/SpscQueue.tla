------------------------------ MODULE SpscQueue ------------------------------
(***************************************************************************)
(* The ring buffer of heapless 0.6 (`spsc::Queue<T, N, u8, SingleCore>`),  *)
(* which is not part of the repository: the type of the free queues and of *)
(* the ready queues (SCFQ and SCRQ of src/src/export.rs).  Two counters    *)
(* run freely and wrap; an element sits at its counter modulo N.  The      *)
(* producer side writes `tail`, the consumer side writes `head`, neither   *)
(* checks for overflow in the operations the generated code uses.          *)
(***************************************************************************)
EXTENDS Integers, Sequences

CONSTANT Wrap   (* the counters are u8: 256 *)

ASSUME WrapAssumption == Wrap \in 1..256

(* The number of elements of a queue: N is rounded up to a power of two. *)
RingSize(capacity) == CHOOSE n \in {1, 2, 4, 8, 16, 32, 64, 128} :
                         n >= capacity /\ n < 2 * capacity

QueueOf(n, elements) ==
    [buf : [0..(n - 1) -> elements], head : 0..(Wrap - 1), tail : 0..(Wrap - 1)]

(* A queue of n elements, `first` of them taken from a function on 0... *)
Filled(n, f, first) ==
    [buf |-> [i \in 0..(n - 1) |-> f[i]], head |-> 0, tail |-> first % Wrap]

Size(q) == 1 + CHOOSE i \in DOMAIN q.buf : \A j \in DOMAIN q.buf : j <= i
Length(q) == (q.tail - q.head + Wrap) % Wrap
IsEmpty(q) == q.head = q.tail

(* The elements between the two counters, oldest first. *)
Elements(q) ==
    [k \in 1..Length(q) |-> q.buf[((q.head + k - 1) % Wrap) % Size(q)]]

Oldest(q) == q.buf[q.head % Size(q)]
Dequeued(q) == [q EXCEPT !.head = (@ + 1) % Wrap]

(* enqueue_unchecked reads `tail`, stores the element, then moves `tail`:  *)
(* the two stores with the counter value that was read.                    *)
Stored(q, tail, e) == [q EXCEPT !.buf[tail % Size(q)] = e]
Published(q, tail) == [q EXCEPT !.tail = (tail + 1) % Wrap]
Enqueued(q, e) == Published(Stored(q, q.tail, e), q.tail)
=============================================================================
