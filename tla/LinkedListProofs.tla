---------------------------- MODULE LinkedListProofs ----------------------------
(***************************************************************************)
(* For every capacity up to that of a u16 index: the nodes of the array    *)
(* are always in one chain each, and the list is the sorted list of        *)
(* SortedList.                                                             *)
(***************************************************************************)
EXTENDS LinkedList, Collections

-----------------------------------------------------------------------------
(* The links from the node h on lead through the nodes of c and no others. *)
At(c, i) == IF i \in 1..Len(c) THEN c[i] ELSE Nil

Path(next, h, c) ==
    /\ c \in Seq(Nodes) /\ h = At(c, 1)
    /\ \A i \in 1..Len(c) : next[c[i]] = At(c, i + 1)

LEMMA NilIsNoNode == Nil \notin Nodes /\ Capacity \in Nat \ {0}
BY LinkedListAssumption DEF Nil, Nodes

(* The recursion of NodesFrom has a solution, and what any solution finds  *)
(* along a path is the path.                                               *)
Visit(g, next, k, i) ==
    IF i = Nil \/ k = 0 THEN <<>> ELSE <<i>> \o g[k - 1][next[i]]

Walks(g, next, n) ==
    g = [k \in 0..n |-> [i \in LinkedIndex |-> Visit(g, next, k, i)]]

LEMMA WalkExists ==
    ASSUME NEW next, NEW n \in Nat
    PROVE  \E g : Walks(g, next, n)
<1> DEFINE Bad == {k \in Nat : ~\E g : Walks(g, next, k)}
<1>1. SUFFICES ASSUME Bad # {} PROVE FALSE
  OBVIOUS
<1>2. PICK m \in Bad : \A j \in Bad : m <= j
  BY <1>1, Least
<1>3. m \in Nat
  OBVIOUS
<1>4. m # 0
  <2> DEFINE g == [k \in 0..0 |-> [i \in LinkedIndex |-> <<>>]]
  <2>1. Walks(g, next, 0)
    BY DEF Walks, Visit
  <2> HIDE DEF g
  <2>2. QED BY <2>1
<1>5. m - 1 \in Nat /\ ~(m <= m - 1)
  BY <1>3, <1>4
<1>6. PICK g : Walks(g, next, m - 1)
  BY <1>2, <1>5
<1> DEFINE Step(f, k) == [i \in LinkedIndex |-> Visit(f, next, k, i)]
           h == [k \in 0..m |-> IF k < m THEN g[k] ELSE Step(g, k)]
<1>7. ASSUME NEW k \in 0..m PROVE h[k] = Step(h, k)
  <2>1. k # 0 => k - 1 \in 0..m /\ k - 1 < m
    BY <1>3
  <2>2. k # 0 => h[k - 1] = g[k - 1]
    BY <2>1
  <2>3. h[k] = Step(g, k)
    <3>1. CASE k < m
      <4>1. k \in 0..(m - 1)
        BY <1>3, <3>1
      <4>2. g[k] = Step(g, k)
        BY <1>6, <4>1 DEF Walks
      <4>3. h[k] = g[k]
        BY <3>1
      <4>4. QED BY <4>2, <4>3
    <3>2. CASE k = m
      BY <1>3, <3>2
    <3>3. QED BY <1>3, <3>1, <3>2
  <2> HIDE DEF h
  <2>4. \A i : Visit(g, next, k, i) = Visit(h, next, k, i)
    BY <2>2 DEF Visit
  <2>5. Step(g, k) = Step(h, k)
    BY <2>4
  <2>6. QED BY <2>3, <2>5
<1>8. h = [k \in 0..m |-> h[k]]
  OBVIOUS
<1> HIDE DEF h
<1>9. Walks(h, next, m)
  BY <1>7, <1>8 DEF Walks
<1>10. QED BY <1>2, <1>9

LEMMA WalkIs ==
    ASSUME NEW next, NEW n, NEW g, Walks(g, next, n),
           NEW k \in 0..n, NEW i \in LinkedIndex
    PROVE  g[k][i] = Visit(g, next, k, i)
<1> DEFINE Step(j) == [x \in LinkedIndex |-> Visit(g, next, j, x)]
<1>1. g = [j \in 0..n |-> Step(j)]
  BY DEF Walks
<1>2. g[k] = Step(k)
  <2> HIDE DEF Step
  <2>1. QED BY <1>1
<1>3. QED BY <1>2

Follows(g, n, c) ==
    \A k \in 0..n : \A j \in 1..(Len(c) + 1) :
       Len(c) + 1 - j <= k => g[k][At(c, j)] = SubSeq(c, j, Len(c))

LEMMA WalkFollows ==
    ASSUME NEW next, NEW n \in Nat, NEW g, Walks(g, next, n),
           NEW h, NEW c, Path(next, h, c)
    PROVE  Follows(g, n, c)
<1> DEFINE Good(k) == \A j \in 1..(Len(c) + 1) :
                         Len(c) + 1 - j <= k => g[k][At(c, j)] = SubSeq(c, j, Len(c))
           Bad == {k \in 0..n : ~Good(k)}
<1>1. SUFFICES ASSUME Bad # {} PROVE FALSE
  BY DEF Follows
<1>2. Bad \in SUBSET Nat
  OBVIOUS
<1>3. PICK m \in Bad : \A k \in Bad : m <= k
  <2> HIDE DEF Bad
  <2>1. QED BY <1>1, <1>2, Least
<1>4. m \in 0..n /\ ~Good(m)
  OBVIOUS
<1>5. PICK j \in 1..(Len(c) + 1) :
         Len(c) + 1 - j <= m /\ g[m][At(c, j)] # SubSeq(c, j, Len(c))
  BY <1>4
<1>6. c \in Seq(Nodes) /\ Len(c) \in Nat /\ \A i \in 1..Len(c) : c[i] \in Nodes
  BY LenProperties DEF Path
<1>7. ASSUME NEW k \in 0..n, NEW i \in LinkedIndex
      PROVE  g[k][i] = Visit(g, next, k, i)
  BY WalkIs, Zenon
<1>8. CASE j = Len(c) + 1
  <2>1. At(c, j) = Nil
    BY <1>6, <1>8 DEF At
  <2>2. g[m][Nil] = <<>>
    BY <1>4, <1>7 DEF LinkedIndex, Visit
  <2>3. SubSeq(c, j, Len(c)) = <<>>
    BY <1>6, <1>8, SubSeqEmpty
  <2>4. QED BY <1>5, <2>1, <2>2, <2>3
<1>9. CASE j # Len(c) + 1
  <2>1. j \in 1..Len(c) /\ m # 0 /\ m - 1 \in 0..n /\ j + 1 \in 1..(Len(c) + 1)
        /\ Len(c) + 1 - (j + 1) <= m - 1 /\ ~(m <= m - 1)
    BY <1>4, <1>5, <1>6, <1>9
  <2>2. Good(m - 1)
    BY <1>3, <2>1
  <2>3. g[m - 1][At(c, j + 1)] = SubSeq(c, j + 1, Len(c))
    BY <2>1, <2>2
  <2>4. At(c, j) = c[j] /\ c[j] \in Nodes /\ c[j] \in LinkedIndex /\ c[j] # Nil
        /\ next[c[j]] = At(c, j + 1)
    BY <1>6, <2>1, NilIsNoNode DEF At, Path, LinkedIndex
  <2>5. g[m][c[j]] = <<c[j]>> \o g[m - 1][next[c[j]]]
    BY <1>4, <1>7, <2>1, <2>4 DEF Visit
  <2>6. <<c[j]>> \o SubSeq(c, j + 1, Len(c)) = SubSeq(c, j, Len(c))
    BY <1>6, <2>1, SubSeqRecursiveFirst
  <2>7. QED BY <1>5, <2>3, <2>4, <2>5, <2>6
<1>10. QED BY <1>8, <1>9

-----------------------------------------------------------------------------
(* Every node is in one of two chains, once. *)
Parts(c, d) ==
    /\ c \in Seq(Nodes) /\ d \in Seq(Nodes) /\ Len(c) + Len(d) = Capacity
    /\ \A i, j \in 1..Len(c) : c[i] = c[j] => i = j
    /\ \A i, j \in 1..Len(d) : d[i] = d[j] => i = j
    /\ \A i \in 1..Len(c) : \A j \in 1..Len(d) : c[i] # d[j]
    /\ \A n \in Nodes :
          (\E i \in 1..Len(c) : c[i] = n) \/ (\E j \in 1..Len(d) : d[j] = n)

List == [next : [Nodes -> LinkedIndex], val : [Nodes -> Entry],
         head : LinkedIndex, free : LinkedIndex]

Threads(l, c, d) ==
    /\ l \in List /\ Parts(c, d)
    /\ Path(l.next, l.head, c) /\ Path(l.next, l.free, d)

(* The chains that the links make are those that NodesFrom finds. *)
LEMMA FollowsPath ==
    ASSUME NEW l, NEW h, NEW c, Path(l.next, h, c), Len(c) <= Capacity
    PROVE  NodesFrom(l, h) = c
<1> DEFINE g == CHOOSE f : Walks(f, l.next, Capacity + 1)
<1>1. Capacity + 1 \in Nat
  BY NilIsNoNode
<1>2. Walks(g, l.next, Capacity + 1)
  BY <1>1, WalkExists
<1>3. NodesFrom(l, h) = g[Capacity + 1][h]
  BY DEF NodesFrom, Walks, Visit
<1> HIDE DEF g
<1>4. c \in Seq(Nodes) /\ Len(c) \in Nat /\ h = At(c, 1)
  BY LenProperties DEF Path
<1>5. /\ Capacity + 1 \in 0..(Capacity + 1) /\ 1 \in 1..(Len(c) + 1)
      /\ Len(c) + 1 - 1 <= Capacity + 1
  <2> DEFINE n == Len(c)
  <2>1. n \in Nat /\ n <= Capacity /\ Capacity \in Nat
    BY <1>4, NilIsNoNode
  <2> HIDE DEF n
  <2>2. QED BY <2>1 DEF n
<1>6. g[Capacity + 1][At(c, 1)] = SubSeq(c, 1, Len(c))
  <2>1. Follows(g, Capacity + 1, c)
    BY <1>1, <1>2, WalkFollows
  <2>2. QED BY <1>5, <2>1 DEF Follows
<1>7. QED BY <1>3, <1>4, <1>6, SubSeqFull

LEMMA ChainsAre ==
    ASSUME NEW l, NEW c, NEW d, Threads(l, c, d)
    PROVE  /\ Chain(l) = c /\ FreeChain(l) = d
           /\ is_empty(l) <=> Len(c) = 0
           /\ is_full(l) <=> Len(d) = 0
<1>1. /\ c \in Seq(Nodes) /\ d \in Seq(Nodes) /\ Len(c) + Len(d) = Capacity
      /\ Path(l.next, l.head, c) /\ Path(l.next, l.free, d)
  BY DEF Threads, Parts
<1>2. Len(c) \in Nat /\ Len(d) \in Nat
  BY <1>1, LenProperties
<1>3. Len(c) <= Capacity /\ Len(d) <= Capacity
  BY <1>1, <1>2
<1>4. Chain(l) = c /\ FreeChain(l) = d
  BY <1>1, <1>3, FollowsPath DEF Chain, FreeChain
<1>5. ASSUME NEW s \in Seq(Nodes)
      PROVE  At(s, 1) = Nil <=> Len(s) = 0
  <2>1. Len(s) \in Nat /\ \A i \in 1..Len(s) : s[i] \in Nodes
    BY LenProperties
  <2>2. QED BY <2>1, NilIsNoNode DEF At
<1>6. QED BY <1>1, <1>4, <1>5 DEF Path, is_empty, is_full

LEMMA PartsTurned == \A c, d : Parts(c, d) => Parts(d, c)
<1> SUFFICES ASSUME NEW c, NEW d, Parts(c, d) PROVE Parts(d, c)
  OBVIOUS
<1>1. Len(c) \in Nat /\ Len(d) \in Nat
  BY LenProperties DEF Parts
<1>2. Len(d) + Len(c) = Capacity
  BY <1>1 DEF Parts
<1>3. QED BY <1>2, Zenon DEF Parts

-----------------------------------------------------------------------------
(* r is s with e put in at position k; s is r with its element k taken.    *)
PutIn(s, k, e, r) ==
    /\ k \in 1..(Len(s) + 1) /\ Len(r) = Len(s) + 1
    /\ \A i \in 1..Len(r) :
          r[i] = IF i < k THEN s[i] ELSE IF i = k THEN e ELSE s[i - 1]

LEMMA PutInFacts ==
    ASSUME NEW S, NEW s \in Seq(S), NEW k, NEW e, NEW r \in Seq(S), PutIn(s, k, e, r)
    PROVE  /\ Len(s) \in Nat /\ Len(r) = Len(s) + 1 /\ k \in 1..Len(r) /\ r[k] = e
           /\ \A i \in 1..Len(s) :
                 /\ i < k => i \in 1..Len(r) /\ r[i] = s[i]
                 /\ i >= k => i + 1 \in 1..Len(r) /\ r[i + 1] = s[i]
           /\ \A i \in 1..Len(r) :
                 /\ i < k => i \in 1..Len(s) /\ r[i] = s[i]
                 /\ i > k => i - 1 \in 1..Len(s) /\ r[i] = s[i - 1]
<1>1. Len(s) \in Nat /\ Len(r) = Len(s) + 1 /\ k \in 1..Len(r)
  BY LenProperties DEF PutIn
<1>2. r[k] = e
  BY <1>1 DEF PutIn
<1>3. ASSUME NEW i \in 1..Len(s)
      PROVE  /\ i < k => i \in 1..Len(r) /\ r[i] = s[i]
             /\ i >= k => i + 1 \in 1..Len(r) /\ r[i + 1] = s[i]
  <2>1. i \in 1..Len(r) /\ i + 1 \in 1..Len(r)
    BY <1>1
  <2>2. i < k => r[i] = s[i]
    BY <2>1 DEF PutIn
  <2>3. i >= k => ~(i + 1 < k) /\ i + 1 # k /\ i + 1 - 1 = i
    BY <1>1
  <2>4. i >= k => r[i + 1] = s[i]
    BY <2>1, <2>3 DEF PutIn
  <2>5. QED BY <2>1, <2>2, <2>4
<1>4. ASSUME NEW i \in 1..Len(r)
      PROVE  /\ i < k => i \in 1..Len(s) /\ r[i] = s[i]
             /\ i > k => i - 1 \in 1..Len(s) /\ r[i] = s[i - 1]
  <2>1. (i < k => i \in 1..Len(s)) /\ (i > k => i - 1 \in 1..Len(s) /\ ~(i < k) /\ i # k)
    BY <1>1
  <2>2. QED BY <2>1 DEF PutIn
<1>5. QED BY <1>1, <1>2, <1>3, <1>4

(* A node that goes from one chain to the other. *)
LEMMA Moved ==
    ASSUME NEW c, NEW d, Parts(c, d), NEW a \in Seq(Nodes), NEW b \in Seq(Nodes),
           NEW n, NEW p, PutIn(a, p, n, c), NEW q, PutIn(d, q, n, b)
    PROVE  Parts(a, b)
<1>1. /\ c \in Seq(Nodes) /\ d \in Seq(Nodes) /\ Len(c) + Len(d) = Capacity
      /\ Len(d) \in Nat
  BY LenProperties DEF Parts
<1>2. /\ Len(a) \in Nat /\ Len(c) = Len(a) + 1 /\ p \in 1..Len(c) /\ c[p] = n
      /\ \A i \in 1..Len(a) :
            /\ i < p => i \in 1..Len(c) /\ c[i] = a[i]
            /\ i >= p => i + 1 \in 1..Len(c) /\ c[i + 1] = a[i]
      /\ \A i \in 1..Len(c) :
            /\ i < p => i \in 1..Len(a) /\ c[i] = a[i]
            /\ i > p => i - 1 \in 1..Len(a) /\ c[i] = a[i - 1]
  BY <1>1, PutInFacts
<1>3. /\ Len(b) = Len(d) + 1 /\ q \in 1..Len(b) /\ b[q] = n
      /\ \A i \in 1..Len(d) :
            /\ i < q => i \in 1..Len(b) /\ b[i] = d[i]
            /\ i >= q => i + 1 \in 1..Len(b) /\ b[i + 1] = d[i]
      /\ \A i \in 1..Len(b) :
            /\ i < q => i \in 1..Len(d) /\ b[i] = d[i]
            /\ i > q => i - 1 \in 1..Len(d) /\ b[i] = d[i - 1]
  BY <1>1, PutInFacts
<1>4. /\ \A i, j \in 1..Len(c) : c[i] = c[j] => i = j
      /\ \A i, j \in 1..Len(d) : d[i] = d[j] => i = j
      /\ \A i \in 1..Len(c) : \A j \in 1..Len(d) : c[i] # d[j]
      /\ \A x \in Nodes :
            (\E i \in 1..Len(c) : c[i] = x) \/ (\E j \in 1..Len(d) : d[j] = x)
  BY DEF Parts
<1>5. ASSUME NEW i \in 1..Len(a)
      PROVE  \E j \in 1..Len(c) : /\ c[j] = a[i] /\ j # p
                                  /\ j = IF i < p THEN i ELSE i + 1
  BY <1>2
<1>6. ASSUME NEW i \in 1..Len(b), i # q
      PROVE  \E j \in 1..Len(d) : d[j] = b[i] /\ j = IF i < q THEN i ELSE i - 1
  <2>1. CASE i < q
    BY <1>3, <2>1
  <2>2. CASE i > q
    <3>1. i - 1 \in 1..Len(d) /\ b[i] = d[i - 1] /\ ~(i < q)
      BY <1>3, <2>2
    <3>2. QED BY <3>1
  <2>3. QED BY <1>3, <1>6, <2>1, <2>2
<1>7. ASSUME NEW i \in 1..Len(a), NEW j \in 1..Len(a), a[i] = a[j]
      PROVE  i = j
  <2>1. PICK x \in 1..Len(c) : c[x] = a[i] /\ x = IF i < p THEN i ELSE i + 1
    BY <1>5
  <2>2. PICK y \in 1..Len(c) : c[y] = a[j] /\ y = IF j < p THEN j ELSE j + 1
    BY <1>5
  <2>3. x = y
    BY <1>4, <1>7, <2>1, <2>2
  <2>4. QED BY <1>2, <2>1, <2>2, <2>3
<1>8. ASSUME NEW i \in 1..Len(a)
      PROVE  a[i] # n /\ \A j \in 1..Len(d) : a[i] # d[j]
  <2>1. PICK x \in 1..Len(c) : c[x] = a[i] /\ x # p
    BY <1>5
  <2>2. QED BY <1>2, <1>4, <2>1
<1>9. \A j \in 1..Len(d) : d[j] # n
  BY <1>2, <1>4
<1>10. ASSUME NEW i \in 1..Len(b), NEW j \in 1..Len(b), b[i] = b[j]
       PROVE  i = j
  <2>1. CASE i = q
    <3>1. ASSUME j # q PROVE FALSE
      <4>1. PICK y \in 1..Len(d) : d[y] = b[j]
        BY <1>6, <3>1
      <4>2. QED BY <1>3, <1>9, <1>10, <2>1, <4>1
    <3>2. QED BY <2>1, <3>1
  <2>2. CASE i # q
    <3>1. PICK x \in 1..Len(d) : d[x] = b[i] /\ x = IF i < q THEN i ELSE i - 1
      BY <1>6, <2>2
    <3>2. j # q
      BY <1>3, <1>9, <1>10, <3>1
    <3>3. PICK y \in 1..Len(d) : d[y] = b[j] /\ y = IF j < q THEN j ELSE j - 1
      BY <1>6, <3>2
    <3>4. x = y
      BY <1>4, <1>10, <3>1, <3>3
    <3>5. QED BY <1>3, <2>2, <3>1, <3>2, <3>3, <3>4
  <2>3. QED BY <2>1, <2>2
<1>11. ASSUME NEW i \in 1..Len(a), NEW j \in 1..Len(b)
       PROVE  a[i] # b[j]
  <2>1. CASE j = q
    BY <1>3, <1>8, <2>1
  <2>2. CASE j # q
    <3>1. PICK y \in 1..Len(d) : d[y] = b[j]
      BY <1>6, <2>2
    <3>2. QED BY <1>8, <3>1
  <2>3. QED BY <2>1, <2>2
<1>12. ASSUME NEW x \in Nodes
       PROVE  (\E i \in 1..Len(a) : a[i] = x) \/ (\E j \in 1..Len(b) : b[j] = x)
  <2>1. CASE \E i \in 1..Len(c) : c[i] = x
    <3>1. PICK i \in 1..Len(c) : c[i] = x
      BY <2>1
    <3>2. CASE i = p
      BY <1>2, <1>3, <3>1, <3>2
    <3>3. CASE i < p
      BY <1>2, <3>1, <3>3
    <3>4. CASE i > p
      BY <1>2, <3>1, <3>4
    <3>5. QED BY <1>2, <3>2, <3>3, <3>4
  <2>2. CASE \E j \in 1..Len(d) : d[j] = x
    <3>1. PICK j \in 1..Len(d) : d[j] = x
      BY <2>2
    <3>2. j < q \/ j >= q
      BY <1>3
    <3>3. QED BY <1>3, <3>1, <3>2
  <2>3. QED BY <1>4, <2>1, <2>2
<1>13. Len(a) + Len(b) = Capacity
  BY <1>1, <1>2, <1>3
<1>14. QED BY <1>7, <1>10, <1>11, <1>12, <1>13 DEF Parts

-----------------------------------------------------------------------------
(* The links when a node comes or goes: those of the nodes around it       *)
(* change, no others.                                                      *)
LEMMA PathWith ==
    ASSUME NEW next, NEW h, NEW c, Path(next, h, c),
           NEW k, NEW n, NEW r \in Seq(Nodes), PutIn(c, k, n, r),
           NEW links, links[n] = At(c, k),
           k > 1 => links[c[k - 1]] = n,
           \A i \in 1..Len(c) : i # k - 1 => links[c[i]] = next[c[i]]
    PROVE  Path(links, IF k = 1 THEN n ELSE h, r)
<1>1. /\ c \in Seq(Nodes) /\ h = At(c, 1)
      /\ \A i \in 1..Len(c) : next[c[i]] = At(c, i + 1)
  BY DEF Path
<1>2. /\ Len(c) \in Nat /\ Len(r) = Len(c) + 1 /\ k \in 1..Len(r) /\ r[k] = n
      /\ \A i \in 1..Len(c) :
            /\ i < k => i \in 1..Len(r) /\ r[i] = c[i]
            /\ i >= k => i + 1 \in 1..Len(r) /\ r[i + 1] = c[i]
      /\ \A i \in 1..Len(r) :
            /\ i < k => i \in 1..Len(c) /\ r[i] = c[i]
            /\ i > k => i - 1 \in 1..Len(c) /\ r[i] = c[i - 1]
  BY <1>1, PutInFacts
<1>3. \A i \in 1..(Len(r) + 1) :
         At(r, i) = IF i < k THEN At(c, i) ELSE IF i = k THEN n ELSE At(c, i - 1)
  <2> SUFFICES ASSUME NEW i \in 1..(Len(r) + 1)
               PROVE  At(r, i) = IF i < k THEN At(c, i)
                                 ELSE IF i = k THEN n ELSE At(c, i - 1)
    OBVIOUS
  <2>1. CASE i < k
    BY <1>2, <2>1 DEF At
  <2>2. CASE i = k
    BY <1>2, <2>2 DEF At
  <2>3. CASE i > k
    <3>1. CASE i \in 1..Len(r)
      BY <1>2, <2>3, <3>1 DEF At
    <3>2. CASE i = Len(r) + 1
      <4>1. i \notin 1..Len(r) /\ i - 1 \notin 1..Len(c)
        BY <1>2, <3>2
      <4>2. QED BY <1>2, <2>3, <4>1 DEF At
    <3>3. QED BY <1>2, <3>1, <3>2
  <2>4. QED BY <1>2, <2>1, <2>2, <2>3
<1>4. ASSUME NEW i \in 1..Len(r) PROVE links[r[i]] = At(r, i + 1)
  <2>1. i + 1 \in 1..(Len(r) + 1) /\ i \in Nat /\ k \in Nat
    BY <1>2
  <2>2. CASE i < k - 1
    <3>1. i \in 1..Len(c) /\ r[i] = c[i] /\ i # k - 1
      BY <1>2, <2>1, <2>2
    <3>2. links[r[i]] = At(c, i + 1)
      BY <1>1, <3>1
    <3>3. i + 1 < k
      BY <2>1, <2>2
    <3>4. QED BY <1>3, <2>1, <3>2, <3>3
  <2>3. CASE i = k - 1
    <3>1. i \in 1..Len(c) /\ r[i] = c[k - 1] /\ k > 1 /\ i + 1 = k
      BY <1>2, <2>1, <2>3
    <3>2. At(r, i + 1) = n
      BY <1>3, <2>1, <3>1
    <3>3. QED BY <3>1, <3>2
  <2>4. CASE i = k
    <3>1. ~(i + 1 < k) /\ i + 1 # k /\ i + 1 - 1 = k
      BY <2>1, <2>4
    <3>2. At(r, i + 1) = At(c, k)
      BY <1>3, <2>1, <3>1
    <3>3. QED BY <1>2, <2>4, <3>2
  <2>5. CASE i > k
    <3>1. i - 1 \in 1..Len(c) /\ r[i] = c[i - 1] /\ i - 1 # k - 1
      BY <1>2, <2>1, <2>5
    <3>2. links[r[i]] = At(c, i - 1 + 1)
      BY <1>1, <3>1
    <3>3. ~(i + 1 < k) /\ i + 1 # k /\ i + 1 - 1 = i - 1 + 1
      BY <2>1, <2>5
    <3>4. At(r, i + 1) = At(c, i + 1 - 1)
      BY <1>3, <2>1, <3>3
    <3>5. QED BY <3>2, <3>3, <3>4
  <2>6. QED BY <2>1, <2>2, <2>3, <2>4, <2>5
<1>5. (IF k = 1 THEN n ELSE h) = At(r, 1)
  <2>1. 1 \in 1..(Len(r) + 1) /\ (k # 1 => 1 < k)
    BY <1>2
  <2>2. QED BY <1>1, <1>3, <2>1
<1>6. QED BY <1>4, <1>5 DEF Path

LEMMA PathWithout ==
    ASSUME NEW next, NEW h, NEW c, Path(next, h, c),
           NEW k, NEW n, NEW r \in Seq(Nodes), PutIn(r, k, n, c),
           NEW links, k > 1 => links[c[k - 1]] = next[n],
           \A i \in 1..Len(r) : i # k - 1 => links[r[i]] = next[r[i]]
    PROVE  Path(links, IF k = 1 THEN next[n] ELSE h, r)
<1>1. /\ c \in Seq(Nodes) /\ h = At(c, 1)
      /\ \A i \in 1..Len(c) : next[c[i]] = At(c, i + 1)
  BY DEF Path
<1>2. /\ Len(r) \in Nat /\ Len(c) = Len(r) + 1 /\ k \in 1..Len(c) /\ c[k] = n
      /\ \A i \in 1..Len(r) :
            /\ i < k => i \in 1..Len(c) /\ c[i] = r[i]
            /\ i >= k => i + 1 \in 1..Len(c) /\ c[i + 1] = r[i]
  BY <1>1, PutInFacts
<1>3. \A i \in 1..(Len(r) + 1) : At(r, i) = IF i < k THEN At(c, i) ELSE At(c, i + 1)
  <2> SUFFICES ASSUME NEW i \in 1..(Len(r) + 1)
               PROVE  At(r, i) = IF i < k THEN At(c, i) ELSE At(c, i + 1)
    OBVIOUS
  <2>1. CASE i \in 1..Len(r)
    BY <1>2, <2>1 DEF At
  <2>2. CASE i = Len(r) + 1
    <3>1. i \notin 1..Len(r) /\ ~(i < k) /\ i + 1 \notin 1..Len(c)
      BY <1>2, <2>2
    <3>2. QED BY <3>1 DEF At
  <2>3. QED BY <1>2, <2>1, <2>2
<1>4. ASSUME NEW i \in 1..Len(r) PROVE links[r[i]] = At(r, i + 1)
  <2>1. i + 1 \in 1..(Len(r) + 1) /\ i \in Nat /\ k \in Nat
    BY <1>2
  <2>2. CASE i < k - 1
    <3>1. i \in 1..Len(c) /\ r[i] = c[i] /\ i # k - 1 /\ i + 1 < k
      BY <1>2, <2>1, <2>2
    <3>2. links[r[i]] = At(c, i + 1)
      BY <1>1, <3>1
    <3>3. QED BY <1>3, <2>1, <3>1, <3>2
  <2>3. CASE i = k - 1
    <3>1. k > 1 /\ ~(i + 1 < k) /\ i + 1 = k /\ i < k
      BY <2>1, <2>3
    <3>2. i \in 1..Len(c) /\ r[i] = c[k - 1]
      BY <1>2, <2>3, <3>1
    <3>3. links[r[i]] = At(c, k + 1)
      BY <1>1, <1>2, <3>1, <3>2
    <3>4. QED BY <1>3, <2>1, <3>1, <3>3
  <2>4. CASE i >= k
    <3>1. i + 1 \in 1..Len(c) /\ r[i] = c[i + 1] /\ i # k - 1 /\ ~(i + 1 < k)
      BY <1>2, <2>1, <2>4
    <3>2. links[r[i]] = At(c, i + 1 + 1)
      BY <1>1, <3>1
    <3>3. QED BY <1>3, <2>1, <3>1, <3>2
  <2>5. QED BY <2>1, <2>2, <2>3, <2>4
<1>5. (IF k = 1 THEN next[n] ELSE h) = At(r, 1)
  <2>1. 1 \in 1..(Len(r) + 1) /\ (k # 1 => 1 < k) /\ (k = 1 => ~(1 < k))
    BY <1>2
  <2>2. k = 1 => next[n] = At(c, 2)
    BY <1>1, <1>2
  <2>3. QED BY <1>1, <1>3, <2>1, <2>2
<1>6. QED BY <1>4, <1>5 DEF Path

-----------------------------------------------------------------------------
(* What the operations on the record do to the chains: a node goes from    *)
(* the free chain to position k of the list, or from there back to the     *)
(* front of the free chain.                                                *)
LEMMA Elements ==
    ASSUME NEW c, NEW d, Parts(c, d)
    PROVE  /\ Len(c) \in Nat /\ Len(d) \in Nat
           /\ \A i \in 1..Len(c) : c[i] \in Nodes /\ c[i] \in LinkedIndex
           /\ \A i \in 1..Len(d) : d[i] \in Nodes /\ d[i] \in LinkedIndex
<1>1. c \in Seq(Nodes) /\ d \in Seq(Nodes)
  BY DEF Parts
<1>2. QED BY <1>1, LenProperties, ElementOfSeq DEF LinkedIndex

(* Taking the element at position k out of a sequence. *)
LEMMA TakenOut ==
    ASSUME NEW S, NEW s \in Seq(S), NEW k \in 1..Len(s)
    PROVE  /\ RemoveAt(s, k) \in Seq(S) /\ PutIn(RemoveAt(s, k), k, s[k], s)
           /\ k = 1 => Tail(s) = RemoveAt(s, k)
<1> DEFINE r == RemoveAt(s, k)
           n == Len(s)
<1>1. n \in Nat /\ k \in Nat
  BY LenProperties
<1>2. /\ r \in Seq(S) /\ Len(r) = n - 1
      /\ \A i \in 1..(n - 1) : r[i] = IF i < k THEN s[i] ELSE s[i + 1]
  BY Removed
<1> HIDE DEF r
<1>3. ASSUME NEW i \in 1..n
      PROVE  s[i] = IF i < k THEN r[i] ELSE IF i = k THEN s[k] ELSE r[i - 1]
  <2> HIDE DEF n
  <2>1. CASE i < k
    <3>1. i \in 1..(n - 1)
      BY <1>1, <2>1 DEF n
    <3>2. QED BY <1>2, <2>1, <3>1
  <2>2. CASE i = k
    BY <1>1, <2>2
  <2>3. CASE i > k
    <3>1. i - 1 \in 1..(n - 1) /\ ~(i - 1 < k) /\ i - 1 + 1 = i
      BY <1>1, <2>3
    <3>2. r[i - 1] = s[i - 1 + 1]
      BY <1>2, <3>1
    <3>3. QED BY <1>1, <2>3, <3>1, <3>2
  <2>4. QED BY <1>1, <2>1, <2>2, <2>3
<1>4. PutIn(r, k, s[k], s)
  <2>1. k \in 1..(Len(r) + 1) /\ Len(s) = Len(r) + 1
    BY <1>1, <1>2
  <2>2. QED BY <1>3, <2>1 DEF PutIn
<1>5. ASSUME k = 1 PROVE Tail(s) = r
  <2>1. s # <<>>
    BY <1>1, EmptySeq
  <2>2. /\ Tail(s) \in Seq(S) /\ Len(Tail(s)) = n - 1
        /\ \A i \in 1..Len(Tail(s)) : Tail(s)[i] = s[i + 1]
    BY <2>1, HeadTailProperties
  <2>3. \A i \in 1..(n - 1) : ~(i < 1)
    BY <1>1
  <2>4. \A i \in 1..Len(r) : r[i] = Tail(s)[i]
    BY <1>2, <1>5, <2>2, <2>3
  <2>5. QED BY <1>2, <2>2, <2>4, SeqEqual
<1>6. QED BY <1>2, <1>4, <1>5 DEF r

(* Taking the first node of the free chain for position k. *)
LEMMA Claimed ==
    ASSUME NEW l, NEW c, NEW d, Threads(l, c, d), Len(d) > 0,
           NEW k, NEW r \in Seq(Nodes), PutIn(c, k, d[1], r),
           NEW m \in List, m.free = l.next[d[1]],
           m.head = IF k = 1 THEN d[1] ELSE l.head,
           m.next[d[1]] = At(c, k), k > 1 => m.next[c[k - 1]] = d[1],
           \A x \in Nodes : x # d[1] /\ ~(k > 1 /\ x = c[k - 1]) => m.next[x] = l.next[x]
    PROVE  Threads(m, r, Tail(d))
<1> DEFINE n == d[1]
           t == Tail(d)
<1>1. /\ Parts(c, d) /\ Path(l.next, l.head, c) /\ Path(l.next, l.free, d)
      /\ c \in Seq(Nodes) /\ d \in Seq(Nodes) /\ Len(d) \in Nat /\ Len(c) \in Nat
  BY Elements DEF Threads, Parts
<1>2. t \in Seq(Nodes) /\ PutIn(t, 1, n, d)
  <2>1. 1 \in 1..Len(d)
    BY <1>1
  <2>2. QED BY <1>1, <2>1, TakenOut
<1>3. Parts(d, c)
  BY <1>1, PartsTurned
<1>4. Parts(r, t)
  <2> HIDE DEF n, t
  <2>1. PutIn(c, k, n, r)
    BY DEF n
  <2>2. Parts(t, r)
    BY <1>2, <1>3, <2>1, Moved
  <2>3. QED BY <2>2, PartsTurned
<1>5. k \in 1..(Len(c) + 1)
  BY DEF PutIn
<1>6. /\ \A i, j \in 1..Len(c) : c[i] = c[j] => i = j
      /\ \A i, j \in 1..Len(d) : d[i] = d[j] => i = j
      /\ \A i \in 1..Len(c) : \A j \in 1..Len(d) : c[i] # d[j]
      /\ \A i \in 1..Len(c) : c[i] \in Nodes
      /\ \A i \in 1..Len(d) : d[i] \in Nodes
      /\ 1 \in 1..Len(d)
  BY <1>1, Elements DEF Parts
<1>7. Path(m.next, m.head, r)
  <2>1. \A i \in 1..Len(c) : i # k - 1 => m.next[c[i]] = l.next[c[i]]
    <3> SUFFICES ASSUME NEW i \in 1..Len(c), i # k - 1
                 PROVE  c[i] # d[1] /\ ~(k > 1 /\ c[i] = c[k - 1])
      BY <1>6
    <3>1. k > 1 => k - 1 \in 1..Len(c)
      BY <1>1, <1>5
    <3>2. QED BY <1>6, <3>1
  <2>2. Path(l.next, l.head, c)
    BY <1>1
  <2> HIDE DEF n, t
  <2>3. Path(m.next, IF k = 1 THEN d[1] ELSE l.head, r)
    BY <2>1, <2>2, PathWith
  <2>4. QED BY <2>3
<1>8. Path(m.next, m.free, t)
  <2>1. /\ Len(d) = Len(t) + 1 /\ Len(t) \in Nat
        /\ \A i \in 1..Len(t) : i + 1 \in 1..Len(d) /\ d[i + 1] = t[i] /\ i + 1 # 1
    <3> HIDE DEF n, t
    <3>1. /\ Len(t) \in Nat /\ Len(d) = Len(t) + 1
          /\ \A i \in 1..Len(t) : i >= 1 => i + 1 \in 1..Len(d) /\ d[i + 1] = t[i]
      BY <1>1, <1>2, PutInFacts
    <3>2. QED BY <3>1
  <2>2. \A i \in 1..Len(t) : i # 1 - 1 => m.next[t[i]] = l.next[t[i]]
    <3> SUFFICES ASSUME NEW i \in 1..Len(t)
                 PROVE  t[i] \in Nodes /\ t[i] # d[1] /\ ~(k > 1 /\ t[i] = c[k - 1])
      OBVIOUS
    <3>1. k > 1 => k - 1 \in 1..Len(c)
      BY <1>1, <1>5
    <3> HIDE DEF t
    <3>2. QED BY <1>6, <2>1, <3>1
  <2> HIDE DEF t, n
  <2>3. Path(m.next, IF 1 = 1 THEN l.next[n] ELSE l.free, t)
    <3>1. ~(1 > 1)
      OBVIOUS
    <3>2. QED BY <1>1, <1>2, <2>2, <3>1, PathWithout
  <2>4. QED BY <2>3 DEF n
<1>9. QED BY <1>4, <1>7, <1>8 DEF Threads, t

(* Giving the node at position k of the list back. *)
LEMMA Released ==
    ASSUME NEW l, NEW c, NEW d, Threads(l, c, d), NEW k \in 1..Len(c),
           NEW r \in Seq(Nodes), PutIn(r, k, c[k], c),
           NEW m \in List, m.free = c[k],
           m.head = IF k = 1 THEN l.next[c[k]] ELSE l.head,
           m.next[c[k]] = l.free, k > 1 => m.next[c[k - 1]] = l.next[c[k]],
           \A x \in Nodes : x # c[k] /\ ~(k > 1 /\ x = c[k - 1]) => m.next[x] = l.next[x]
    PROVE  Threads(m, r, <<c[k]>> \o d)
<1> DEFINE n == c[k]
           b == <<n>> \o d
<1>1. /\ Parts(c, d) /\ Path(l.next, l.head, c) /\ Path(l.next, l.free, d)
      /\ c \in Seq(Nodes) /\ d \in Seq(Nodes) /\ Len(d) \in Nat /\ Len(c) \in Nat
      /\ n \in Nodes
  BY Elements DEF Threads, Parts
<1>2. /\ \A i, j \in 1..Len(c) : c[i] = c[j] => i = j
      /\ \A i, j \in 1..Len(d) : d[i] = d[j] => i = j
      /\ \A i \in 1..Len(c) : \A j \in 1..Len(d) : c[i] # d[j]
      /\ \A i \in 1..Len(c) : c[i] \in Nodes
      /\ \A i \in 1..Len(d) : d[i] \in Nodes
  BY <1>1, Elements DEF Parts
<1>3. b \in Seq(Nodes) /\ PutIn(d, 1, n, b)
  <2>1. <<n>> \in Seq(Nodes) /\ Len(<<n>>) = 1 /\ <<n>>[1] = n
    BY <1>1
  <2>2. /\ b \in Seq(Nodes) /\ Len(b) = 1 + Len(d)
        /\ \A i \in 1..(1 + Len(d)) : b[i] = IF i <= 1 THEN <<n>>[i] ELSE d[i - 1]
    <3>1. /\ b \in Seq(Nodes) /\ Len(b) = Len(<<n>>) + Len(d)
          /\ \A i \in 1..(Len(<<n>>) + Len(d)) :
                b[i] = IF i <= Len(<<n>>) THEN <<n>>[i] ELSE d[i - Len(<<n>>)]
      BY <1>1, <2>1, ConcatProperties
    <3> HIDE DEF b, n
    <3>2. QED BY <2>1, <3>1
  <2> HIDE DEF b, n
  <2>3. ASSUME NEW i \in 1..Len(b)
        PROVE  b[i] = IF i < 1 THEN d[i] ELSE IF i = 1 THEN n ELSE d[i - 1]
    <3>1. CASE i = 1
      BY <2>1, <2>2, <3>1
    <3>2. CASE i > 1
      BY <2>2, <3>2
    <3>3. QED BY <1>1, <2>2, <3>1, <3>2
  <2>4. QED BY <1>1, <2>2, <2>3 DEF PutIn
<1>4. Parts(r, b)
  <2> HIDE DEF b, n
  <2>1. PutIn(r, k, n, c)
    BY DEF n
  <2>2. QED BY <1>1, <1>3, <2>1, Moved
<1>5. /\ Len(r) \in Nat /\ Len(c) = Len(r) + 1
      /\ \A i \in 1..Len(r) :
            /\ i < k => i \in 1..Len(c) /\ c[i] = r[i]
            /\ i >= k => i + 1 \in 1..Len(c) /\ c[i + 1] = r[i]
  BY <1>1, PutInFacts
<1>6. k > 1 => k - 1 \in 1..Len(c) /\ k - 1 # k
  BY <1>1
<1>7. Path(m.next, m.head, r)
  <2>1. \A i \in 1..Len(r) : i # k - 1 => m.next[r[i]] = l.next[r[i]]
    <3> SUFFICES ASSUME NEW i \in 1..Len(r), i # k - 1
                 PROVE  r[i] \in Nodes /\ r[i] # c[k] /\ ~(k > 1 /\ r[i] = c[k - 1])
      OBVIOUS
    <3>1. CASE i < k
      <4>1. i \in 1..Len(c) /\ c[i] = r[i] /\ i # k
        BY <1>5, <3>1
      <4>2. QED BY <1>2, <1>6, <4>1
    <3>2. CASE i >= k
      <4>1. i + 1 \in 1..Len(c) /\ c[i + 1] = r[i] /\ i + 1 # k /\ i + 1 # k - 1
        BY <1>5, <3>2
      <4>2. QED BY <1>2, <1>6, <4>1
    <3>3. i < k \/ i >= k
      BY <1>1
    <3>4. QED BY <3>1, <3>2, <3>3
  <2>2. Path(l.next, l.head, c)
    BY <1>1
  <2> HIDE DEF n, b
  <2>3. Path(m.next, IF k = 1 THEN l.next[c[k]] ELSE l.head, r)
    BY <2>1, <2>2, PathWithout
  <2>4. QED BY <2>3
<1>8. Path(m.next, m.free, b)
  <2>1. \A i \in 1..Len(d) : i # 1 - 1 => m.next[d[i]] = l.next[d[i]]
    <3> SUFFICES ASSUME NEW i \in 1..Len(d)
                 PROVE  d[i] \in Nodes /\ d[i] # c[k] /\ ~(k > 1 /\ d[i] = c[k - 1])
      OBVIOUS
    <3>1. QED BY <1>2, <1>6
  <2>2. m.next[n] = At(d, 1)
    BY <1>1 DEF Path
  <2> HIDE DEF b, n
  <2>3. Path(m.next, IF 1 = 1 THEN n ELSE l.free, b)
    <3>1. ~(1 > 1)
      OBVIOUS
    <3>2. QED BY <1>1, <1>3, <2>1, <2>2, <3>1, PathWith
  <2>4. QED BY <2>3 DEF n
<1>9. QED BY <1>4, <1>7, <1>8 DEF Threads

-----------------------------------------------------------------------------
(* There is a sequence with an element put in, and only one. *)
LEMMA Putting ==
    ASSUME NEW S, NEW s \in Seq(S), NEW k \in 1..(Len(s) + 1), NEW e \in S
    PROVE  \E r \in Seq(S) : PutIn(s, k, e, r)
<1> DEFINE n == Len(s) + 1
           r == [i \in 1..n |-> IF i < k THEN s[i] ELSE IF i = k THEN e ELSE s[i - 1]]
<1>1. Len(s) \in Nat /\ n \in Nat /\ \A i \in 1..Len(s) : s[i] \in S
  BY LenProperties, ElementOfSeq
<1>2. \A i \in 1..n : r[i] \in S
  <2> SUFFICES ASSUME NEW i \in 1..n
               PROVE  (IF i < k THEN s[i] ELSE IF i = k THEN e ELSE s[i - 1]) \in S
    OBVIOUS
  <2>1. (i < k => i \in 1..Len(s)) /\ (i > k => i - 1 \in 1..Len(s)) /\ (i < k \/ i = k \/ i > k)
    BY <1>1
  <2>2. QED BY <1>1, <2>1
<1>3. r \in [1..n -> S]
  BY <1>2
<1>4. r \in Seq(S) /\ Len(r) = n
  <2> HIDE DEF r, n
  <2>1. QED BY <1>1, <1>3
<1>5. \A i \in 1..Len(r) : r[i] = IF i < k THEN s[i] ELSE IF i = k THEN e ELSE s[i - 1]
  <2>1. \A i \in 1..n : r[i] = IF i < k THEN s[i] ELSE IF i = k THEN e ELSE s[i - 1]
    OBVIOUS
  <2> HIDE DEF r, n
  <2>2. QED BY <1>4, <2>1
<1> HIDE DEF r
<1>6. PutIn(s, k, e, r)
  BY <1>4, <1>5 DEF PutIn
<1>7. QED BY <1>4, <1>6

LEMMA PutOnce ==
    ASSUME NEW S, NEW s, NEW k, NEW e, NEW q \in Seq(S), NEW r \in Seq(S),
           PutIn(s, k, e, q), PutIn(s, k, e, r)
    PROVE  q = r
<1>1. Len(q) = Len(r) /\ \A i \in 1..Len(q) : q[i] = r[i]
  BY DEF PutIn
<1>2. QED BY <1>1, SeqEqual

LEMMA TakenOnce ==
    ASSUME NEW S, NEW s, NEW k, NEW q \in Seq(S), NEW r \in Seq(S),
           NEW e, s \in Seq(S), PutIn(q, k, e, s), PutIn(r, k, e, s)
    PROVE  q = r
<1>1. /\ Len(q) \in Nat /\ Len(r) \in Nat /\ Len(s) = Len(q) + 1 /\ Len(s) = Len(r) + 1
      /\ \A i \in 1..Len(q) : (i < k => s[i] = q[i]) /\ (i >= k => s[i + 1] = q[i])
      /\ \A i \in 1..Len(r) : (i < k => s[i] = r[i]) /\ (i >= k => s[i + 1] = r[i])
      /\ k \in 1..Len(s)
  BY PutInFacts
<1>2. Len(q) = Len(r)
  BY <1>1
<1>3. ASSUME NEW i \in 1..Len(q) PROVE q[i] = r[i]
  <2>1. i \in 1..Len(r) /\ (i < k \/ i >= k)
    BY <1>1, <1>2
  <2>2. QED BY <1>1, <2>1
<1>4. QED BY <1>2, <1>3, SeqEqual

-----------------------------------------------------------------------------
(* The values along a chain. *)
LEMMA EntriesAre ==
    ASSUME NEW l, NEW c, NEW d, Threads(l, c, d)
    PROVE  /\ Entries(l) \in Seq(Entry) /\ Len(Entries(l)) = Len(c)
           /\ \A i \in 1..Len(c) : Entries(l)[i] = l.val[c[i]]
<1>1. Chain(l) = c /\ Len(c) \in Nat /\ \A i \in 1..Len(c) : c[i] \in Nodes
  BY ChainsAre, Elements DEF Threads
<1>2. l.val \in [Nodes -> Entry]
  BY DEF Threads, List
<1>3. Entries(l) = [i \in 1..Len(c) |-> l.val[c[i]]]
  BY <1>1 DEF Entries
<1> DEFINE n == Len(c)
           s == [i \in 1..n |-> l.val[c[i]]]
<1>4. s \in [1..n -> Entry] /\ \A i \in 1..n : s[i] = l.val[c[i]]
  BY <1>1, <1>2
<1>5. n \in Nat /\ Entries(l) = s
  BY <1>1, <1>3
<1> HIDE DEF s, n
<1>6. s \in Seq(Entry) /\ Len(s) = n
  BY <1>4, <1>5
<1>7. QED BY <1>4, <1>5, <1>6 DEF n

(* The entries when a node comes to, or goes from, position k of a chain.  *)
LEMMA EntriesWith ==
    ASSUME NEW l, NEW c, NEW d, Threads(l, c, d), NEW m, NEW r, NEW t, Threads(m, r, t),
           NEW k, NEW n, PutIn(c, k, n, r), \A x \in Nodes \ {n} : m.val[x] = l.val[x],
           \A i \in 1..Len(c) : c[i] # n
    PROVE  PutIn(Entries(l), k, m.val[n], Entries(m))
<1> DEFINE E == Entries(l)
           F == Entries(m)
<1>1. /\ Len(E) = Len(c) /\ \A i \in 1..Len(c) : E[i] = l.val[c[i]]
      /\ Len(F) = Len(r) /\ \A i \in 1..Len(r) : F[i] = m.val[r[i]]
  BY EntriesAre
<1>2. c \in Seq(Nodes) /\ r \in Seq(Nodes) /\ \A i \in 1..Len(c) : c[i] \in Nodes
  BY Elements DEF Threads, Parts
<1>3. /\ Len(c) \in Nat /\ Len(r) = Len(c) + 1 /\ k \in 1..Len(r) /\ r[k] = n
      /\ \A i \in 1..Len(r) :
            /\ i < k => i \in 1..Len(c) /\ r[i] = c[i]
            /\ i > k => i - 1 \in 1..Len(c) /\ r[i] = c[i - 1]
  BY <1>2, PutInFacts
<1> HIDE DEF E, F
<1>4. \A i \in 1..Len(c) : m.val[c[i]] = E[i]
  BY <1>1, <1>2
<1>5. ASSUME NEW i \in 1..Len(F)
      PROVE  F[i] = IF i < k THEN E[i] ELSE IF i = k THEN m.val[n] ELSE E[i - 1]
  <2>1. F[i] = m.val[r[i]]
    BY <1>1
  <2>2. CASE i < k
    BY <1>1, <1>3, <1>4, <2>1, <2>2
  <2>3. CASE i = k
    BY <1>3, <2>1, <2>3
  <2>4. CASE i > k
    BY <1>1, <1>3, <1>4, <2>1, <2>4
  <2>5. QED BY <1>1, <1>3, <2>2, <2>3, <2>4
<1>6. k \in 1..(Len(E) + 1) /\ Len(F) = Len(E) + 1
  BY <1>1, <1>3
<1>7. QED BY <1>5, <1>6 DEF PutIn, E, F

(* The first element of a set of positions, as SelectInSeq finds it. *)
LEMMA Spot ==
    ASSUME NEW n \in Nat, NEW I \in SUBSET (1..n)
    PROVE  \E k \in 1..(n + 1) :
              /\ \A i \in 1..(k - 1) : i \notin I
              /\ k <= n <=> I # {}
              /\ k <= n => k \in I
              /\ (IF I # {} THEN Min(I) ELSE 0) = IF k <= n THEN k ELSE 0
<1>1. CASE I = {}
  <2> DEFINE k == n + 1
  <2>1. k \in 1..(n + 1) /\ ~(k <= n)
    OBVIOUS
  <2> HIDE DEF k
  <2>2. QED BY <1>1, <2>1
<1>2. CASE I # {}
  <2>1. I \in SUBSET Nat
    OBVIOUS
  <2>2. Min(I) \in I /\ \A x \in I : Min(I) <= x
    BY <1>2, <2>1, Smallest
  <2> DEFINE k == Min(I)
  <2>3. k \in I /\ \A x \in I : k <= x
    BY <2>2
  <2> HIDE DEF k
  <2>4. k \in 1..(n + 1) /\ k <= n /\ \A i \in 1..(k - 1) : ~(k <= i)
    BY <2>3
  <2>5. \A i \in 1..(k - 1) : i \notin I
    BY <2>3, <2>4
  <2>6. (IF I # {} THEN Min(I) ELSE 0) = k
    BY <1>2 DEF k
  <2>7. QED BY <1>2, <2>3, <2>4, <2>5, <2>6
<1>3. QED BY <1>1, <1>2

(* Where an entry goes, in the list and in its specification. *)
Before(s, e) == {i \in 1..Len(s) : ~(s[i].instant < e.instant)}

LEMMA PlaceIs ==
    ASSUME NEW s \in Seq(Entry), NEW e \in Entry, NEW k \in 1..(Len(s) + 1),
           k <= Len(s) <=> Before(s, e) # {},
           (IF Before(s, e) # {} THEN Min(Before(s, e)) ELSE 0) =
              IF k <= Len(s) THEN k ELSE 0
    PROVE  Sorted!Place(s, e) \in Seq(Entry) /\ PutIn(s, k, e, Sorted!Place(s, e))
<1> DEFINE r == Sorted!Place(s, e)
           first == IF k <= Len(s) THEN k ELSE 0
<1>1. r = IF first = 0 THEN Append(s, e) ELSE InsertAt(s, first, e)
  <2>1. r = LET I == Before(s, e)
                at == IF I # {} THEN Min(I) ELSE 0
            IN  IF at = 0 THEN Append(s, e) ELSE InsertAt(s, at, e)
    BY DEF Sorted!Place, Sorted!PlaceBy, Sorted!SelectInSeq, Sorted!InsertAt, Sorted!Min,
           InsertAt, Min, Before
  <2> HIDE DEF r, first
  <2>2. QED BY <2>1 DEF first
<1>2. Len(s) \in Nat
  BY LenProperties
<1> HIDE DEF r
<1>3. CASE k <= Len(s)
  <2>1. k \in 1..Len(s) /\ first = k /\ k # 0
    BY <1>2, <1>3
  <2>2. r = InsertAt(s, k, e)
    BY <1>1, <2>1
  <2>3. /\ r \in Seq(Entry) /\ Len(r) = Len(s) + 1
        /\ \A i \in 1..(Len(s) + 1) :
              r[i] = IF i < k THEN s[i] ELSE IF i = k THEN e ELSE s[i - 1]
    BY <2>1, <2>2, Inserted
  <2>4. QED BY <2>3 DEF PutIn, r
<1>4. CASE ~(k <= Len(s))
  <2>1. k = Len(s) + 1 /\ r = Append(s, e)
    BY <1>1, <1>2, <1>4
  <2>2. /\ r \in Seq(Entry) /\ Len(r) = Len(s) + 1
        /\ \A i \in 1..Len(s) : r[i] = s[i]
        /\ r[Len(s) + 1] = e
    BY <2>1, AppendProperties
  <2>3. \A i \in 1..Len(r) :
           r[i] = IF i < k THEN s[i] ELSE IF i = k THEN e ELSE s[i - 1]
    BY <1>2, <2>1, <2>2
  <2>4. QED BY <2>2, <2>3 DEF PutIn, r
<1>5. QED BY <1>3, <1>4

-----------------------------------------------------------------------------
(* The operations on the record. *)
Pushed(l, e, n, current) ==
    LET m == [l EXCEPT !.val[n] = e, !.free = l.next[n]]
    IN  IF current = Nil
        THEN [m EXCEPT !.next[n] = m.head, !.head = n]
        ELSE [m EXCEPT !.next[n] = m.next[current], !.next[current] = n]

LEMMA PushedIs ==
    ASSUME NEW l \in List, NEW e \in Entry, NEW n \in Nodes, NEW current \in LinkedIndex,
           current # n
    PROVE  LET m == Pushed(l, e, n, current) IN
           /\ m \in List /\ m.free = l.next[n]
           /\ m.val[n] = e /\ \A x \in Nodes \ {n} : m.val[x] = l.val[x]
           /\ m.head = IF current = Nil THEN n ELSE l.head
           /\ m.next[n] = IF current = Nil THEN l.head ELSE l.next[current]
           /\ current # Nil => m.next[current] = n
           /\ \A x \in Nodes \ {n, current} : m.next[x] = l.next[x]
<1> DEFINE m == Pushed(l, e, n, current)
           val == [l.val EXCEPT ![n] = e]
<1>1. /\ l.next \in [Nodes -> LinkedIndex] /\ l.val \in [Nodes -> Entry]
      /\ l.head \in LinkedIndex /\ l.free \in LinkedIndex
      /\ l = [next |-> l.next, val |-> l.val, head |-> l.head, free |-> l.free]
      /\ n \in LinkedIndex /\ n # Nil
  BY NilIsNoNode DEF List, LinkedIndex
<1>2. val \in [Nodes -> Entry] /\ val[n] = e /\ \A x \in Nodes \ {n} : val[x] = l.val[x]
  BY <1>1
<1>3. CASE current = Nil
  <2> DEFINE next == [l.next EXCEPT ![n] = l.head]
  <2>1. m = [next |-> next, val |-> val, head |-> n, free |-> l.next[n]]
    BY <1>1, <1>3 DEF Pushed
  <2>2. /\ next \in [Nodes -> LinkedIndex] /\ next[n] = l.head
        /\ \A x \in Nodes \ {n} : next[x] = l.next[x]
    BY <1>1
  <2> HIDE DEF next, val, m
  <2>3. m \in List /\ m.next = next /\ m.val = val /\ m.head = n /\ m.free = l.next[n]
    BY <1>1, <1>2, <2>1, <2>2 DEF List
  <2>4. QED BY <1>2, <1>3, <2>2, <2>3 DEF m
<1>4. CASE current # Nil
  <2> DEFINE next == [l.next EXCEPT ![n] = l.next[current], ![current] = n]
  <2>1. current \in Nodes
    BY <1>4 DEF LinkedIndex
  <2>2. m = [next |-> next, val |-> val, head |-> l.head, free |-> l.next[n]]
    BY <1>1, <1>4, <2>1 DEF Pushed
  <2>3. /\ next \in [Nodes -> LinkedIndex] /\ next[n] = l.next[current]
        /\ next[current] = n
        /\ \A x \in Nodes \ {n, current} : next[x] = l.next[x]
    BY <1>1, <2>1
  <2> HIDE DEF next, val, m
  <2>4. m \in List /\ m.next = next /\ m.val = val /\ m.head = l.head /\ m.free = l.next[n]
    BY <1>1, <1>2, <2>2, <2>3 DEF List
  <2>5. QED BY <1>2, <1>4, <2>3, <2>4 DEF m
<1>5. QED BY <1>3, <1>4

(* push_unchecked puts the entry in its place. *)
LEMMA PushKeeps ==
    ASSUME NEW l, NEW c, NEW d, Threads(l, c, d), Len(d) > 0, NEW e \in Entry
    PROVE  /\ \E r, t : Threads(push_unchecked(l, e), r, t)
           /\ Entries(push_unchecked(l, e)) = Sorted!Place(Entries(l), e)
<1> DEFINE n == d[1]
           I == Before(Entries(l), e)
           N == Len(c)
           m == push_unchecked(l, e)
<1>1. /\ l \in List /\ Parts(c, d) /\ Path(l.next, l.head, c) /\ Path(l.next, l.free, d)
      /\ Chain(l) = c /\ c \in Seq(Nodes) /\ N \in Nat /\ Len(d) \in Nat
      /\ \A i \in 1..N : c[i] \in Nodes
      /\ \A i \in 1..Len(d) : d[i] \in Nodes
  <2>1. /\ l \in List /\ Parts(c, d) /\ Path(l.next, l.head, c) /\ Path(l.next, l.free, d)
    BY DEF Threads
  <2>2. c \in Seq(Nodes)
    BY <2>1 DEF Parts
  <2>3. Chain(l) = c
    BY ChainsAre
  <2>4. /\ Len(c) \in Nat /\ Len(d) \in Nat
        /\ \A i \in 1..Len(c) : c[i] \in Nodes
        /\ \A i \in 1..Len(d) : d[i] \in Nodes
    BY <2>1, Elements
  <2>5. QED BY <2>1, <2>2, <2>3, <2>4
<1>2. /\ 1 \in 1..Len(d) /\ n \in Nodes /\ n = l.free /\ \A i \in 1..N : c[i] # n
  <2>1. 1 \in 1..Len(d)
    BY <1>1
  <2>2. QED BY <1>1, <2>1 DEF Parts, Path, At
<1>3. /\ Entries(l) \in Seq(Entry) /\ Len(Entries(l)) = N
      /\ \A i \in 1..N : Entries(l)[i] = l.val[c[i]]
  BY EntriesAre
<1>4. I = {i \in 1..N : ~Earlier(l, c[i], e)} /\ I \in SUBSET (1..N)
  BY <1>3 DEF Before, Earlier
<1>5. PICK k \in 1..(N + 1) :
         /\ k <= N <=> I # {}
         /\ (IF I # {} THEN Min(I) ELSE 0) = IF k <= N THEN k ELSE 0
  <2> HIDE DEF I, N
  <2>1. QED BY <1>1, <1>4, Spot
<1>6. LastEarlier(l, e) = At(c, k - 1)
  <2> DEFINE stop == IF I # {} THEN Min(I) ELSE 0
  <2>1. LastEarlier(l, e) = IF stop = 0 THEN (IF c = <<>> THEN Nil ELSE Last(c))
                            ELSE IF stop = 1 THEN Nil ELSE c[stop - 1]
    BY <1>1, <1>4 DEF LastEarlier, SelectInSeq
  <2>2. stop = IF k <= N THEN k ELSE 0
    BY <1>5
  <2>3. c = <<>> <=> N = 0
    BY <1>1, EmptySeq
  <2> HIDE DEF stop, I
  <2>4. CASE k <= N
    <3>1. stop = k /\ k # 0 /\ (k = 1 \/ k - 1 \in 1..N) /\ (k = 1 => k - 1 \notin 1..N)
      BY <1>1, <2>2, <2>4
    <3>2. QED BY <2>1, <3>1 DEF At
  <2>5. CASE ~(k <= N)
    <3>1. stop = 0 /\ k - 1 = N /\ (N # 0 => k - 1 \in 1..N) /\ (N = 0 => k - 1 \notin 1..N)
      BY <1>1, <2>2, <2>5
    <3>2. QED BY <2>1, <2>3, <3>1 DEF At, Last
  <2>6. QED BY <2>4, <2>5
<1> DEFINE current == At(c, k - 1)
<1>7. /\ k = 1 => current = Nil
      /\ k > 1 => k - 1 \in 1..N /\ current = c[k - 1] /\ current \in Nodes /\ current # Nil
      /\ current \in LinkedIndex /\ current # n
  <2>1. k = 1 \/ k > 1
    BY <1>1
  <2>2. k = 1 => k - 1 \notin 1..N
    BY <1>1
  <2>3. k > 1 => k - 1 \in 1..N
    BY <1>1
  <2>4. QED BY <1>1, <1>2, <2>1, <2>2, <2>3, NilIsNoNode DEF At, LinkedIndex
<1>8. m = Pushed(l, e, n, current)
  BY <1>2, <1>6 DEF push_unchecked, Pushed
<1>9. /\ m \in List /\ m.free = l.next[n]
      /\ m.val[n] = e /\ \A x \in Nodes \ {n} : m.val[x] = l.val[x]
      /\ m.head = IF current = Nil THEN n ELSE l.head
      /\ m.next[n] = IF current = Nil THEN l.head ELSE l.next[current]
      /\ current # Nil => m.next[current] = n
      /\ \A x \in Nodes \ {n, current} : m.next[x] = l.next[x]
  <2> HIDE DEF m, n, current
  <2>1. QED BY <1>1, <1>2, <1>7, <1>8, PushedIs
<1>10. PICK r \in Seq(Nodes) : PutIn(c, k, n, r)
  <2> HIDE DEF n
  <2>1. QED BY <1>1, <1>2, Putting
<1> HIDE DEF m, I
<1>11. Threads(m, r, Tail(d))
  <2>1. m.head = IF k = 1 THEN d[1] ELSE l.head
    BY <1>1, <1>7, <1>9
  <2>2. m.next[d[1]] = At(c, k)
    <3>1. CASE k = 1
      BY <1>1, <1>7, <1>9, <3>1 DEF Path
    <3>2. CASE k > 1
      <4>1. l.next[c[k - 1]] = At(c, k - 1 + 1) /\ k - 1 + 1 = k
        BY <1>1, <1>7, <3>2 DEF Path
      <4>2. QED BY <1>7, <1>9, <3>2, <4>1
    <3>3. QED BY <1>1, <3>1, <3>2
  <2>3. k > 1 => m.next[c[k - 1]] = d[1]
    BY <1>7, <1>9
  <2>4. \A x \in Nodes : x # d[1] /\ ~(k > 1 /\ x = c[k - 1]) => m.next[x] = l.next[x]
    <3> SUFFICES ASSUME NEW x \in Nodes, x # d[1], ~(k > 1 /\ x = c[k - 1])
                 PROVE  x # current
      BY <1>9
    <3>1. k = 1 \/ k > 1
      BY <1>1
    <3>2. QED BY <1>7, <3>1, NilIsNoNode
  <2>5. m.free = l.next[d[1]] /\ PutIn(c, k, d[1], r)
    BY <1>9, <1>10
  <2> HIDE DEF current, n
  <2>6. QED BY <1>9, <1>10, <2>1, <2>2, <2>3, <2>4, <2>5, Claimed
<1>12. Entries(m) = Sorted!Place(Entries(l), e)
  <2> DEFINE P == Sorted!Place(Entries(l), e)
  <2>1. PutIn(Entries(l), k, m.val[n], Entries(m))
    <3> HIDE DEF n
    <3>1. QED BY <1>2, <1>9, <1>10, <1>11, EntriesWith
  <2>2. P \in Seq(Entry) /\ PutIn(Entries(l), k, e, P)
    BY <1>3, <1>5, PlaceIs DEF I
  <2>3. Entries(m) \in Seq(Entry)
    BY <1>11, EntriesAre
  <2> HIDE DEF P
  <2>4. PutIn(Entries(l), k, e, Entries(m))
    BY <1>9, <2>1
  <2>5. Entries(m) = P
    BY <2>2, <2>3, <2>4, PutOnce
  <2>6. QED BY <2>5 DEF P
<1>13. QED BY <1>11, <1>12 DEF m

(* The handle f is at position k of the chain c. *)
Points(f, c, k) ==
    /\ k \in 1..Len(c) /\ f.index = c[k]
    /\ f.is_head <=> k = 1
    /\ f.prev_index = At(c, k - 1)

LEMMA PoppedIs ==
    ASSUME NEW l, NEW c, NEW d, Threads(l, c, d), NEW f, NEW k, Points(f, c, k)
    PROVE  LET m == pop_internal(l, f).list IN
           /\ pop_internal(l, f).value = l.val[c[k]]
           /\ m \in List /\ m.free = c[k] /\ m.val = l.val
           /\ m.head = IF k = 1 THEN l.next[c[k]] ELSE l.head
           /\ m.next[c[k]] = l.free /\ (k > 1 => m.next[c[k - 1]] = l.next[c[k]])
           /\ \A x \in Nodes : x # c[k] /\ ~(k > 1 /\ x = c[k - 1]) => m.next[x] = l.next[x]
<1> DEFINE m == pop_internal(l, f).list
           n == c[k]
<1>1. /\ Parts(c, d) /\ l \in List
      /\ l.next \in [Nodes -> LinkedIndex] /\ l.val \in [Nodes -> Entry]
      /\ l.head \in LinkedIndex /\ l.free \in LinkedIndex
      /\ l = [next |-> l.next, val |-> l.val, head |-> l.head, free |-> l.free]
  BY DEF Threads, List
<1>2. /\ k \in 1..Len(c) /\ Len(c) \in Nat /\ n \in Nodes /\ n \in LinkedIndex /\ f.index = n
      /\ f.is_head <=> k = 1
  BY <1>1, Elements DEF Points
<1>3. CASE k = 1
  <2> DEFINE next == [l.next EXCEPT ![n] = l.free]
  <2>1. l.head = n
    BY <1>2, <1>3 DEF Threads, Path, At
  <2>2. /\ pop_internal(l, f).value = l.val[n]
        /\ m = [next |-> next, val |-> l.val, head |-> l.next[n], free |-> n]
    BY <1>1, <1>2, <1>3, <2>1 DEF pop_internal, pop_unchecked
  <2>3. /\ next \in [Nodes -> LinkedIndex] /\ next[n] = l.free
        /\ \A x \in Nodes \ {n} : next[x] = l.next[x]
    BY <1>1, <1>2
  <2>4. l.next[n] \in LinkedIndex /\ ~(k > 1)
    BY <1>1, <1>2, <1>3
  <2> HIDE DEF next, m, n
  <2>5. m \in List /\ m.next = next /\ m.val = l.val /\ m.head = l.next[n] /\ m.free = n
    BY <1>1, <1>2, <2>2, <2>3, <2>4 DEF List
  <2>6. QED BY <1>3, <2>2, <2>3, <2>4, <2>5 DEF m, n
<1>4. CASE k # 1
  <2> DEFINE p == c[k - 1]
             next == [l.next EXCEPT ![p] = l.next[n], ![n] = l.free]
  <2>1. k > 1 /\ k - 1 \in 1..Len(c) /\ k - 1 # k
    BY <1>2, <1>4
  <2>2. p \in Nodes /\ p # n /\ f.prev_index = p
    BY <1>1, <1>2, <2>1, Elements DEF Points, Parts, At
  <2>3. /\ pop_internal(l, f).value = l.val[n]
        /\ m = [next |-> next, val |-> l.val, head |-> l.head, free |-> n]
    BY <1>1, <1>2, <1>4, <2>2 DEF pop_internal
  <2>4. /\ next \in [Nodes -> LinkedIndex] /\ next[n] = l.free /\ next[p] = l.next[n]
        /\ \A x \in Nodes \ {n, p} : next[x] = l.next[x]
    BY <1>1, <1>2, <2>2
  <2> HIDE DEF next, m, n, p
  <2>5. m \in List /\ m.next = next /\ m.val = l.val /\ m.head = l.head /\ m.free = n
    BY <1>1, <1>2, <2>3, <2>4 DEF List
  <2>6. QED BY <1>4, <2>1, <2>3, <2>4, <2>5 DEF m, n, p
<1>5. QED BY <1>3, <1>4

(* pop_internal takes the entry the handle is at. *)
LEMMA PopKeeps ==
    ASSUME NEW l, NEW c, NEW d, Threads(l, c, d), NEW f, NEW k, Points(f, c, k)
    PROVE  LET p == pop_internal(l, f) IN
           /\ Threads(p.list, RemoveAt(c, k), <<c[k]>> \o d)
           /\ Len(<<c[k]>> \o d) > 0
           /\ p.value = Entries(l)[k] /\ p.value \in Entry
           /\ Entries(p.list) = RemoveAt(Entries(l), k)
<1> DEFINE m == pop_internal(l, f).list
           v == pop_internal(l, f).value
           n == c[k]
           r == RemoveAt(c, k)
           b == <<n>> \o d
           E == Entries(l)
<1>1. Parts(c, d) /\ k \in 1..Len(c)
  BY DEF Threads, Points
<1>2. c \in Seq(Nodes) /\ d \in Seq(Nodes) /\ Len(d) \in Nat /\ n \in Nodes
  BY <1>1, Elements DEF Parts
<1>3. r \in Seq(Nodes) /\ PutIn(r, k, n, c)
  BY <1>1, <1>2, TakenOut
<1>4. /\ v = l.val[n] /\ m \in List /\ m.free = n /\ m.val = l.val
      /\ m.head = IF k = 1 THEN l.next[n] ELSE l.head
      /\ m.next[n] = l.free /\ (k > 1 => m.next[c[k - 1]] = l.next[n])
      /\ \A x \in Nodes : x # n /\ ~(k > 1 /\ x = c[k - 1]) => m.next[x] = l.next[x]
  BY PoppedIs
<1>5. Threads(m, r, b)
  <2> HIDE DEF m, r
  <2>1. QED BY <1>1, <1>3, <1>4, Released
<1>6. Len(b) > 0 /\ 1 \in 1..Len(b) /\ b[1] = n
  <2>1. <<n>> \in Seq(Nodes) /\ Len(<<n>>) = 1 /\ <<n>>[1] = n
    BY <1>2
  <2>2. /\ Len(b) = Len(<<n>>) + Len(d)
        /\ \A i \in 1..(Len(<<n>>) + Len(d)) :
              b[i] = IF i <= Len(<<n>>) THEN <<n>>[i] ELSE d[i - Len(<<n>>)]
    BY <1>2, <2>1, ConcatProperties
  <2> HIDE DEF b, n
  <2>3. QED BY <1>2, <2>1, <2>2
<1>7. \A i \in 1..Len(r) : r[i] # n
  <2>1. \A i \in 1..Len(r) : \A j \in 1..Len(b) : r[i] # b[j]
    <3> HIDE DEF m, r, b
    <3>1. QED BY <1>5 DEF Threads, Parts
  <2> HIDE DEF r, b, n
  <2>2. QED BY <1>6, <2>1
<1>8. /\ E \in Seq(Entry) /\ Len(E) = Len(c) /\ E[k] = l.val[n] /\ v = E[k] /\ v \in Entry
  <2>1. E \in Seq(Entry) /\ Len(E) = Len(c) /\ E[k] = l.val[n]
    BY <1>1, EntriesAre
  <2>2. l.val[n] \in Entry
    BY <1>2 DEF Threads, List
  <2>3. QED BY <1>4, <2>1, <2>2
<1>9. Entries(m) = RemoveAt(E, k)
  <2>1. PutIn(Entries(m), k, l.val[n], E)
    <3> HIDE DEF m, r, b, n
    <3>1. QED BY <1>3, <1>4, <1>5, <1>7, EntriesWith
  <2>2. Entries(m) \in Seq(Entry)
    <3> HIDE DEF m, r, b
    <3>1. QED BY <1>5, EntriesAre
  <2> HIDE DEF E, m, n
  <2>3. RemoveAt(E, k) \in Seq(Entry) /\ PutIn(RemoveAt(E, k), k, E[k], E)
    BY <1>1, <1>8, TakenOut
  <2>4. QED BY <1>8, <2>1, <2>2, <2>3, TakenOnce
<1>10. QED BY <1>5, <1>6, <1>8, <1>9

-----------------------------------------------------------------------------
(* The inductive invariant: the nodes are in two chains, and a live handle *)
(* is at a position of the list.                                           *)
Chained == Threads(list, Chain(list), FreeChain(list))

HandleInv ==
    found # NoHandle => \E k \in 1..Len(Chain(list)) : Points(found, Chain(list), k)

ListInv == TypeOK /\ Chained /\ HandleInv

CursorOf(l, f) ==
    IF f = NoHandle THEN 0 ELSE SelectInSeq(Chain(l), LAMBDA n : n = f.index)

(* The cursor of the specification is where the handle is. *)
LEMMA CursorIs ==
    ASSUME NEW l, NEW c, NEW d, Threads(l, c, d), NEW f, NEW k, Points(f, c, k)
    PROVE  f # NoHandle /\ CursorOf(l, f) = k
<1> DEFINE I == {i \in 1..Len(c) : c[i] = c[k]}
<1>1. Parts(c, d) /\ k \in 1..Len(c) /\ f.index = c[k] /\ Chain(l) = c
  BY ChainsAre DEF Threads, Points
<1>2. c[k] # Nil
  BY <1>1, Elements, NilIsNoNode
<1>3. f # NoHandle
  BY <1>1, <1>2 DEF NoHandle
<1>4. I = {k}
  BY <1>1 DEF Parts
<1>5. Min({k}) = k
  <2>1. {k} \in SUBSET Nat /\ {k} # {}
    BY <1>1
  <2>2. QED BY <2>1, Smallest
<1>6. CursorOf(l, f) = IF I # {} THEN Min(I) ELSE 0
  BY <1>1, <1>3 DEF CursorOf, SelectInSeq
<1> HIDE DEF I
<1>7. QED BY <1>3, <1>4, <1>5, <1>6

(* What holds of the chains in the next state. *)
LEMMA NextChained ==
    ASSUME NEW c, NEW d, Threads(list', c, d)
    PROVE  Chained' /\ Chain(list)' = c /\ Entries(list)' = Entries(list')
<1>1. Chain(list') = c /\ FreeChain(list') = d
  BY ChainsAre
<1>2. Chain(list)' = Chain(list')
  OBVIOUS
<1>3. QED BY <1>1 DEF Chained

(* The next state of a call that leaves no handle, and of one that does. *)
LEMMA NoHandleLeft ==
    ASSUME NEW c, NEW d, Threads(list', c, d), found' = NoHandle,
           returned' \in Entry \cup {None, Full}
    PROVE  ListInv' /\ CursorOf(list, found)' = 0
<1>1. Chained' /\ HandleInv'
  BY NextChained DEF HandleInv
<1>2. NoHandle \in Handle
  BY DEF NoHandle, Handle, LinkedIndex
<1>3. list' \in List
  BY DEF Threads
<1>4. TypeOK'
  BY <1>2, <1>3 DEF TypeOK, List
<1>5. QED BY <1>1, <1>4 DEF ListInv, CursorOf

LEMMA HandleLeft ==
    ASSUME NEW c, NEW d, Threads(list', c, d), found' \in Handle,
           NEW k, Points(found', c, k), returned' \in Entry \cup {None, Full}
    PROVE  ListInv' /\ found' # NoHandle /\ CursorOf(list', found') = k
<1>1. found' # NoHandle /\ CursorOf(list', found') = k
  BY CursorIs
<1>2. Chained' /\ Chain(list)' = c
  BY NextChained
<1>3. HandleInv'
  <2>1. k \in 1..Len(c)
    BY DEF Points
  <2>2. \E j \in 1..Len(c) : Points(found', c, j)
    BY <2>1
  <2>3. QED BY <1>2, <2>2 DEF HandleInv
<1>4. list' \in List
  BY DEF Threads
<1>5. TypeOK'
  BY <1>4 DEF TypeOK, List
<1>6. QED BY <1>1, <1>2, <1>3, <1>5 DEF ListInv

(* The list and its specification have the same number of entries. *)
LEMMA Lengths ==
    ASSUME ListInv
    PROVE  /\ Parts(Chain(list), FreeChain(list))
           /\ Entries(list) \in Seq(Entry) /\ Len(Entries(list)) = Len(Chain(list))
           /\ Len(Chain(list)) \in Nat /\ Len(FreeChain(list)) \in Nat
           /\ is_full(list) <=> Len(FreeChain(list)) = 0
           /\ is_full(list) <=> ~(Len(Entries(list)) < Capacity)
           /\ is_empty(list) <=> Len(Entries(list)) = 0
           /\ is_empty(list) <=> Entries(list) = <<>>
<1> DEFINE c == Chain(list)
           d == FreeChain(list)
           E == Entries(list)
<1>1. Threads(list, c, d) /\ Parts(c, d)
  BY DEF ListInv, Chained, Threads
<1>2. /\ is_empty(list) <=> Len(c) = 0
      /\ is_full(list) <=> Len(d) = 0
  BY <1>1, ChainsAre
<1>3. E \in Seq(Entry) /\ Len(E) = Len(c)
  BY <1>1, EntriesAre
<1>4. /\ Len(c) \in Nat /\ Len(d) \in Nat /\ Len(c) + Len(d) = Capacity
      /\ Capacity \in Nat
  BY <1>1, Elements, NilIsNoNode DEF Parts
<1> HIDE DEF c, d, E
<1>5. E = <<>> <=> Len(E) = 0
  BY <1>3, EmptySeq
<1>6. is_full(list) <=> ~(Len(E) < Capacity)
  <2> DEFINE m == Len(c)
             n == Len(d)
  <2>1. m \in Nat /\ n \in Nat /\ m + n = Capacity /\ Capacity \in Nat
    BY <1>4
  <2> HIDE DEF m, n
  <2>2. n = 0 <=> ~(m < Capacity)
    BY <2>1
  <2>3. QED BY <1>2, <1>3, <2>2 DEF m, n
<1>7. QED BY <1>1, <1>2, <1>3, <1>4, <1>5, <1>6 DEF c, d, E

-----------------------------------------------------------------------------
(* Each call keeps the invariant and is the call of the specification. *)
LEMMA InitSorted ==
    ASSUME Init PROVE ListInv /\ Sorted!Init
<1>1. PICK memory \in [Nodes -> Entry] : list = new(memory)
  BY DEF Init
<1> DEFINE C == Capacity
           free == [i \in 1..C |-> i - 1]
<1>2. C \in Nat \ {0} /\ Nodes = 0..(C - 1) /\ Nil \notin Nodes
  BY NilIsNoNode DEF Nodes
<1>3. \A i \in 1..C : free[i] = i - 1 /\ free[i] \in Nodes
  BY <1>2
<1>4. free \in [1..C -> Nodes]
  BY <1>2, <1>3
<1> HIDE DEF C, free
<1>5. free \in Seq(Nodes) /\ Len(free) = C
  BY <1>2, <1>4
<1>6. <<>> \in Seq(Nodes) /\ Len(<<>>) = 0
  OBVIOUS
<1>7. Parts(<<>>, free)
  <2>1. Len(<<>>) + Len(free) = Capacity
    BY <1>2, <1>5, <1>6 DEF C
  <2>2. ASSUME NEW i \in 1..Len(free), NEW j \in 1..Len(free), free[i] = free[j]
        PROVE  i = j
    BY <1>2, <1>3, <1>5, <2>2
  <2>3. ASSUME NEW n \in Nodes PROVE \E j \in 1..Len(free) : free[j] = n
    <3>1. n \in Nat /\ n + 1 \in 1..C /\ n + 1 - 1 = n
      BY <1>2
    <3>2. free[n + 1] = n
      BY <1>3, <3>1
    <3>3. QED BY <1>5, <3>1, <3>2
  <2>4. \A i \in 1..Len(<<>>) : FALSE
    BY <1>6
  <2>5. QED BY <1>5, <1>6, <2>1, <2>2, <2>3, <2>4 DEF Parts
<1>8. /\ list.next = [n \in Nodes |-> IF n = C - 1 THEN Nil ELSE n + 1]
      /\ list.val = memory /\ list.head = Nil /\ list.free = 0
      /\ list = [next |-> list.next, val |-> list.val, head |-> list.head, free |-> list.free]
  BY <1>1 DEF new, C
<1>9. list \in List
  <2>1. \A n \in Nodes : (IF n = C - 1 THEN Nil ELSE n + 1) \in LinkedIndex
    BY <1>2 DEF LinkedIndex
  <2>2. list.next \in [Nodes -> LinkedIndex]
    BY <1>8, <2>1
  <2>3. Nil \in LinkedIndex /\ 0 \in LinkedIndex
    BY <1>2 DEF LinkedIndex
  <2>4. QED BY <1>8, <2>2, <2>3 DEF List
<1>10. Path(list.next, list.head, <<>>)
  BY <1>6, <1>8 DEF Path, At
<1>11. Path(list.next, list.free, free)
  <2>1. list.free = At(free, 1)
    <3>1. 1 \in 1..C /\ 1 \in 1..Len(free)
      BY <1>2, <1>5
    <3>2. At(free, 1) = 1 - 1
      BY <1>3, <3>1 DEF At
    <3>3. QED BY <1>8, <3>2
  <2>2. ASSUME NEW i \in 1..C PROVE list.next[free[i]] = At(free, i + 1)
    <3>1. list.next[free[i]] = IF i - 1 = C - 1 THEN Nil ELSE i - 1 + 1
      BY <1>3, <1>8
    <3>2. CASE i = C
      <4>1. i - 1 = C - 1 /\ i + 1 \notin 1..C
        BY <1>2, <3>2
      <4>2. QED BY <1>5, <3>1, <4>1 DEF At
    <3>3. CASE i # C
      <4>1. i - 1 # C - 1 /\ i + 1 \in 1..C /\ i + 1 - 1 = i - 1 + 1
        BY <1>2, <3>3
      <4>2. QED BY <1>3, <1>5, <3>1, <4>1 DEF At
    <3>4. QED BY <3>2, <3>3
  <2>3. QED BY <1>5, <2>1, <2>2 DEF Path
<1>12. Threads(list, <<>>, free)
  BY <1>7, <1>9, <1>10, <1>11 DEF Threads
<1>13. Chain(list) = <<>> /\ FreeChain(list) = free
  BY <1>12, ChainsAre
<1>14. found = NoHandle /\ returned = None /\ NoHandle \in Handle
  BY DEF Init, NoHandle, Handle, LinkedIndex
<1>15. ListInv
  BY <1>9, <1>12, <1>13, <1>14 DEF ListInv, TypeOK, List, Chained, HandleInv
<1>16. Entries(list) = <<>>
  BY <1>12, <1>6, EntriesAre, EmptySeq
<1>17. Sorted!Init
  BY <1>14, <1>16 DEF Sorted!Init, NoHandle
<1>18. QED BY <1>15, <1>17

LEMMA PushSorted ==
    ASSUME ListInv, NEW e \in Entry, push(e)
    PROVE  ListInv' /\ Sorted!Push(e)
<1> DEFINE c == Chain(list)
           d == FreeChain(list)
<1>1. Threads(list, c, d) /\ Len(d) \in Nat
  BY Lengths DEF ListInv, Chained
<1>2. found = NoHandle /\ found' = NoHandle
  BY DEF push
<1>3. CASE is_full(list)
  <2>1. list' = list /\ returned' = Full
    BY <1>3 DEF push
  <2>2. Threads(list', c, d)
    BY <1>1, <2>1
  <2>3. ListInv'
    <3> HIDE DEF c, d
    <3>1. QED BY <1>2, <2>1, <2>2, NoHandleLeft
  <2>4. ~(Len(Entries(list)) < Capacity)
    BY <1>3, Lengths
  <2>5. Entries(list)' = Entries(list)
    BY <2>1
  <2>6. Sorted!Push(e)
    BY <1>2, <2>1, <2>4, <2>5 DEF Sorted!Push
  <2>7. QED BY <2>3, <2>6
<1>4. CASE ~is_full(list)
  <2>1. list' = push_unchecked(list, e) /\ returned' = None
    BY <1>4 DEF push
  <2>2. Len(d) > 0 /\ Len(Entries(list)) < Capacity
    BY <1>1, <1>4, Lengths
  <2>3. /\ \E r, t : Threads(list', r, t)
        /\ Entries(list') = Sorted!Place(Entries(list), e)
    <3> HIDE DEF c, d
    <3>1. QED BY <1>1, <2>1, <2>2, PushKeeps
  <2>4. ListInv' /\ Entries(list)' = Entries(list')
    BY <1>2, <2>1, <2>3, NoHandleLeft, NextChained
  <2>5. Sorted!Push(e)
    BY <1>2, <2>1, <2>2, <2>3, <2>4 DEF Sorted!Push
  <2>6. QED BY <2>4, <2>5
<1>5. QED BY <1>3, <1>4

LEMMA PopSorted ==
    ASSUME ListInv, pop
    PROVE  ListInv' /\ Sorted!Pop
<1> DEFINE c == Chain(list)
           d == FreeChain(list)
           E == Entries(list)
           f == [is_head |-> TRUE, prev_index |-> Nil, index |-> c[1]]
<1>1. Threads(list, c, d) /\ Len(c) \in Nat /\ Len(E) = Len(c) /\ E \in Seq(Entry)
  BY Lengths DEF ListInv, Chained
<1>2. /\ found = NoHandle /\ found' = NoHandle /\ ~is_empty(list)
      /\ list' = pop_unchecked(list).list /\ returned' = pop_unchecked(list).value
  BY DEF pop
<1>3. 1 \in 1..Len(c) /\ E # <<>>
  BY <1>1, <1>2, Lengths
<1>4. Points(f, c, 1)
  BY <1>3 DEF Points, At
<1>5. pop_internal(list, f) = pop_unchecked(list)
  BY DEF pop_internal
<1> HIDE DEF c, d, E, f
<1>6. /\ Threads(list', RemoveAt(c, 1), <<c[1]>> \o d)
      /\ returned' = E[1] /\ returned' \in Entry
      /\ Entries(list') = RemoveAt(E, 1)
  BY <1>1, <1>2, <1>4, <1>5, PopKeeps DEF E
<1>7. Tail(E) = RemoveAt(E, 1) /\ Head(E) = E[1]
  BY <1>1, <1>3, TakenOut, HeadTailProperties
<1>8. ListInv' /\ Entries(list)' = Entries(list')
  BY <1>2, <1>6, NoHandleLeft, NextChained
<1>9. Sorted!Pop
  BY <1>2, <1>3, <1>6, <1>7, <1>8 DEF Sorted!Pop, E
<1>10. QED BY <1>8, <1>9

(* find_mut finds in the chain what the specification finds in the list. *)
LEMMA FindSorted ==
    ASSUME ListInv, NEW m \in Markers, find_mut(m)
    PROVE  ListInv' /\ Sorted!Find(m)
<1> DEFINE c == Chain(list)
           d == FreeChain(list)
           E == Entries(list)
           I == {i \in 1..Len(c) : list.val[c[i]].marker = m}
           at == IF I # {} THEN Min(I) ELSE 0
<1>1. /\ Threads(list, c, d) /\ Parts(c, d) /\ Len(c) \in Nat
      /\ Len(E) = Len(c) /\ E \in Seq(Entry)
  BY Lengths DEF ListInv, Chained
<1>2. \A i \in 1..Len(c) : E[i] = list.val[c[i]] /\ c[i] \in LinkedIndex
  BY <1>1, EntriesAre, Elements
<1>3. /\ found = NoHandle /\ list' = list /\ returned' = None
      /\ found' = IF at = 0 THEN NoHandle
                  ELSE [is_head |-> at = 1,
                        prev_index |-> IF at = 1 THEN Nil ELSE c[at - 1],
                        index |-> c[at], maybe_changed |-> FALSE]
  BY DEF find_mut, SelectInSeq
<1>4. Sorted!Position(E, m) = at
  <2>1. {i \in 1..Len(E) : E[i].marker = m} = I
    BY <1>1, <1>2
  <2> HIDE DEF I, E
  <2>2. Sorted!Position(E, m) =
           IF {i \in 1..Len(E) : E[i].marker = m} # {}
           THEN Min({i \in 1..Len(E) : E[i].marker = m}) ELSE 0
    BY DEF Sorted!Position, Sorted!SelectInSeq, Sorted!Min, Min
  <2>3. QED BY <2>1, <2>2
<1>5. at = 0 \/ at \in 1..Len(c)
  <2>1. I \in SUBSET Nat /\ I \in SUBSET (1..Len(c))
    OBVIOUS
  <2> HIDE DEF I, c
  <2>2. QED BY <2>1, Smallest
<1>6. Threads(list', c, d) /\ Entries(list)' = E
  BY <1>1, <1>3
<1> HIDE DEF c, d, E, at
<1>7. ListInv' /\ CursorOf(list', found') = at /\ (found' = NoHandle <=> at = 0)
      /\ found'.maybe_changed = FALSE
  <2>1. CASE at = 0
    <3>1. found' = NoHandle /\ found'.maybe_changed = FALSE
      BY <1>3, <2>1 DEF NoHandle
    <3>2. QED BY <1>3, <1>6, <2>1, <3>1, NoHandleLeft DEF CursorOf
  <2>2. CASE at \in 1..Len(c)
    <3>1. at # 0 /\ (at # 1 => at - 1 \in 1..Len(c)) /\ (at = 1 => at - 1 \notin 1..Len(c))
      BY <1>1, <2>2
    <3>2. found' = [is_head |-> at = 1,
                    prev_index |-> IF at = 1 THEN Nil ELSE c[at - 1],
                    index |-> c[at], maybe_changed |-> FALSE]
      BY <1>3, <3>1
    <3>3. found'.prev_index = At(c, at - 1)
      BY <3>1, <3>2 DEF At
    <3>4. Points(found', c, at)
      BY <2>2, <3>2, <3>3 DEF Points
    <3>5. Nil \in LinkedIndex /\ c[at] \in LinkedIndex
          /\ (at # 1 => c[at - 1] \in LinkedIndex)
      BY <1>2, <2>2, <3>1 DEF LinkedIndex
    <3>6. (IF at = 1 THEN Nil ELSE c[at - 1]) \in LinkedIndex
      BY <3>5
    <3>7. found' \in Handle
      BY <3>2, <3>5, <3>6 DEF Handle
    <3>8. ListInv' /\ found' # NoHandle /\ CursorOf(list', found') = at
      BY <1>3, <1>6, <3>4, <3>7, HandleLeft
    <3>9. found'.maybe_changed = FALSE
      BY <3>2
    <3>10. QED BY <3>1, <3>8, <3>9
  <2>3. QED BY <1>5, <2>1, <2>2
<1>8. CursorOf(list, found)' = at
  BY <1>7
<1>9. Sorted!Find(m)
  BY <1>3, <1>4, <1>6, <1>7, <1>8 DEF Sorted!Find, CursorOf, NoHandle, E
<1>10. QED BY <1>7, <1>9

LEMMA HandleAt ==
    ASSUME ListInv, found # NoHandle
    PROVE  \E k \in 1..Len(Chain(list)) :
              /\ Points(found, Chain(list), k) /\ CursorOf(list, found) = k /\ k # 0
              /\ Threads(list, Chain(list), FreeChain(list))
              /\ found \in Handle
<1>1. Threads(list, Chain(list), FreeChain(list)) /\ found \in Handle
  BY DEF ListInv, Chained, TypeOK
<1>2. PICK k \in 1..Len(Chain(list)) : Points(found, Chain(list), k)
  BY DEF ListInv, HandleInv
<1>3. CursorOf(list, found) = k
  BY <1>1, <1>2, CursorIs
<1>4. QED BY <1>1, <1>2, <1>3

LEMMA DerefSorted ==
    ASSUME ListInv, NEW e \in Entry, deref_mut(e)
    PROVE  ListInv' /\ Sorted!Modify(e)
<1> DEFINE c == Chain(list)
           d == FreeChain(list)
           E == Entries(list)
<1>1. PICK k \in 1..Len(c) :
         /\ Points(found, c, k) /\ CursorOf(list, found) = k /\ k # 0
         /\ Threads(list, c, d) /\ found \in Handle
  BY HandleAt DEF deref_mut
<1>2. /\ list' = [list EXCEPT !.val[c[k]] = e]
      /\ found' = [found EXCEPT !.maybe_changed = TRUE]
      /\ returned' = None
  BY <1>1 DEF deref_mut, Points
<1> HIDE DEF c, d, E
<1>3. /\ list \in List /\ Parts(c, d) /\ c[k] \in Nodes
      /\ Path(list.next, list.head, c) /\ Path(list.next, list.free, d)
      /\ \A i, j \in 1..Len(c) : c[i] = c[j] => i = j
      /\ \A i \in 1..Len(c) : c[i] \in Nodes
  <2>1. /\ list \in List /\ Parts(c, d)
        /\ Path(list.next, list.head, c) /\ Path(list.next, list.free, d)
    BY <1>1 DEF Threads
  <2>2. QED BY <2>1, Elements DEF Parts
<1>4. /\ list' \in List /\ list'.next = list.next
      /\ list'.head = list.head /\ list'.free = list.free
      /\ \A x \in Nodes : list'.val[x] = IF x = c[k] THEN e ELSE list.val[x]
  BY <1>2, <1>3 DEF List
<1>5. Threads(list', c, d)
  BY <1>3, <1>4 DEF Threads
<1>6. found' \in Handle /\ Points(found', c, k) /\ found'.maybe_changed = TRUE
  BY <1>1, <1>2 DEF Handle, Points
<1>7. ListInv' /\ found' # NoHandle /\ CursorOf(list', found') = k
      /\ Entries(list)' = Entries(list')
  BY <1>2, <1>5, <1>6, HandleLeft, NextChained
<1>8. Entries(list') = [E EXCEPT ![k] = e]
  <2> DEFINE F == Entries(list')
             G == [E EXCEPT ![k] = e]
  <2>1. /\ E \in Seq(Entry) /\ Len(E) = Len(c) /\ \A i \in 1..Len(c) : E[i] = list.val[c[i]]
    BY <1>1, EntriesAre DEF E
  <2>2. /\ F \in Seq(Entry) /\ Len(F) = Len(c) /\ \A i \in 1..Len(c) : F[i] = list'.val[c[i]]
    BY <1>5, EntriesAre
  <2>3. /\ G \in Seq(Entry) /\ Len(G) = Len(E)
        /\ \A i \in 1..Len(c) : G[i] = IF i = k THEN e ELSE E[i]
    BY <1>1, <2>1
  <2> HIDE DEF F, G
  <2>4. \A i \in 1..Len(c) : F[i] = IF i = k THEN e ELSE list.val[c[i]]
    BY <1>3, <1>4, <2>2
  <2>5. \A i \in 1..Len(F) : F[i] = G[i]
    BY <2>1, <2>2, <2>3, <2>4
  <2>6. F = G
    BY <2>1, <2>2, <2>3, <2>5, SeqEqual
  <2>7. QED BY <2>6 DEF F, G
<1>9. CursorOf(list, found)' = k
  BY <1>7
<1>10. Sorted!Modify(e)
  BY <1>1, <1>2, <1>6, <1>7, <1>8, <1>9 DEF Sorted!Modify, CursorOf, E
<1>11. QED BY <1>7, <1>10

LEMMA FoundPopSorted ==
    ASSUME ListInv, ~PopsChanged, FindMut_pop
    PROVE  ListInv' /\ Sorted!PopFound
<1> DEFINE c == Chain(list)
           d == FreeChain(list)
           E == Entries(list)
<1>1. PICK k \in 1..Len(c) :
         /\ Points(found, c, k) /\ CursorOf(list, found) = k /\ k # 0
         /\ Threads(list, c, d) /\ found \in Handle
  BY HandleAt DEF FindMut_pop
<1>2. ~found.maybe_changed
  BY DEF FindMut_pop
<1>3. /\ list' = pop_internal(list, found).list
      /\ returned' = pop_internal(list, found).value
      /\ found' = NoHandle
  BY <1>2 DEF FindMut_pop, drop
<1> HIDE DEF c, d, E
<1>4. /\ Threads(list', RemoveAt(c, k), <<c[k]>> \o d)
      /\ returned' = E[k] /\ returned' \in Entry
      /\ Entries(list') = RemoveAt(E, k)
  BY <1>1, <1>3, PopKeeps DEF E
<1>5. ListInv' /\ CursorOf(list, found)' = 0 /\ Entries(list)' = Entries(list')
  BY <1>3, <1>4, NoHandleLeft, NextChained
<1>6. Sorted!RemoveAt(E, k) = RemoveAt(E, k)
  BY DEF Sorted!RemoveAt, RemoveAt
<1>7. Sorted!PopFound
  BY <1>1, <1>3, <1>4, <1>5, <1>6 DEF Sorted!PopFound, CursorOf, NoHandle, E
<1>8. QED BY <1>5, <1>7

(* A changed entry is popped and pushed: it goes to its new place. *)
LEMMA FinishSorted ==
    ASSUME ListInv, finish
    PROVE  ListInv' /\ Sorted!Finish
<1> DEFINE c == Chain(list)
           d == FreeChain(list)
           E == Entries(list)
<1>1. PICK k \in 1..Len(c) :
         /\ Points(found, c, k) /\ CursorOf(list, found) = k /\ k # 0
         /\ Threads(list, c, d) /\ found \in Handle
  BY HandleAt DEF finish
<1>2. list' = drop(list, found) /\ found' = NoHandle /\ returned' = None
  BY DEF finish
<1>3. found.maybe_changed \in BOOLEAN
  BY <1>1 DEF Handle
<1>4. Sorted!RemoveAt(E, k) = RemoveAt(E, k)
  BY DEF Sorted!RemoveAt, RemoveAt
<1> HIDE DEF c, d, E
<1>5. CASE found.maybe_changed
  <2> DEFINE m == pop_internal(list, found).list
             v == pop_internal(list, found).value
             r == RemoveAt(c, k)
             b == <<c[k]>> \o d
  <2>1. /\ Threads(m, r, b) /\ Len(b) > 0 /\ v = E[k] /\ v \in Entry
        /\ Entries(m) = RemoveAt(E, k)
    BY <1>1, PopKeeps DEF E
  <2>2. list' = push_unchecked(m, v)
    BY <1>2, <1>5 DEF drop
  <2> HIDE DEF m, v, r, b
  <2>3. /\ \E x, y : Threads(list', x, y)
        /\ Entries(list') = Sorted!Place(Entries(m), v)
    BY <2>1, <2>2, PushKeeps
  <2>4. ListInv' /\ CursorOf(list, found)' = 0 /\ Entries(list)' = Entries(list')
    BY <1>2, <2>3, NoHandleLeft, NextChained
  <2>5. Entries(list') = Sorted!Place(Sorted!RemoveAt(E, k), E[k])
    BY <1>4, <2>1, <2>3
  <2>6. Sorted!Finish
    BY <1>1, <1>2, <1>5, <2>4, <2>5 DEF Sorted!Finish, CursorOf, NoHandle, E
  <2>7. QED BY <2>4, <2>6
<1>6. CASE ~found.maybe_changed
  <2>1. list' = list
    BY <1>2, <1>6 DEF drop
  <2>2. ListInv' /\ CursorOf(list, found)' = 0 /\ Entries(list)' = Entries(list)
    <3>1. Threads(list', c, d)
      BY <1>1, <2>1
    <3>2. QED BY <1>2, <2>1, <3>1, NoHandleLeft
  <2>3. Sorted!Finish
    BY <1>1, <1>2, <1>6, <2>2 DEF Sorted!Finish, CursorOf, NoHandle, E
  <2>4. QED BY <2>2, <2>3
<1>7. QED BY <1>3, <1>5, <1>6

-----------------------------------------------------------------------------
(* Every step of the array of nodes is a step of the sorted list, or none. *)
LEMMA NextSorted ==
    ASSUME ListInv, ~PopsChanged, [Next]_vars
    PROVE  ListInv' /\ [Sorted!Next]_(Sorted!vars)
<1>1. ASSUME NEW e \in Entry, push(e) PROVE ListInv' /\ Sorted!Next
  <2>1. ListInv' /\ Sorted!Push(e)
    BY <1>1, PushSorted
  <2>2. QED BY <2>1 DEF Sorted!Next, Sorted!Entry, Entry
<1>2. ASSUME NEW e \in Entry, deref_mut(e) PROVE ListInv' /\ Sorted!Next
  <2>1. ListInv' /\ Sorted!Modify(e)
    BY <1>2, DerefSorted
  <2>2. QED BY <2>1 DEF Sorted!Next, Sorted!Entry, Entry
<1>3. ASSUME NEW m \in Markers, find_mut(m) PROVE ListInv' /\ Sorted!Next
  <2>1. ListInv' /\ Sorted!Find(m)
    BY <1>3, FindSorted
  <2>2. QED BY <2>1 DEF Sorted!Next
<1>4. ASSUME pop PROVE ListInv' /\ Sorted!Next
  <2>1. ListInv' /\ Sorted!Pop
    BY <1>4, PopSorted
  <2>2. QED BY <2>1 DEF Sorted!Next
<1>5. ASSUME FindMut_pop PROVE ListInv' /\ Sorted!Next
  <2>1. ListInv' /\ Sorted!PopFound
    BY <1>5, FoundPopSorted
  <2>2. QED BY <2>1 DEF Sorted!Next
<1>6. ASSUME finish PROVE ListInv' /\ Sorted!Next
  <2>1. ListInv' /\ Sorted!Finish
    BY <1>6, FinishSorted
  <2>2. QED BY <2>1 DEF Sorted!Next
<1>7. ASSUME UNCHANGED vars PROVE ListInv' /\ UNCHANGED Sorted!vars
  <2>1. list' = list /\ found' = found /\ returned' = returned
    BY <1>7 DEF vars
  <2>2. TypeOK' /\ Chained' /\ HandleInv'
    BY <2>1 DEF ListInv, TypeOK, Chained, HandleInv
  <2>3. Entries(list)' = Entries(list) /\ CursorOf(list, found)' = CursorOf(list, found)
    BY <2>1
  <2>4. UNCHANGED Sorted!vars
    BY <2>1, <2>3 DEF Sorted!vars, CursorOf
  <2>5. QED BY <2>2, <2>4 DEF ListInv
<1>8. QED BY <1>1, <1>2, <1>3, <1>4, <1>5, <1>6, <1>7 DEF Next

(* Two chains that part the nodes hold each of them once between them. *)
LEMMA InvPartitions ==
    ASSUME ListInv PROVE NodesPartitioned
<1> DEFINE c == Chain(list)
           d == FreeChain(list)
           m == Len(c)
           n == Len(d)
           all == c \o d
<1>1. /\ c \in Seq(Nodes) /\ d \in Seq(Nodes) /\ m \in Nat /\ n \in Nat
      /\ \A i, j \in 1..m : c[i] = c[j] => i = j
      /\ \A i, j \in 1..n : d[i] = d[j] => i = j
      /\ \A i \in 1..m : \A j \in 1..n : c[i] # d[j]
      /\ \A x \in Nodes : (\E i \in 1..m : c[i] = x) \/ (\E j \in 1..n : d[j] = x)
      /\ \A i \in 1..m : c[i] \in Nodes
      /\ \A i \in 1..n : d[i] \in Nodes
  BY Elements DEF ListInv, Chained, Threads, Parts
<1> HIDE DEF c, d
<1>2. /\ all \in Seq(Nodes) /\ Len(all) = m + n
      /\ \A i \in 1..(m + n) : all[i] = IF i <= m THEN c[i] ELSE d[i - m]
  BY <1>1, ConcatProperties
<1>3. DOMAIN all = 1..(m + n)
  BY <1>2
<1> HIDE DEF m, n, all
<1>4. ASSUME NEW i \in 1..(m + n)
      PROVE  /\ i <= m => i \in 1..m /\ all[i] = c[i]
             /\ ~(i <= m) => i - m \in 1..n /\ all[i] = d[i - m]
  BY <1>1, <1>2
<1>5. ASSUME NEW i \in 1..(m + n), NEW j \in 1..(m + n), all[i] = all[j]
      PROVE  i = j
  <2>1. CASE i <= m /\ j <= m
    BY <1>1, <1>4, <1>5, <2>1
  <2>2. CASE ~(i <= m) /\ ~(j <= m)
    <3>1. i - m = j - m
      BY <1>1, <1>4, <1>5, <2>2
    <3>2. QED BY <1>1, <3>1
  <2>3. CASE (i <= m) # (j <= m)
    BY <1>1, <1>4, <1>5, <2>3
  <2>4. QED BY <2>1, <2>2, <2>3
<1>6. ASSUME NEW x \in Nodes PROVE \E i \in 1..(m + n) : all[i] = x
  <2>1. CASE \E i \in 1..m : c[i] = x
    <3>1. PICK i \in 1..m : c[i] = x
      BY <2>1
    <3>2. i \in 1..(m + n) /\ i <= m
      BY <1>1
    <3>3. QED BY <1>2, <3>1, <3>2
  <2>2. CASE \E j \in 1..n : d[j] = x
    <3>1. PICK j \in 1..n : d[j] = x
      BY <2>2
    <3>2. PICK i : i = j + m
      OBVIOUS
    <3>3. i \in 1..(m + n) /\ ~(i <= m) /\ i - m = j
      BY <1>1, <3>2
    <3>4. all[i] = d[j]
      BY <1>4, <3>3
    <3>5. QED BY <3>1, <3>3, <3>4
  <2>3. QED BY <1>1, <2>1, <2>2
<1>7. IsInjective(all)
  BY <1>3, <1>5 DEF IsInjective
<1>8. \A i \in 1..(m + n) : all[i] \in Nodes
  BY <1>1, <1>4
<1>9. Range(all) = Nodes
  BY <1>3, <1>6, <1>8 DEF Range
<1>10. QED BY <1>7, <1>9 DEF NodesPartitioned, all, c, d

(* The array, the heads and the handle keep their types. *)
THEOREM TypeCorrect ==
    ASSUME ~PopsChanged PROVE Spec => []TypeOK
<1>1. Init => ListInv
  BY InitSorted
<1>2. ListInv /\ [Next]_vars => ListInv'
  BY NextSorted
<1>3. ListInv => TypeOK
  BY DEF ListInv
<1>4. QED BY <1>1, <1>2, <1>3, PTL DEF Spec

(* No node is lost or handed out twice, however the operations alternate:  *)
(* each is in one chain, once.                                             *)
THEOREM NodesPartitionedHolds ==
    ASSUME ~PopsChanged PROVE Spec => []NodesPartitioned
<1>1. Init => ListInv
  BY InitSorted
<1>2. ListInv /\ [Next]_vars => ListInv'
  BY NextSorted
<1>3. ListInv => NodesPartitioned
  BY InvPartitions
<1>4. QED BY <1>1, <1>2, <1>3, PTL DEF Spec

(* The array of nodes implements the sorted list.                          *)
THEOREM SortedListImplemented ==
    ASSUME ~PopsChanged PROVE Spec => ImplementsSortedList
<1>1. Init => ListInv /\ Sorted!Init
  BY InitSorted
<1>2. ListInv /\ [Next]_vars => ListInv' /\ [Sorted!Next]_(Sorted!vars)
  BY NextSorted
<1>3. QED BY <1>1, <1>2, PTL DEF Spec, ImplementsSortedList, Sorted!Spec

-----------------------------------------------------------------------------
(* Putting an entry in its place and taking one out keep the order. *)
LEMMA PlaceOrdered ==
    ASSUME NEW s \in Seq(Entry), NEW e \in Entry, Sorted!InOrder(s)
    PROVE  Sorted!InOrder(Sorted!Place(s, e))
<1> DEFINE r == Sorted!Place(s, e)
           I == Before(s, e)
           n == Len(s)
<1>1. n \in Nat /\ I \in SUBSET (1..n)
  BY LenProperties DEF Before
<1>2. PICK k \in 1..(n + 1) :
         /\ \A i \in 1..(k - 1) : i \notin I
         /\ k <= n <=> I # {}
         /\ k <= n => k \in I
         /\ (IF I # {} THEN Min(I) ELSE 0) = IF k <= n THEN k ELSE 0
  <2> HIDE DEF I, n
  <2>1. QED BY <1>1, Spot
<1>3. r \in Seq(Entry) /\ PutIn(s, k, e, r)
  BY <1>2, PlaceIs
<1>4. e.instant \in Int /\ \A i \in 1..n : s[i].instant \in Int
  <2>1. \A i \in 1..n : s[i] \in Entry
    BY ElementOfSeq
  <2>2. \A x \in Entry : x.instant \in Instants
    BY DEF Entry
  <2>3. \A y \in Instants : y \in Int
    BY LinkedListAssumption
  <2>4. QED BY <2>1, <2>2, <2>3
<1>5. \A i, j \in 1..n : i < j => s[i].instant <= s[j].instant
  BY DEF Sorted!InOrder
<1>6. /\ \A i \in 1..n : i < k => s[i].instant < e.instant
      /\ \A i \in 1..n : i >= k => e.instant <= s[i].instant
  <2>1. ASSUME NEW i \in 1..n, i < k PROVE s[i].instant < e.instant
    <3>1. i \in 1..(k - 1)
      BY <1>1, <2>1
    <3>2. QED BY <1>2, <3>1 DEF Before
  <2>2. ASSUME NEW i \in 1..n, i >= k PROVE e.instant <= s[i].instant
    <3>1. k \in 1..n
      BY <1>1, <2>2
    <3>2. e.instant <= s[k].instant
      BY <1>2, <1>4, <3>1 DEF Before
    <3>3. s[k].instant <= s[i].instant
      BY <1>4, <1>5, <2>2, <3>1
    <3>4. QED BY <1>4, <3>1, <3>2, <3>3
  <2>3. QED BY <2>1, <2>2
<1> HIDE DEF r, I
<1>7. /\ Len(r) = n + 1 /\ r[k] = e
      /\ \A i \in 1..Len(r) :
            /\ i < k => i \in 1..n /\ r[i] = s[i]
            /\ i > k => i - 1 \in 1..n /\ r[i] = s[i - 1]
  BY <1>3, PutInFacts
<1>8. ASSUME NEW i \in 1..Len(r), NEW j \in 1..Len(r), i < j
      PROVE  r[i].instant <= r[j].instant
  <2>1. CASE j < k
    <3>1. i < k
      BY <1>1, <1>7, <1>8, <2>1
    <3>2. QED BY <1>5, <1>7, <1>8, <2>1, <3>1
  <2>2. CASE j = k
    <3>1. i \in 1..n /\ r[i] = s[i] /\ s[i].instant < e.instant
      BY <1>6, <1>7, <1>8, <2>2
    <3>2. QED BY <1>4, <1>7, <2>2, <3>1
  <2>3. CASE j > k
    <3>1. j - 1 \in 1..n /\ r[j] = s[j - 1] /\ j - 1 >= k
      BY <1>1, <1>7, <2>3
    <3>2. CASE i < k
      <4>1. i \in 1..n /\ r[i] = s[i] /\ i < j - 1
        BY <1>7, <2>3, <3>1, <3>2
      <4>2. QED BY <1>5, <3>1, <4>1
    <3>3. CASE i = k
      BY <1>6, <1>7, <3>1, <3>3
    <3>4. CASE i > k
      <4>1. i - 1 \in 1..n /\ r[i] = s[i - 1] /\ i - 1 < j - 1
        BY <1>1, <1>7, <1>8, <3>4
      <4>2. QED BY <1>5, <3>1, <4>1
    <3>5. QED BY <1>1, <1>7, <3>2, <3>3, <3>4
  <2>4. QED BY <1>1, <1>7, <2>1, <2>2, <2>3
<1>9. QED BY <1>8 DEF Sorted!InOrder, r

LEMMA RemoveOrdered ==
    ASSUME NEW s \in Seq(Entry), NEW k \in 1..Len(s), Sorted!InOrder(s)
    PROVE  Sorted!InOrder(RemoveAt(s, k))
<1> DEFINE r == RemoveAt(s, k)
           n == Len(s)
<1>1. n \in Nat /\ k \in 1..n /\ Len(r) = n - 1
      /\ \A i \in 1..(n - 1) : r[i] = IF i < k THEN s[i] ELSE s[i + 1]
  BY LenProperties, Removed
<1>2. \A i, j \in 1..n : i < j => s[i].instant <= s[j].instant
  BY DEF Sorted!InOrder
<1> HIDE DEF r, n
<1>3. ASSUME NEW i \in 1..(n - 1)
      PROVE  /\ i < k => i \in 1..n /\ r[i] = s[i]
             /\ i >= k => i + 1 \in 1..n /\ r[i] = s[i + 1]
  BY <1>1
<1>4. ASSUME NEW i \in 1..(n - 1), NEW j \in 1..(n - 1), i < j
      PROVE  r[i].instant <= r[j].instant
  <2>1. CASE i < k /\ j < k
    BY <1>2, <1>3, <1>4, <2>1
  <2>2. CASE i < k /\ j >= k
    <3>1. i < j + 1
      BY <1>1, <1>4
    <3>2. QED BY <1>2, <1>3, <2>2, <3>1
  <2>3. CASE i >= k /\ j >= k
    <3>1. i + 1 < j + 1
      BY <1>1, <1>4
    <3>2. QED BY <1>2, <1>3, <2>3, <3>1
  <2>4. QED BY <1>1, <1>4, <2>1, <2>2, <2>3
<1>5. QED BY <1>1, <1>4 DEF Sorted!InOrder, r

(* The list is in order, but for the entry that was changed. *)
InOrderBut(E, k) == k \in 1..Len(E) /\ Sorted!InOrder(RemoveAt(E, k))

OrderInv ==
    IF found.maybe_changed THEN InOrderBut(Entries(list), CursorOf(list, found))
    ELSE Sorted!InOrder(Entries(list))

LEMMA NextOrdered ==
    ASSUME ListInv, ListInv', OrderInv, [Sorted!Next]_(Sorted!vars)
    PROVE  OrderInv'
<1> DEFINE E == Entries(list)
           F == Entries(list)'
           k == CursorOf(list, found)
           changed == found.maybe_changed
<1>1. E \in Seq(Entry) /\ (k # 0 => k \in 1..Len(E))
  <2>1. E \in Seq(Entry) /\ Len(E) = Len(Chain(list))
    BY Lengths
  <2>2. found = NoHandle => k = 0
    BY DEF CursorOf
  <2>3. found # NoHandle => k \in 1..Len(Chain(list))
    BY HandleAt
  <2>4. QED BY <2>1, <2>2, <2>3
<1>2. changed \in BOOLEAN /\ changed' \in BOOLEAN
  BY DEF ListInv, TypeOK, Handle
<1>3. /\ changed => InOrderBut(E, k)
      /\ ~changed => Sorted!InOrder(E)
      /\ k = 0 => ~changed
  BY <1>1 DEF OrderInv, InOrderBut
<1>4. k # 0 => Sorted!InOrder(RemoveAt(E, k)) /\ RemoveAt(E, k) \in Seq(Entry) /\ E[k] \in Entry
  BY <1>1, <1>3, RemoveOrdered, Removed, ElementOfSeq DEF InOrderBut
<1>5. SUFFICES /\ changed' => InOrderBut(F, k')
               /\ ~changed' => Sorted!InOrder(F)
  BY <1>2 DEF OrderInv
<1>6. Sorted!RemoveAt(E, k) = RemoveAt(E, k)
  BY DEF Sorted!RemoveAt, RemoveAt
<1>7. ASSUME NEW e \in Entry, Sorted!Push(e)
      PROVE  ~changed' /\ Sorted!InOrder(F)
  <2>1. k = 0 /\ (F = Sorted!Place(E, e) \/ F = E) /\ changed' = changed
    BY <1>7 DEF Sorted!Push, CursorOf
  <2>2. QED BY <1>1, <1>3, <2>1, PlaceOrdered
<1>8. ASSUME Sorted!Pop
      PROVE  ~changed' /\ Sorted!InOrder(F)
  <2>1. k = 0 /\ E # <<>> /\ F = Tail(E) /\ changed' = changed
    BY <1>8 DEF Sorted!Pop, CursorOf
  <2>2. 1 \in 1..Len(E)
    BY <1>1, <2>1, EmptySeq, LenProperties
  <2>3. QED BY <1>1, <1>3, <2>1, <2>2, TakenOut, RemoveOrdered
<1>9. ASSUME NEW m \in Markers, Sorted!Find(m)
      PROVE  ~changed' /\ Sorted!InOrder(F)
  <2>1. k = 0 /\ F = E /\ changed' = changed
    BY <1>9 DEF Sorted!Find, CursorOf
  <2>2. QED BY <1>3, <2>1
<1>10. ASSUME NEW e \in Entry, Sorted!Modify(e)
       PROVE  changed' /\ InOrderBut(F, k')
  <2>1. k # 0 /\ F = [E EXCEPT ![k] = e] /\ changed' /\ k' = k
    BY <1>10 DEF Sorted!Modify, CursorOf
  <2>2. k \in 1..Len(E)
    BY <1>1, <2>1
  <2> HIDE DEF E, F, k, changed
  <2>3. /\ F \in Seq(Entry) /\ Len(F) = Len(E)
        /\ \A i \in 1..Len(E) : i # k => F[i] = E[i]
    BY <1>1, <2>1, <2>2
  <2>4. RemoveAt(F, k) = RemoveAt(E, k)
    <3>1. /\ RemoveAt(E, k) \in Seq(Entry) /\ RemoveAt(F, k) \in Seq(Entry)
          /\ Len(RemoveAt(E, k)) = Len(E) - 1 /\ Len(RemoveAt(F, k)) = Len(E) - 1
          /\ \A i \in 1..(Len(E) - 1) :
                /\ RemoveAt(E, k)[i] = IF i < k THEN E[i] ELSE E[i + 1]
                /\ RemoveAt(F, k)[i] = IF i < k THEN F[i] ELSE F[i + 1]
      BY <1>1, <2>2, <2>3, Removed
    <3>2. ASSUME NEW i \in 1..(Len(E) - 1) PROVE RemoveAt(F, k)[i] = RemoveAt(E, k)[i]
      <4>1. CASE i < k
        <5>1. i \in 1..Len(E) /\ i # k
          BY <2>2, <4>1
        <5>2. QED BY <2>3, <3>1, <4>1, <5>1
      <4>2. CASE ~(i < k)
        <5>1. i + 1 \in 1..Len(E) /\ i + 1 # k
          BY <2>2, <4>2
        <5>2. QED BY <2>3, <3>1, <4>2, <5>1
      <4>3. QED BY <4>1, <4>2
    <3>3. QED BY <3>1, <3>2, SeqEqual
  <2>5. QED BY <1>4, <2>1, <2>2, <2>3, <2>4 DEF InOrderBut
<1>11. ASSUME Sorted!PopFound
       PROVE  ~changed' /\ Sorted!InOrder(F)
  <2>1. k # 0 /\ F = Sorted!RemoveAt(E, k) /\ ~changed'
    BY <1>11 DEF Sorted!PopFound, CursorOf
  <2>2. QED BY <1>4, <1>6, <2>1
<1>12. ASSUME Sorted!Finish
       PROVE  ~changed' /\ Sorted!InOrder(F)
  <2>1. k # 0 /\ ~changed'
        /\ F = IF changed THEN Sorted!Place(Sorted!RemoveAt(E, k), E[k]) ELSE E
    BY <1>12 DEF Sorted!Finish, CursorOf
  <2>2. CASE changed
    BY <1>4, <1>6, <2>1, <2>2, PlaceOrdered
  <2>3. CASE ~changed
    BY <1>3, <2>1, <2>3
  <2>4. QED BY <1>2, <2>2, <2>3
<1>13. ASSUME UNCHANGED Sorted!vars
       PROVE  F = E /\ k' = k /\ changed' = changed
  BY <1>13 DEF Sorted!vars, CursorOf
<1>14. QED
  BY <1>3, <1>7, <1>8, <1>9, <1>10, <1>11, <1>12, <1>13
  DEF Sorted!Next, Sorted!Entry, Entry

(* The first entry of the list is the earliest, unless an entry is being   *)
(* changed: what the timer queue arms its compare value for.               *)
THEOREM ChainInOrderHolds ==
    ASSUME ~PopsChanged PROVE Spec => []ChainInOrder
<1>1. Init => ListInv /\ OrderInv
  <2> SUFFICES ASSUME Init PROVE ListInv /\ OrderInv
    OBVIOUS
  <2>1. ListInv /\ Entries(list) = <<>> /\ ~found.maybe_changed
    BY InitSorted DEF Sorted!Init
  <2>2. Sorted!InOrder(<<>>)
    BY DEF Sorted!InOrder
  <2>3. QED BY <2>1, <2>2 DEF OrderInv
<1>2. ListInv /\ OrderInv /\ [Next]_vars => ListInv' /\ OrderInv'
  BY NextSorted, NextOrdered
<1>3. ListInv /\ OrderInv => ChainInOrder
  BY DEF OrderInv, ListInv, TypeOK, Handle, ChainInOrder, Sorted!Sorted
<1>4. QED BY <1>1, <1>2, <1>3, PTL DEF Spec
=============================================================================
