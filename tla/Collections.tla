----------------------------- MODULE Collections -----------------------------
(***************************************************************************)
(* Facts about numbers, finite sets and sequences that several proofs use. *)
(* Sums over finite sets: the folds of the community modules are functions *)
(* defined by recursion on sets; what one of them computes follows from a  *)
(* function that is known to satisfy the same equation, because only one   *)
(* function does.                                                          *)
(***************************************************************************)
EXTENDS Integers, SequencesExt, FiniteSetTheorems, SequenceTheorems,
        WellFoundedInduction, TLAPS

(* Every set of naturals that is not empty has a smallest element. *)
LEMMA Least ==
    ASSUME NEW S \in SUBSET Nat, S # {}
    PROVE  \E x \in S : \A y \in S : x <= y
<1> DEFINE Less == {p \in Nat \X Nat : p[1] < p[2]}
<1>1. IsWellFoundedOn(Less, Nat)
  BY NatLessThanWellFounded DEF OpToRel
<1>2. PICK x \in S : \A y \in S : ~(<<y, x>> \in Less)
  <2> HIDE DEF Less
  <2>1. \E x \in S : \A y \in S : ~(<<y, x>> \in Less)
    BY <1>1, WFMin, Zenon
  <2>2. QED BY <2>1
<1>3. ASSUME NEW y \in S PROVE x <= y
  <2>1. x \in Nat /\ y \in Nat
    OBVIOUS
  <2>2. ~(y < x)
    BY <1>2, <2>1
  <2>3. QED BY <2>1, <2>2
<1>4. QED BY <1>3

(* It is the one Min chooses. *)
LEMMA Smallest ==
    ASSUME NEW S \in SUBSET Nat, S # {}
    PROVE  Min(S) \in S /\ \A x \in S : Min(S) <= x
BY Least DEF Min

(* A set of naturals with a bound has a largest element: the one Max chooses. *)
LEMMA HighestIs ==
    ASSUME NEW n \in Nat, NEW S \in SUBSET (0..n), NEW y \in S
    PROVE  y <= Max(S) /\ Max(S) \in 0..n
<1> DEFINE Bounds == {b \in Nat : \A x \in S : x <= b}
<1>1. n \in Bounds
  OBVIOUS
<1>2. PICK b \in Bounds : \A x \in Bounds : b <= x
  <2>1. Bounds \in SUBSET Nat /\ Bounds # {}
    BY <1>1
  <2> HIDE DEF Bounds
  <2>2. QED BY <2>1, Least
<1>3. b \in S
  <2>1. SUFFICES ASSUME b \notin S PROVE FALSE
    OBVIOUS
  <2>2. \A x \in S : x \in Nat /\ x <= b /\ x # b
    BY <2>1
  <2>3. b - 1 \in Nat /\ \A x \in S : x <= b - 1
    BY <2>2
  <2>4. b - 1 \in Bounds
    BY <2>3
  <2>5. QED BY <1>2, <2>3, <2>4
<1>4. \A x \in S : b >= x /\ x \in Nat
  OBVIOUS
<1>5. Max(S) \in S /\ \A x \in S : Max(S) >= x
  BY <1>3, <1>4 DEF Max
<1>6. QED BY <1>4, <1>5

(* The element a fold takes first. *)
First(s) == CHOOSE x \in s : TRUE

(* The recursion of the folds, for sums of the values of a function. *)
SumsUp(g, S, f) ==
    g = [s \in SUBSET S |-> IF s = {} THEN 0 ELSE f[First(s)] + g[s \ {First(s)}]]

Summation(S, f) == CHOOSE g : SumsUp(g, S, f)

Total(S, f) == Summation(S, f)[S]

(* Two functions that satisfy the recursion are equal: at a smallest set   *)
(* on which they differed they would agree on what is left of it.          *)
LEMMA OneSummation ==
    ASSUME NEW S, IsFiniteSet(S), NEW f, NEW g, NEW h,
           SumsUp(g, S, f), SumsUp(h, S, f)
    PROVE  g = h
<1> DEFINE Differ == {s \in SUBSET S : g[s] # h[s]}
           Sizes == {Cardinality(s) : s \in Differ}
<1>1. \A s \in SUBSET S : IsFiniteSet(s) /\ Cardinality(s) \in Nat
  BY FS_Subset, FS_CardinalityType
<1>2. Differ = {}
  <2> SUFFICES ASSUME Differ # {} PROVE FALSE
    OBVIOUS
  <2>1. Sizes \in SUBSET Nat /\ Sizes # {}
    BY <1>1
  <2>2. PICK n \in Sizes : \A k \in Sizes : n <= k
    <3> HIDE DEF Sizes
    <3>1. QED BY <2>1, Least
  <2>3. PICK s \in Differ : Cardinality(s) = n
    OBVIOUS
  <2>4. s # {}
    BY DEF SumsUp
  <2> DEFINE x == First(s)
             r == s \ {x}
  <2>5. x \in s
    BY <2>4 DEF First
  <2>6. r \in SUBSET S /\ Cardinality(r) = Cardinality(s) - 1
    BY <1>1, <2>5, FS_RemoveElement
  <2>7. r \notin Differ
    <3>1. Cardinality(s) \in Nat
      BY <1>1
    <3>2. ~(n <= Cardinality(r))
      BY <2>3, <2>6, <3>1
    <3>3. Cardinality(r) \notin Sizes
      BY <2>2, <3>2
    <3>4. QED BY <3>3
  <2>8. g[r] = h[r]
    BY <2>6, <2>7
  <2>9. g[s] = f[x] + g[r] /\ h[s] = f[x] + h[r]
    BY <2>4 DEF SumsUp
  <2>10. QED BY <2>8, <2>9
<1>3. \A s \in SUBSET S : g[s] = h[s]
  BY <1>2
<1>4. g = [s \in SUBSET S |-> g[s]] /\ h = [s \in SUBSET S |-> h[s]]
  BY DEF SumsUp
<1>5. QED BY <1>3, <1>4

LEMMA TotalIs ==
    ASSUME NEW S, IsFiniteSet(S), NEW f, NEW g, SumsUp(g, S, f)
    PROVE  Total(S, f) = g[S]
<1>1. SumsUp(Summation(S, f), S, f)
  BY DEF Summation
<1>2. Summation(S, f) = g
  BY <1>1, OneSummation
<1>3. QED BY <1>2 DEF Total

(* The sizes of sets that share nothing add up to those of their unions. *)
Union(B, s) == UNION {B[x] : x \in s}

LEMMA SizesSumUp ==
    ASSUME NEW S, IsFiniteSet(S), NEW B, \A x \in S : IsFiniteSet(B[x]),
           \A x, y \in S : x # y => B[x] \cap B[y] = {},
           NEW f, \A x \in S : f[x] = Cardinality(B[x])
    PROVE  /\ SumsUp([s \in SUBSET S |-> Cardinality(Union(B, s))], S, f)
           /\ \A s \in SUBSET S : IsFiniteSet(Union(B, s))
<1> DEFINE U(s) == Union(B, s)
           g == [s \in SUBSET S |-> Cardinality(U(s))]
<1>1. \A s \in SUBSET S : IsFiniteSet(U(s))
  <2>1. ASSUME NEW s \in SUBSET S PROVE IsFiniteSet(U(s))
    <3> DEFINE F == {B[x] : x \in s}
    <3>1. IsFiniteSet(s)
      BY FS_Subset
    <3>2. IsFiniteSet(F)
      <4> DEFINE m == [x \in s |-> B[x]]
      <4>1. m \in Surjection(s, F)
        BY DEF Surjection
      <4> HIDE DEF m, F
      <4>2. QED BY <3>1, <4>1, FS_Surjection
    <3>3. \A T \in F : IsFiniteSet(T)
      OBVIOUS
    <3> HIDE DEF F
    <3>4. IsFiniteSet(UNION F)
      BY <3>2, <3>3, FS_UNION
    <3>5. QED BY <3>4 DEF F, Union
  <2>2. QED BY <2>1
<1>2. ASSUME NEW s \in SUBSET S
      PROVE  g[s] = IF s = {} THEN 0 ELSE f[First(s)] + g[s \ {First(s)}]
  <2>1. CASE s = {}
    <3>1. U(s) = {}
      BY <2>1 DEF Union
    <3>2. QED BY <2>1, <3>1, FS_EmptySet
  <2>2. CASE s # {}
    <3> DEFINE x == First(s)
               r == s \ {x}
    <3>1. x \in s /\ x \in S /\ r \in SUBSET S
      BY <2>2 DEF First
    <3>2. U(s) = B[x] \cup U(r)
      BY <3>1 DEF Union
    <3>3. B[x] \cap U(r) = {}
      BY <3>1 DEF Union
    <3> DEFINE V == U(r)
    <3>4. IsFiniteSet(B[x]) /\ IsFiniteSet(V)
      BY <1>1, <3>1
    <3>5. U(s) = B[x] \cup V /\ B[x] \cap V = {}
      BY <3>2, <3>3
    <3>6. g[s] = Cardinality(U(s)) /\ g[r] = Cardinality(V)
      BY <3>1
    <3>7. f[x] = Cardinality(B[x])
      BY <3>1
    <3> HIDE DEF x, r, V, g, U
    <3>8. Cardinality(B[x] \cup V) = Cardinality(B[x]) + Cardinality(V) - 0
      BY <3>4, <3>5, FS_Union, FS_EmptySet
    <3>9. Cardinality(B[x]) \in Nat /\ Cardinality(V) \in Nat
      BY <3>4, FS_CardinalityType
    <3>10. g[s] = f[x] + g[r]
      BY <3>5, <3>6, <3>7, <3>8, <3>9
    <3>11. QED BY <2>2, <3>10 DEF x, r
  <2>3. QED BY <2>1, <2>2
<1>3. SumsUp(g, S, f)
  <2>1. g = [s \in SUBSET S |-> g[s]]
    OBVIOUS
  <2> HIDE DEF g
  <2>2. QED BY <1>2, <2>1 DEF SumsUp
<1>4. QED BY <1>1, <1>3

(* A sum of sizes is the size of the union. *)
LEMMA TotalOfSizes ==
    ASSUME NEW S, IsFiniteSet(S), NEW B, \A x \in S : IsFiniteSet(B[x]),
           \A x, y \in S : x # y => B[x] \cap B[y] = {},
           NEW f, \A x \in S : f[x] = Cardinality(B[x])
    PROVE  Total(S, f) = Cardinality(UNION {B[x] : x \in S})
<1> DEFINE g == [s \in SUBSET S |-> Cardinality(Union(B, s))]
<1>1. g[S] = Cardinality(Union(B, S))
  OBVIOUS
<1>2. SumsUp(g, S, f)
  BY SizesSumUp
<1> HIDE DEF g
<1>3. QED BY <1>1, <1>2, TotalIs DEF Union

(* Naturals have sums, which are naturals: a sum counts the pairs of an    *)
(* element and a number up to its value.                                   *)
LEMMA NaturalsSumUp ==
    ASSUME NEW S, IsFiniteSet(S), NEW f, \A x \in S : f[x] \in Nat
    PROVE  \E g : SumsUp(g, S, f) /\ \A s \in SUBSET S : g[s] \in Nat
<1> DEFINE B == [x \in S |-> {x} \X (1..f[x])]
<1>1. ASSUME NEW x \in S
      PROVE  IsFiniteSet(B[x]) /\ f[x] = Cardinality(B[x])
  <2> DEFINE n == f[x]
             A == {x}
             N == 1..n
  <2>1. n \in Nat /\ B[x] = A \X N
    OBVIOUS
  <2>2. IsFiniteSet(A) /\ Cardinality(A) = 1
    BY FS_Singleton
  <2>3. IsFiniteSet(N) /\ Cardinality(N) = n
    <3>1. 1 \in Int /\ n \in Int /\ (1 > n => n = 0) /\ n - 1 + 1 = n
      BY <2>1
    <3> HIDE DEF n
    <3>2. QED BY <3>1, FS_Interval
  <2> HIDE DEF n, A, N, B
  <2>4. IsFiniteSet(A \X N) /\ Cardinality(A \X N) = 1 * n
    BY <2>2, <2>3, FS_Product
  <2>5. QED BY <2>1, <2>4 DEF n
<1>2. \A x, y \in S : x # y => B[x] \cap B[y] = {}
  OBVIOUS
<1> DEFINE g == [s \in SUBSET S |-> Cardinality(Union(B, s))]
<1>3. \A s \in SUBSET S : g[s] = Cardinality(Union(B, s))
  OBVIOUS
<1> HIDE DEF B
<1>4. SumsUp(g, S, f) /\ \A s \in SUBSET S : IsFiniteSet(Union(B, s))
  BY <1>1, <1>2, SizesSumUp
<1> HIDE DEF g
<1>5. QED BY <1>3, <1>4, FS_CardinalityType

LEMMA TotalIsNatural ==
    ASSUME NEW S, IsFiniteSet(S), NEW f, \A x \in S : f[x] \in Nat
    PROVE  Total(S, f) \in Nat
<1>1. PICK g : SumsUp(g, S, f) /\ \A s \in SUBSET S : g[s] \in Nat
  BY NaturalsSumUp
<1>2. QED BY <1>1, TotalIs

LEMMA TotalOfNone ==
    ASSUME NEW S, IsFiniteSet(S), NEW f, \A x \in S : f[x] = 0
    PROVE  Total(S, f) = 0
<1> DEFINE g == [s \in SUBSET S |-> 0]
<1>1. SumsUp(g, S, f)
  <2>1. ASSUME NEW s \in SUBSET S, s # {}
        PROVE  /\ f[First(s)] = 0
               /\ g[s \ {First(s)}] = 0
    BY <2>1 DEF First
  <2>2. ASSUME NEW s \in SUBSET S
        PROVE  g[s] = IF s = {} THEN 0 ELSE f[First(s)] + g[s \ {First(s)}]
    <3>1. g[s] = 0 /\ (s # {} => f[First(s)] = 0 /\ g[s \ {First(s)}] = 0)
      BY <2>1
    <3> HIDE DEF g
    <3>2. QED BY <3>1
  <2>3. g = [s \in SUBSET S |-> g[s]]
    OBVIOUS
  <2> HIDE DEF g
  <2>4. QED BY <2>2, <2>3 DEF SumsUp
<1>2. g[S] = 0
  OBVIOUS
<1> HIDE DEF g
<1>3. QED BY <1>1, <1>2, TotalIs

(* A sum changes by as much as the one value that changes. *)
LEMMA TotalChanged ==
    ASSUME NEW S, IsFiniteSet(S), NEW f, \A x \in S : f[x] \in Nat, NEW h,
           NEW z \in S, h[z] \in Nat, \A x \in S \ {z} : h[x] = f[x]
    PROVE  Total(S, h) = Total(S, f) - f[z] + h[z]
<1>1. PICK g : SumsUp(g, S, f) /\ \A s \in SUBSET S : g[s] \in Nat
  BY NaturalsSumUp
<1> DEFINE k == [s \in SUBSET S |-> IF z \in s THEN g[s] - f[z] + h[z] ELSE g[s]]
<1>2. ASSUME NEW s \in SUBSET S
      PROVE  k[s] = IF s = {} THEN 0 ELSE h[First(s)] + k[s \ {First(s)}]
  <2>1. CASE s = {}
    BY <1>1, <2>1 DEF SumsUp
  <2>2. CASE s # {}
    <3> DEFINE x == First(s)
               r == s \ {x}
    <3>1. x \in s /\ x \in S /\ r \in SUBSET S
      BY <2>2 DEF First
    <3>2. g[s] = f[x] + g[r]
      BY <1>1, <2>2 DEF SumsUp
    <3>3. g[s] \in Nat /\ g[r] \in Nat /\ f[x] \in Nat /\ f[z] \in Nat
      BY <1>1, <3>1
    <3>4. /\ k[s] = IF z \in s THEN g[s] - f[z] + h[z] ELSE g[s]
          /\ k[r] = IF z \in r THEN g[r] - f[z] + h[z] ELSE g[r]
      BY <3>1
    <3>5. x # z => h[x] = f[x] /\ (z \in r <=> z \in s)
      BY <3>1
    <3>6. x = z => z \in s /\ z \notin r
      BY <3>1
    <3> HIDE DEF x, r, k
    <3>7. k[s] = h[x] + k[r]
      BY <3>2, <3>3, <3>4, <3>5, <3>6
    <3>8. QED BY <2>2, <3>7 DEF x, r
  <2>3. QED BY <2>1, <2>2
<1>3. SumsUp(k, S, h)
  <2>1. k = [s \in SUBSET S |-> k[s]]
    OBVIOUS
  <2> HIDE DEF k
  <2>2. QED BY <1>2, <2>1 DEF SumsUp
<1>4. k[S] = g[S] - f[z] + h[z]
  OBVIOUS
<1> HIDE DEF k
<1>5. QED BY <1>1, <1>3, <1>4, TotalIs

-----------------------------------------------------------------------------
(* A sequence taken apart at k and put together again. *)
LEMMA Removed ==
    ASSUME NEW S, NEW q \in Seq(S), NEW k \in 1..Len(q)
    PROVE  /\ RemoveAt(q, k) \in Seq(S)
           /\ Len(RemoveAt(q, k)) = Len(q) - 1
           /\ \A i \in 1..(Len(q) - 1) :
                 RemoveAt(q, k)[i] = IF i < k THEN q[i] ELSE q[i + 1]
<1> DEFINE a == SubSeq(q, 1, k - 1)
           b == SubSeq(q, k + 1, Len(q))
<1>1. Len(q) \in Nat /\ \A i \in 1..Len(q) : q[i] \in S
  OBVIOUS
<1>2. /\ a \in Seq(S) /\ Len(a) = k - 1
      /\ \A i \in 1..(k - 1) : a[i] = q[i]
  BY <1>1, SubSeqProperties
<1>3. /\ b \in Seq(S) /\ Len(b) = Len(q) - k
      /\ \A i \in 1..(Len(q) - k) : b[i] = q[k + i]
  <2>1. k + 1 \in Int /\ Len(q) \in Int /\ \A i \in (k + 1)..Len(q) : q[i] \in S
    BY <1>1
  <2>2. /\ b \in Seq(S)
        /\ Len(b) = IF k + 1 <= Len(q) THEN Len(q) - (k + 1) + 1 ELSE 0
        /\ \A i \in 1..(Len(q) - (k + 1) + 1) : b[i] = q[k + 1 + i - 1]
    BY <2>1, SubSeqProperties
  <2> HIDE DEF b
  <2>3. QED BY <1>1, <2>2
<1>4. RemoveAt(q, k) = a \o b
  BY DEF RemoveAt
<1> HIDE DEF a, b
<1>5. /\ a \o b \in Seq(S) /\ Len(a \o b) = Len(a) + Len(b)
      /\ \A i \in 1..(Len(a) + Len(b)) :
            (a \o b)[i] = IF i <= Len(a) THEN a[i] ELSE b[i - Len(a)]
  BY <1>2, <1>3, ConcatProperties
<1>6. ASSUME NEW i \in 1..(Len(q) - 1)
      PROVE  RemoveAt(q, k)[i] = IF i < k THEN q[i] ELSE q[i + 1]
  <2>1. CASE i < k
    BY <1>1, <1>2, <1>3, <1>4, <1>5, <2>1
  <2>2. CASE i >= k
    <3>1. (a \o b)[i] = b[i - (k - 1)]
      BY <1>1, <1>2, <1>3, <1>5, <2>2
    <3>2. i - (k - 1) \in 1..(Len(q) - k)
      BY <1>1, <2>2
    <3>3. b[i - (k - 1)] = q[k + (i - (k - 1))]
      BY <1>3, <3>2
    <3>4. k + (i - (k - 1)) = i + 1
      BY <1>1
    <3>5. QED BY <1>4, <2>2, <3>1, <3>3, <3>4
  <2>3. QED BY <2>1, <2>2
<1>7. QED BY <1>1, <1>2, <1>3, <1>4, <1>5, <1>6

(* An element is put anywhere, also behind the last one. *)
LEMMA Inserted ==
    ASSUME NEW S, NEW q \in Seq(S), NEW k \in 1..(Len(q) + 1), NEW e \in S
    PROVE  /\ InsertAt(q, k, e) \in Seq(S)
           /\ Len(InsertAt(q, k, e)) = Len(q) + 1
           /\ \A i \in 1..(Len(q) + 1) :
                 InsertAt(q, k, e)[i] =
                    IF i < k THEN q[i] ELSE IF i = k THEN e ELSE q[i - 1]
<1> DEFINE a == SubSeq(q, 1, k - 1)
           b == SubSeq(q, k, Len(q))
           c == a \o <<e>>
<1>1. Len(q) \in Nat /\ \A i \in 1..Len(q) : q[i] \in S
  OBVIOUS
<1>2. /\ a \in Seq(S) /\ Len(a) = k - 1
      /\ \A i \in 1..(k - 1) : a[i] = q[i]
  BY <1>1, SubSeqProperties
<1>3. /\ b \in Seq(S) /\ Len(b) = Len(q) - k + 1
      /\ \A i \in 1..(Len(q) - k + 1) : b[i] = q[k + i - 1]
  <2>1. k \in Int /\ Len(q) \in Int /\ \A i \in k..Len(q) : q[i] \in S
    BY <1>1
  <2>2. /\ b \in Seq(S)
        /\ Len(b) = IF k <= Len(q) THEN Len(q) - k + 1 ELSE 0
        /\ \A i \in 1..(Len(q) - k + 1) : b[i] = q[k + i - 1]
    BY <2>1, SubSeqProperties
  <2> HIDE DEF b
  <2>3. QED BY <1>1, <2>2
<1>4. /\ <<e>> \in Seq(S) /\ Len(<<e>>) = 1 /\ <<e>>[1] = e
  OBVIOUS
<1> HIDE DEF a
<1>5. /\ c \in Seq(S) /\ Len(c) = k
      /\ \A i \in 1..k : c[i] = IF i < k THEN q[i] ELSE e
  <2>1. /\ c \in Seq(S) /\ Len(c) = Len(a) + Len(<<e>>)
        /\ \A i \in 1..(Len(a) + Len(<<e>>)) :
              c[i] = IF i <= Len(a) THEN a[i] ELSE <<e>>[i - Len(a)]
    BY <1>2, <1>4, ConcatProperties
  <2> HIDE DEF c
  <2>2. ASSUME NEW i \in 1..k PROVE c[i] = IF i < k THEN q[i] ELSE e
    <3>1. CASE i < k
      BY <1>2, <1>4, <2>1, <3>1
    <3>2. CASE i = k
      <4>1. i - Len(a) = 1
        BY <1>2, <3>2
      <4>2. QED BY <1>2, <1>4, <2>1, <3>2, <4>1
    <3>3. QED BY <3>1, <3>2
  <2>3. QED BY <1>2, <1>4, <2>1, <2>2
<1>6. InsertAt(q, k, e) = c \o b
  BY DEF InsertAt, a
<1> HIDE DEF b, c
<1>7. /\ c \o b \in Seq(S) /\ Len(c \o b) = Len(c) + Len(b)
      /\ \A i \in 1..(Len(c) + Len(b)) :
            (c \o b)[i] = IF i <= Len(c) THEN c[i] ELSE b[i - Len(c)]
  BY <1>3, <1>5, ConcatProperties
<1>8. ASSUME NEW i \in 1..(Len(q) + 1)
      PROVE  InsertAt(q, k, e)[i] =
                IF i < k THEN q[i] ELSE IF i = k THEN e ELSE q[i - 1]
  <2>1. CASE i <= k
    <3>1. (c \o b)[i] = c[i]
      BY <1>1, <1>3, <1>5, <1>7, <2>1
    <3>2. QED BY <1>5, <1>6, <2>1, <3>1
  <2>2. CASE i > k
    <3>1. (c \o b)[i] = b[i - k]
      BY <1>1, <1>3, <1>5, <1>7, <2>2
    <3>2. i - k \in 1..(Len(q) - k + 1)
      BY <1>1, <2>2
    <3>3. b[i - k] = q[k + (i - k) - 1]
      BY <1>3, <3>2
    <3>4. k + (i - k) - 1 = i - 1
      BY <1>1
    <3>5. QED BY <1>6, <2>2, <3>1, <3>3, <3>4
  <2>3. QED BY <2>1, <2>2
<1>9. QED BY <1>1, <1>3, <1>5, <1>6, <1>7, <1>8

-----------------------------------------------------------------------------
(* Stacks: elements are pushed, popped and replaced at the top. *)
LEMMA PushedOn ==
    ASSUME NEW X, NEW s \in Seq(X), NEW f \in X, NEW t, t = Append(s, f)
    PROVE  /\ t \in Seq(X) /\ Len(t) = Len(s) + 1 /\ t[Len(s) + 1] = f
           /\ \A i \in 1..Len(s) : t[i] = s[i]
BY AppendProperties

LEMMA PoppedOff ==
    ASSUME NEW X, NEW s \in Seq(X), Len(s) > 0, NEW t, t = Front(s)
    PROVE  /\ t \in Seq(X) /\ Len(t) = Len(s) - 1
           /\ \A i \in 1..Len(t) : t[i] = s[i] /\ i \in 1..Len(s)
<1> DEFINE n == Len(s)
<1>1. n \in Nat /\ n > 0 /\ \A i \in 1..n : s[i] \in X
  BY LenProperties, ElementOfSeq
<1>2. t = SubSeq(s, 1, n - 1)
  BY DEF Front
<1> HIDE DEF n
<1>3. /\ 1 \in Int /\ n - 1 \in Int /\ \A i \in 1..(n - 1) : s[i] \in X
      /\ (IF 1 <= n - 1 THEN (n - 1) - 1 + 1 ELSE 0) = n - 1
      /\ (n - 1) - 1 + 1 = n - 1
      /\ \A i \in 1..(n - 1) : 1 + i - 1 = i /\ i \in 1..n
  BY <1>1
<1>4. /\ t \in Seq(X)
      /\ Len(t) = n - 1
      /\ \A i \in 1..(n - 1) : t[i] = s[i]
  BY <1>2, <1>3, SubSeqProperties
<1>5. QED BY <1>3, <1>4 DEF n

OnTop(X, s, f, t) ==
    /\ t \in Seq(X) /\ Len(t) = Len(s) /\ t[Len(s)] = f
    /\ \A i \in 1..Len(s) : i # Len(s) => t[i] = s[i]

LEMMA ReplacedTop ==
    ASSUME NEW X, NEW s \in Seq(X), Len(s) > 0, NEW f \in X
    PROVE  OnTop(X, s, f, Append(Front(s), f))
<1> DEFINE r == Front(s)
           t == Append(r, f)
           n == Len(s)
<1>1. /\ r \in Seq(X) /\ Len(r) = n - 1
      /\ \A i \in 1..Len(r) : r[i] = s[i]
  BY PoppedOff
<1>2. t = Append(r, f)
  OBVIOUS
<1> HIDE DEF r, t
<1>3. /\ t \in Seq(X) /\ Len(t) = Len(r) + 1 /\ t[Len(r) + 1] = f
      /\ \A i \in 1..Len(r) : t[i] = r[i]
  BY <1>1, <1>2, PushedOn
<1>4. n \in Nat /\ n > 0
  BY LenProperties
<1> HIDE DEF n
<1>5. Len(r) + 1 = n /\ \A i \in 1..n : i # n => i \in 1..Len(r)
  BY <1>1, <1>4
<1>6. OnTop(X, s, f, t)
  BY <1>1, <1>3, <1>5 DEF n, OnTop
<1>7. QED BY <1>6 DEF t, r
=============================================================================
