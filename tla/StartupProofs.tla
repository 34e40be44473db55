----------------------------- MODULE StartupProofs -----------------------------
(***************************************************************************)
(* For every application: the order in which `main` brings the system up.  *)
(* A line has its priority before its interrupt is unmasked, a context     *)
(* finds written what it reaches, and no two contexts hold references that *)
(* alias.                                                                  *)
(***************************************************************************)
EXTENDS Startup, SequenceTheorems, Collections

-----------------------------------------------------------------------------
(* Joining sequences.  What ForEach makes is a block of statements per     *)
(* element, one after another: every element of the result lies in a block *)
(* that is there from its start, and every element of a block is there.    *)
InBlock(s, p, b, q) ==
    /\ q \in 1..Len(b) /\ q <= p
    /\ \A r \in 1..q : p - q + r \in 1..Len(s) /\ s[p - q + r] = b[r]

Joined(s, ss, n) ==
    /\ \A p \in 1..Len(s) : \E k \in 1..n, q \in Nat : InBlock(s, p, ss[k], q)
    /\ \A k \in 1..n : \A q \in 1..Len(ss[k]) : \E p \in 1..Len(s) : s[p] = ss[k][q]

LEMMA JoinOne ==
    ASSUME NEW X, NEW n \in Nat, NEW ss, ss[n + 1] \in Seq(X),
           NEW s \in Seq(X), Joined(s, ss, n)
    PROVE  Joined(s \o ss[n + 1], ss, n + 1)
<1> DEFINE b == ss[n + 1]
           t == s \o b
<1>1. /\ Len(s) \in Nat /\ Len(b) \in Nat /\ Len(t) = Len(s) + Len(b)
      /\ \A i \in 1..Len(s) : t[i] = s[i]
      /\ \A i \in 1..Len(b) : t[Len(s) + i] = b[i]
  <2>1. /\ Len(t) = Len(s) + Len(b)
        /\ \A i \in 1..(Len(s) + Len(b)) :
              t[i] = IF i <= Len(s) THEN s[i] ELSE b[i - Len(s)]
    BY ConcatProperties
  <2>2. Len(s) \in Nat /\ Len(b) \in Nat
    BY LenProperties
  <2> HIDE DEF t, b
  <2>3. ASSUME NEW i \in 1..Len(s) PROVE t[i] = s[i]
    BY <2>1, <2>2
  <2>4. ASSUME NEW i \in 1..Len(b) PROVE t[Len(s) + i] = b[i]
    <3>1. Len(s) + i \in 1..(Len(s) + Len(b)) /\ ~(Len(s) + i <= Len(s))
          /\ Len(s) + i - Len(s) = i
      BY <2>2
    <3>2. QED BY <2>1, <3>1
  <2>5. QED BY <2>1, <2>2, <2>3, <2>4
<1> HIDE DEF t
<1>2. ASSUME NEW p \in 1..Len(t)
      PROVE  \E k \in 1..(n + 1), q \in Nat : InBlock(t, p, ss[k], q)
  <2>1. CASE p <= Len(s)
    <3>1. PICK k \in 1..n, q \in Nat : InBlock(s, p, ss[k], q)
      BY <1>1, <2>1 DEF Joined
    <3>2. ASSUME NEW r \in 1..q
          PROVE  p - q + r \in 1..Len(t) /\ t[p - q + r] = ss[k][r]
      <4>1. p - q + r \in 1..Len(s) /\ s[p - q + r] = ss[k][r]
        BY <3>1 DEF InBlock
      <4>2. \A i \in 1..Len(s) : i \in 1..Len(t) /\ t[i] = s[i]
        BY <1>1
      <4>3. QED BY <4>1, <4>2
    <3>3. InBlock(t, p, ss[k], q)
      BY <3>1, <3>2 DEF InBlock
    <3>4. QED BY <3>3
  <2>2. CASE p > Len(s)
    <3> DEFINE q == p - Len(s)
    <3>1. q \in 1..Len(b) /\ q \in Nat /\ p - q = Len(s) /\ q <= p
      BY <1>1, <2>2
    <3> HIDE DEF q, b
    <3>2. ASSUME NEW r \in 1..q
          PROVE  p - q + r \in 1..Len(t) /\ t[p - q + r] = b[r]
      <4>1. r \in 1..Len(b) /\ p - q + r = Len(s) + r
        BY <3>1
      <4>2. Len(s) + r \in 1..Len(t)
        BY <1>1, <4>1
      <4>3. t[Len(s) + r] = b[r]
        BY <1>1, <4>1
      <4>4. QED BY <4>1, <4>2, <4>3
    <3>3. InBlock(t, p, b, q)
      BY <3>1, <3>2 DEF InBlock
    <3>4. n + 1 \in 1..(n + 1)
      OBVIOUS
    <3>5. QED BY <3>1, <3>3, <3>4 DEF b
  <2>3. QED BY <1>1, <2>1, <2>2
<1>3. ASSUME NEW k \in 1..(n + 1), NEW q \in 1..Len(ss[k])
      PROVE  \E p \in 1..Len(t) : t[p] = ss[k][q]
  <2>1. CASE k \in 1..n
    <3>1. PICK p \in 1..Len(s) : s[p] = ss[k][q]
      BY <2>1 DEF Joined
    <3>2. QED BY <1>1, <3>1
  <2>2. CASE k = n + 1
    <3>1. q \in 1..Len(b) /\ Len(s) + q \in 1..Len(t)
      BY <1>1, <2>2
    <3>2. t[Len(s) + q] = b[q]
      BY <1>1, <3>1
    <3>3. QED BY <2>2, <3>1, <3>2
  <2>3. QED BY <2>1, <2>2
<1>4. QED BY <1>2, <1>3 DEF Joined, t

(* The recursion of FlattenSeq has a solution, and any solution joins. *)
Flattens(g, ss, n) ==
    g = [i \in 1..n |-> IF i = 1 THEN ss[i] ELSE g[i - 1] \o ss[i]]

LEMMA FlatteningExists ==
    ASSUME NEW ss, NEW n \in Nat
    PROVE  \E g : Flattens(g, ss, n)
<1> DEFINE Bad == {k \in Nat : ~\E g : Flattens(g, ss, k)}
<1>1. SUFFICES Bad = {}
  OBVIOUS
<1>2. ASSUME Bad # {} PROVE FALSE
  <2>1. PICK k \in Bad : \A j \in Bad : k <= j
    BY <1>2, Least
  <2>2. k \in Nat
    OBVIOUS
  <2>3. k # 0
    <3> DEFINE g == [i \in 1..0 |-> ss[i]]
    <3>1. Flattens(g, ss, 0)
      BY DEF Flattens
    <3> HIDE DEF g
    <3>2. QED BY <3>1
  <2>4. k - 1 \in Nat /\ ~(k <= k - 1)
    BY <2>2, <2>3
  <2>5. PICK g : Flattens(g, ss, k - 1)
    BY <2>1, <2>4
  <2> DEFINE h == [i \in 1..k |-> IF i < k THEN g[i]
                                  ELSE IF i = 1 THEN ss[i] ELSE g[i - 1] \o ss[i]]
  <2>6. ASSUME NEW i \in 1..k
        PROVE  h[i] = IF i = 1 THEN ss[i] ELSE h[i - 1] \o ss[i]
    <3>1. CASE i < k
      <4>1. i \in 1..(k - 1) /\ i \in Int
        BY <2>2, <3>1
      <4>2. g[i] = IF i = 1 THEN ss[i] ELSE g[i - 1] \o ss[i]
        BY <2>5, <4>1 DEF Flattens
      <4>3. i # 1 => i - 1 \in 1..k /\ i - 1 < k
        BY <2>2, <3>1
      <4>4. h[i] = g[i] /\ (i # 1 => h[i - 1] = g[i - 1])
        BY <3>1, <4>3
      <4> HIDE DEF h
      <4>5. QED BY <4>2, <4>4
    <3>2. CASE i = k
      <4>1. i # 1 => i - 1 \in 1..k /\ i - 1 < k
        BY <2>2, <3>2
      <4>2. i # 1 => h[i - 1] = g[i - 1]
        BY <4>1
      <4>3. h[i] = IF i = 1 THEN ss[i] ELSE g[i - 1] \o ss[i]
        BY <2>2, <3>2
      <4> HIDE DEF h
      <4>4. QED BY <4>2, <4>3
    <3>3. QED BY <2>2, <3>1, <3>2
  <2>7. h = [i \in 1..k |-> h[i]]
    OBVIOUS
  <2> HIDE DEF h
  <2>8. Flattens(h, ss, k)
    BY <2>6, <2>7 DEF Flattens
  <2>9. QED BY <2>1, <2>8
<1>3. QED BY <1>2

LEMMA FlatteningJoins ==
    ASSUME NEW X, NEW n \in Nat, NEW ss, \A k \in 1..n : ss[k] \in Seq(X),
           NEW g, Flattens(g, ss, n)
    PROVE  \A k \in 1..n : g[k] \in Seq(X) /\ Joined(g[k], ss, k)
<1> DEFINE Bad == {k \in 1..n : ~(g[k] \in Seq(X) /\ Joined(g[k], ss, k))}
<1>1. ASSUME Bad # {} PROVE FALSE
  <2>1. Bad \in SUBSET Nat
    OBVIOUS
  <2>2. PICK k \in Bad : \A j \in Bad : k <= j
    <3> HIDE DEF Bad
    <3>1. QED BY <1>1, <2>1, Least
  <2>3. k \in 1..n /\ ss[k] \in Seq(X)
    OBVIOUS
  <2>4. CASE k = 1
    <3>1. g[1] = ss[1] /\ ss[1] \in Seq(X)
      BY <2>3, <2>4 DEF Flattens
    <3>2. Joined(g[1], ss, 1)
      <4> DEFINE s == ss[1]
      <4>1. Len(s) \in Nat
        BY <3>1, LenProperties
      <4>2. \A p \in 1..Len(s) : InBlock(s, p, s, p) /\ p \in Nat
        BY <4>1 DEF InBlock
      <4> HIDE DEF s
      <4>3. \A p \in 1..Len(s) : \E kk \in 1..1, q \in Nat : InBlock(s, p, ss[kk], q)
        BY <4>2 DEF s
      <4>4. \A kk \in 1..1 : ss[kk] = s
        BY DEF s
      <4>5. QED BY <3>1, <4>3, <4>4 DEF Joined, s
    <3>3. QED BY <2>2, <2>4, <3>1, <3>2
  <2>5. CASE k # 1
    <3> DEFINE j == k - 1
    <3>1. j \in 1..n /\ j \in Nat /\ j + 1 = k /\ ~(k <= j)
      BY <2>3, <2>5
    <3>2. g[j] \in Seq(X) /\ Joined(g[j], ss, j)
      BY <2>2, <3>1
    <3>3. g[k] = g[j] \o ss[k]
      BY <2>3, <2>5 DEF Flattens
    <3> HIDE DEF j
    <3>4. g[k] \in Seq(X)
      BY <2>3, <3>2, <3>3, ConcatProperties
    <3>5. Joined(g[k], ss, k)
      BY <2>3, <3>1, <3>2, <3>3, JoinOne
    <3>6. QED BY <2>2, <3>4, <3>5
  <2>6. QED BY <2>4, <2>5
<1>2. QED BY <1>1

LEMMA FlattenSeqJoins ==
    ASSUME NEW X, NEW n \in Nat, NEW ss \in [1..n -> Seq(X)]
    PROVE  FlattenSeq(ss) \in Seq(X) /\ Joined(FlattenSeq(ss), ss, n)
<1>1. ss \in Seq(Seq(X)) /\ Len(ss) = n
  OBVIOUS
<1>2. CASE n = 0
  <2>1. FlattenSeq(ss) = ss
    BY <1>1, <1>2 DEF FlattenSeq
  <2>2. ss \in Seq(X)
    <3>1. 1..0 = {}
      OBVIOUS
    <3>2. ss \in [1..0 -> X]
      BY <1>2, <3>1
    <3>3. QED BY <3>2
  <2>3. QED BY <1>1, <1>2, <2>1, <2>2 DEF Joined
<1>3. CASE n # 0
  <2> DEFINE g == CHOOSE g : Flattens(g, ss, n)
  <2>1. Flattens(g, ss, n)
    BY FlatteningExists
  <2>2. FlattenSeq(ss) = g[n]
    BY <1>1, <1>3 DEF FlattenSeq, Flattens
  <2> HIDE DEF g
  <2>3. n \in 1..n
    BY <1>3
  <2>4. QED BY <2>1, <2>2, <2>3, FlatteningJoins
<1>4. QED BY <1>2, <1>3

-----------------------------------------------------------------------------
(* The elements of a sequence, and statements that come after what they    *)
(* rely on: an interrupt is unmasked when its priority has been set.       *)
Has(s, x) == \E k \in 1..Len(s) : s[k] = x

Led(s) ==
    \A p \in 1..Len(s) : s[p].op = "unmask" =>
       \E j \in 1..(p - 1) : s[j] = Do("set_priority", s[p].of)

LEMMA PlacesJoined ==
    ASSUME NEW X, NEW u \in Seq(X), NEW v \in Seq(X)
    PROVE  /\ u \o v \in Seq(X)
           /\ Len(u) \in Nat /\ Len(v) \in Nat /\ Len(u \o v) = Len(u) + Len(v)
           /\ \A i \in 1..Len(u) : (u \o v)[i] = u[i] /\ i \in 1..Len(u \o v)
           /\ \A i \in 1..Len(v) :
                 (u \o v)[Len(u) + i] = v[i] /\ Len(u) + i \in 1..Len(u \o v)
           /\ \A i \in 1..Len(u \o v) : i \notin 1..Len(u) => i - Len(u) \in 1..Len(v)
           /\ \A i \in 1..Len(u \o v) : i \notin 1..Len(u) =>
                 (u \o v)[i] = v[i - Len(u)]
<1> DEFINE t == u \o v
<1>1. /\ t \in Seq(X) /\ Len(t) = Len(u) + Len(v)
      /\ \A i \in 1..(Len(u) + Len(v)) :
            t[i] = IF i <= Len(u) THEN u[i] ELSE v[i - Len(u)]
  BY ConcatProperties
<1>2. Len(u) \in Nat /\ Len(v) \in Nat
  BY LenProperties
<1> HIDE DEF t
<1>3. \A i \in 1..Len(u) : t[i] = u[i] /\ i \in 1..Len(t)
  BY <1>1, <1>2
<1>4. ASSUME NEW i \in 1..Len(v)
      PROVE  t[Len(u) + i] = v[i] /\ Len(u) + i \in 1..Len(t)
  <2>1. /\ Len(u) + i \in 1..(Len(u) + Len(v)) /\ ~(Len(u) + i <= Len(u))
        /\ (Len(u) + i) - Len(u) = i
    BY <1>2
  <2>2. QED BY <1>1, <2>1
<1>5. ASSUME NEW i \in 1..Len(t), i \notin 1..Len(u)
      PROVE  i - Len(u) \in 1..Len(v) /\ t[i] = v[i - Len(u)]
  <2>1. /\ i \in 1..(Len(u) + Len(v)) /\ ~(i <= Len(u))
        /\ i - Len(u) \in 1..Len(v)
    BY <1>1, <1>2, <1>5
  <2>2. QED BY <1>1, <2>1
<1>6. QED BY <1>1, <1>2, <1>3, <1>4, <1>5 DEF t

LEMMA HasJoined ==
    ASSUME NEW X, NEW u \in Seq(X), NEW v \in Seq(X), NEW x
    PROVE  Has(u \o v, x) <=> Has(u, x) \/ Has(v, x)
<1> DEFINE t == u \o v
<1>1. /\ \A i \in 1..Len(u) : t[i] = u[i] /\ i \in 1..Len(t)
      /\ \A i \in 1..Len(v) : t[Len(u) + i] = v[i] /\ Len(u) + i \in 1..Len(t)
      /\ \A i \in 1..Len(t) : i \notin 1..Len(u) => i - Len(u) \in 1..Len(v)
      /\ \A i \in 1..Len(t) : i \notin 1..Len(u) => t[i] = v[i - Len(u)]
  BY PlacesJoined
<1> HIDE DEF t
<1>2. Has(t, x) <=> Has(u, x) \/ Has(v, x)
  BY <1>1 DEF Has
<1>3. QED BY <1>2 DEF t

LEMMA LedJoined ==
    ASSUME NEW X, NEW u \in Seq(X), NEW v \in Seq(X), Led(u), Led(v)
    PROVE  Led(u \o v)
<1> DEFINE t == u \o v
<1>1. /\ Len(u) \in Nat
      /\ \A i \in 1..Len(u) : t[i] = u[i] /\ i \in 1..Len(t)
      /\ \A i \in 1..Len(v) : t[Len(u) + i] = v[i] /\ Len(u) + i \in 1..Len(t)
      /\ \A i \in 1..Len(t) : i \notin 1..Len(u) => i - Len(u) \in 1..Len(v)
      /\ \A i \in 1..Len(t) : i \notin 1..Len(u) => t[i] = v[i - Len(u)]
  BY PlacesJoined
<1> HIDE DEF t
<1>2. ASSUME NEW p \in 1..Len(t), t[p].op = "unmask"
      PROVE  \E j \in 1..(p - 1) : t[j] = Do("set_priority", t[p].of)
  <2>1. CASE p \in 1..Len(u)
    <3>1. PICK j \in 1..(p - 1) : u[j] = Do("set_priority", u[p].of)
      BY <1>1, <1>2, <2>1 DEF Led
    <3>2. j \in 1..Len(u)
      BY <1>1, <2>1
    <3>3. QED BY <1>1, <2>1, <3>1, <3>2
  <2>2. CASE p \notin 1..Len(u)
    <3> DEFINE q == p - Len(u)
    <3>1. q \in 1..Len(v) /\ t[p] = v[q]
      BY <1>1, <2>2
    <3>2. p = Len(u) + q /\ q \in Nat
      BY <1>1, <3>1
    <3> HIDE DEF q
    <3>3. PICK j \in 1..(q - 1) : v[j] = Do("set_priority", v[q].of)
      BY <1>2, <3>1 DEF Led
    <3>4. j \in 1..Len(v) /\ Len(u) + j \in 1..(p - 1)
      BY <1>1, <3>1, <3>2
    <3>5. t[Len(u) + j] = Do("set_priority", t[p].of)
      BY <1>1, <3>1, <3>3, <3>4
    <3>6. QED BY <3>4, <3>5
  <2>3. QED BY <2>1, <2>2
<1>3. QED BY <1>2 DEF Led, t

(* The statements for each element of a set, in the order of SetToSeq. *)
Listed(S, code) == FlattenSeq([i \in 1..Cardinality(S) |-> code[SetToSeq(S)[i]]])

LEMMA Enumerated ==
    ASSUME NEW S, IsFiniteSet(S)
    PROVE  /\ Cardinality(S) \in Nat
           /\ \A i \in 1..Cardinality(S) : SetToSeq(S)[i] \in S
           /\ \A x \in S : \E i \in 1..Cardinality(S) : SetToSeq(S)[i] = x
<1> DEFINE n == Cardinality(S)
           D == 1..n
           f == SetToSeq(S)
<1>1. n \in Nat /\ ExistsBijection(D, S)
  BY FS_CardinalityType
<1>2. f \in Injection(D, S)
  <2>1. PICK b : b \in Bijection(D, S)
    BY <1>1 DEF ExistsBijection
  <2>2. b \in [D -> S] /\ IsInjective(b)
    BY <2>1 DEF Bijection, Injection
  <2>3. QED BY <2>2 DEF SetToSeq, Injection
<1>3. IsFiniteSet(D) /\ Cardinality(D) = n
  <2>1. 1 \in Int /\ n \in Int /\ (1 > n => n = 0) /\ n - 1 + 1 = n
    BY <1>1
  <2> HIDE DEF n
  <2>2. QED BY <2>1, FS_Interval
<1> HIDE DEF D, f
<1>4. f \in Surjection(D, S)
  BY <1>2, <1>3, FS_Injection
<1>5. f \in [D -> S] /\ \A x \in S : \E i \in D : f[i] = x
  BY <1>4 DEF Surjection
<1>6. QED BY <1>1, <1>5 DEF D, f

LEMMA ListedIs ==
    ASSUME NEW S, IsFiniteSet(S), NEW P, NEW code,
           \A x \in S : code[x] \in Seq(P) /\ Led(code[x])
    PROVE  /\ Listed(S, code) \in Seq(P) /\ Led(Listed(S, code))
           /\ \A x \in S : \A y : Has(code[x], y) => Has(Listed(S, code), y)
<1> DEFINE n == Cardinality(S)
           f == SetToSeq(S)
           ss == [i \in 1..n |-> code[f[i]]]
           s == Listed(S, code)
<1>1. /\ n \in Nat
      /\ \A i \in 1..n : f[i] \in S
      /\ \A x \in S : \E i \in 1..n : f[i] = x
  BY Enumerated
<1> HIDE DEF f, n
<1>2. /\ \A i \in 1..n : ss[i] \in Seq(P) /\ Led(ss[i])
      /\ \A x \in S : \E i \in 1..n : ss[i] = code[x]
      /\ ss \in [1..n -> Seq(P)]
  BY <1>1
<1>3. s = FlattenSeq(ss)
  BY DEF Listed, f, n
<1> HIDE DEF ss, s
<1>4. s \in Seq(P) /\ Joined(s, ss, n)
  BY <1>1, <1>2, <1>3, FlattenSeqJoins
<1>5. ASSUME NEW p \in 1..Len(s), s[p].op = "unmask"
      PROVE  \E j \in 1..(p - 1) : s[j] = Do("set_priority", s[p].of)
  <2>1. PICK k \in 1..n, q \in Nat : InBlock(s, p, ss[k], q)
    BY <1>4 DEF Joined
  <2>2. /\ q \in 1..Len(ss[k]) /\ q <= p
        /\ \A r \in 1..q : p - q + r \in 1..Len(s) /\ s[p - q + r] = ss[k][r]
    BY <2>1 DEF InBlock
  <2>3. Len(s) \in Nat /\ Len(ss[k]) \in Nat
    BY <1>2, <1>4, LenProperties
  <2>4. q \in 1..q /\ p - q + q = p
    BY <2>2, <2>3
  <2>5. s[p] = ss[k][q]
    BY <2>2, <2>4
  <2>6. PICK r \in 1..(q - 1) : ss[k][r] = Do("set_priority", ss[k][q].of)
    BY <1>2, <1>5, <2>2, <2>5 DEF Led
  <2>7. r \in 1..q /\ p - q + r \in 1..(p - 1)
    BY <2>2, <2>3
  <2>8. s[p - q + r] = Do("set_priority", s[p].of)
    BY <2>2, <2>5, <2>6, <2>7
  <2>9. QED BY <2>7, <2>8
<1>6. ASSUME NEW x \in S, NEW y, Has(code[x], y)
      PROVE  Has(s, y)
  <2>1. PICK k \in 1..n : ss[k] = code[x]
    BY <1>2
  <2>2. PICK q \in 1..Len(ss[k]) : ss[k][q] = y
    BY <1>6, <2>1 DEF Has
  <2>3. PICK p \in 1..Len(s) : s[p] = ss[k][q]
    BY <1>4 DEF Joined
  <2>4. QED BY <2>2, <2>3 DEF Has
<1>7. Led(s)
  BY <1>5 DEF Led
<1>8. QED BY <1>4, <1>6, <1>7 DEF s

-----------------------------------------------------------------------------
(* The statements of `main` and the order of its stages. *)
Preparations(a) ==
    {Do("fill", t) : t \in DOMAIN a.software}
      \cup {Do("set_priority", l) : l \in Lines(a)} \cup {Do("unmask", l) : l \in Lines(a)}
      \cup {Do("new_timer_queue", m) : m \in DOMAIN a.monotonics}
      \cup {Do("sleep_on_exit", "")}

Completions(a) ==
    {Do("write", r) : r \in LiveLate(a)} \cup {Do("store", m) : m \in DOMAIN a.monotonics}

Statements(a) ==
    {Do("disable", "")} \cup Preparations(a) \cup {Do("init", "")} \cup Completions(a)
      \cup {Do("enable", ""), Do(IF a.idle THEN "idle" ELSE "wfi", "")}

Stage(x) ==
    IF x.op = "disable" THEN 0
    ELSE IF x.op \in {"fill", "set_priority", "unmask", "new_timer_queue", "sleep_on_exit"}
    THEN 1
    ELSE IF x.op = "init" THEN 2
    ELSE IF x.op \in {"write", "store"} THEN 3
    ELSE IF x.op = "enable" THEN 4 ELSE 5

(* Stages follow each other, the first statement is `disable` if anything  *)
(* is to be prepared, and there is one last statement, after `enable`.     *)
Ordered(s) ==
    /\ \A j, k \in 1..Len(s) : j < k =>
          /\ Stage(s[j]) <= Stage(s[k])
          /\ Stage(s[j]) \notin {1, 3} => Stage(s[j]) < Stage(s[k])
    /\ Len(s) > 0 /\ Stage(s[Len(s)]) = 5
    /\ Len(s) > 1 => Stage(s[Len(s) - 1]) = 4

(* What has to be done for every element of the application. *)
Complete(a, s) ==
    /\ \A t \in DOMAIN a.software : Has(s, Do("fill", t))
    /\ \A l \in Lines(a) : Has(s, Do("set_priority", l))
    /\ \A m \in DOMAIN a.monotonics :
          Has(s, Do("new_timer_queue", m)) /\ Has(s, Do("store", m))
    /\ \A r \in LiveLate(a) : Has(s, Do("write", r))

LEMMA Finite ==
    ASSUME NEW a \in Apps
    PROVE  /\ IsFiniteSet(DOMAIN a.software) /\ IsFiniteSet(DOMAIN a.hardware)
           /\ IsFiniteSet(DOMAIN a.monotonics) /\ IsFiniteSet(LiveLate(a))
           /\ IsFiniteSet(DOMAIN a.interrupts) /\ IsFiniteSet(Contexts(a))
<1> DEFINE U == Names(a) \cup DOMAIN a.monotonics \cup DOMAIN a.resources
<1>1. IsFiniteSet(U) /\ DOMAIN a.interrupts \subseteq 1..LEVELS /\ LEVELS \in Nat
  BY AppsAssumption DEF WellFormed
<1>2. \A S \in SUBSET U : IsFiniteSet(S)
  BY <1>1, FS_Subset
<1>3. IsFiniteSet(DOMAIN a.interrupts)
  <2>1. 1 \in Int /\ LEVELS \in Int
    BY <1>1
  <2>2. QED BY <1>1, <2>1, FS_Interval, FS_Subset
<1>4. IsFiniteSet(Contexts(a))
  <2> DEFINE N == Names(a)
             I == {"init"}
             J == IF a.idle THEN {"idle"} ELSE {}
  <2>1. IsFiniteSet(N) /\ IsFiniteSet(I) /\ IsFiniteSet(J)
    BY <1>2, FS_Singleton, FS_EmptySet
  <2>2. Contexts(a) = I \cup J \cup N
    BY DEF Contexts
  <2> HIDE DEF N, I, J
  <2>3. QED BY <2>1, <2>2, FS_Union
<1>5. QED BY <1>2, <1>3, <1>4 DEF Names, LiveLate

(* The parts of `main`, one after another. *)
LEMMA OneStatement ==
    ASSUME NEW P, NEW x \in P, x.op # "unmask"
    PROVE  <<x>> \in Seq(P) /\ Led(<<x>>) /\ Has(<<x>>, x)
<1> DEFINE s == <<x>>
<1>1. s \in Seq(P) /\ Len(s) = 1 /\ s[1] = x
  OBVIOUS
<1> HIDE DEF s
<1>2. Led(s) /\ Has(s, x)
  BY <1>1 DEF Led, Has
<1>3. QED BY <1>1, <1>2 DEF s

LEMMA ConfigureIs ==
    ASSUME NEW P, NEW l, Do("set_priority", l) \in P, Do("unmask", l) \in P
    PROVE  /\ Configure(l) \in Seq(P) /\ Led(Configure(l))
           /\ Has(Configure(l), Do("set_priority", l))
<1> DEFINE x == Do("set_priority", l)
           y == Do("unmask", l)
           s == Configure(l)
<1>1. x.op = "set_priority" /\ y.op = "unmask" /\ y.of = l
  BY DEF Do
<1>2. x \in P /\ y \in P
  OBVIOUS
<1>3. s = <<x, y>>
  BY DEF Configure
<1> HIDE DEF x, y, s
<1>4. s \in Seq(P) /\ Len(s) = 2 /\ s[1] = x /\ s[2] = y
  BY <1>2, <1>3
<1>5. \A p \in 1..2 : p = 1 \/ p = 2
  OBVIOUS
<1>6. \A p \in 1..2 : s[p].op = "unmask" => p = 2
  BY <1>1, <1>4, <1>5
<1>7. 1 \in 1..(2 - 1) /\ 1 \in 1..2
  OBVIOUS
<1>8. Led(s)
  BY <1>1, <1>4, <1>6, <1>7 DEF Led, x
<1>9. Has(s, x)
  BY <1>4, <1>7 DEF Has
<1>10. QED BY <1>4, <1>8, <1>9 DEF x, s

LEMMA Fills ==
    ASSUME NEW a \in Apps
    PROVE  LET s == ForEach(DOMAIN a.software, LAMBDA t : <<Do("fill", t)>>)
           IN  /\ s \in Seq(Preparations(a)) /\ Led(s)
               /\ \A t \in DOMAIN a.software : Has(s, Do("fill", t))
<1> DEFINE S == DOMAIN a.software
           code == [t \in S |-> <<Do("fill", t)>>]
           s == ForEach(S, LAMBDA t : <<Do("fill", t)>>)
<1>1. IsFiniteSet(S)
  BY Finite
<1>2. s = Listed(S, code)
  BY <1>1, Enumerated DEF ForEach, Listed
<1>3. ASSUME NEW t \in S
      PROVE  /\ code[t] \in Seq(Preparations(a)) /\ Led(code[t])
             /\ Has(code[t], Do("fill", t))
  <2>1. Do("fill", t) \in Preparations(a) /\ Do("fill", t).op # "unmask"
    BY DEF Preparations, Do
  <2>2. code[t] = <<Do("fill", t)>>
    OBVIOUS
  <2> HIDE DEF code
  <2>3. QED BY <2>1, <2>2, OneStatement
<1> HIDE DEF code, S, s
<1>4. QED BY <1>1, <1>2, <1>3, ListedIs DEF S, s

LEMMA Dispatchers ==
    ASSUME NEW a \in Apps
    PROVE  LET s == ForEach(DOMAIN a.interrupts, LAMBDA p : Configure(a.interrupts[p]))
           IN  /\ s \in Seq(Preparations(a)) /\ Led(s)
               /\ \A l \in Range(a.interrupts) : Has(s, Do("set_priority", l))
<1> DEFINE S == DOMAIN a.interrupts
           code == [p \in S |-> Configure(a.interrupts[p])]
           s == ForEach(S, LAMBDA p : Configure(a.interrupts[p]))
<1>1. IsFiniteSet(S)
  BY Finite
<1>2. s = Listed(S, code)
  BY <1>1, Enumerated DEF ForEach, Listed
<1>3. ASSUME NEW p \in S
      PROVE  /\ code[p] \in Seq(Preparations(a)) /\ Led(code[p])
             /\ Has(code[p], Do("set_priority", a.interrupts[p]))
  <2> DEFINE l == a.interrupts[p]
  <2>1. l \in Lines(a)
    BY DEF Lines, Range
  <2>2. code[p] = Configure(l)
    OBVIOUS
  <2> HIDE DEF code, l
  <2>3. Do("set_priority", l) \in Preparations(a) /\ Do("unmask", l) \in Preparations(a)
    BY <2>1 DEF Preparations
  <2>4. QED BY <2>2, <2>3, ConfigureIs DEF l
<1> HIDE DEF code, s
<1>4. /\ s \in Seq(Preparations(a)) /\ Led(s)
      /\ \A p \in S : Has(s, Do("set_priority", a.interrupts[p]))
  BY <1>1, <1>2, <1>3, ListedIs
<1>5. QED BY <1>4 DEF s, Range

LEMMA HardwareTasks ==
    ASSUME NEW a \in Apps
    PROVE  LET S == {t \in DOMAIN a.hardware : ~(a.hardware[t].binds \in Exceptions)}
               s == ForEach(S, LAMBDA t : Configure(a.hardware[t].binds))
           IN  /\ s \in Seq(Preparations(a)) /\ Led(s)
               /\ \A t \in S : Has(s, Do("set_priority", a.hardware[t].binds))
<1> DEFINE S == {t \in DOMAIN a.hardware : ~(a.hardware[t].binds \in Exceptions)}
           code == [t \in S |-> Configure(a.hardware[t].binds)]
           s == ForEach(S, LAMBDA t : Configure(a.hardware[t].binds))
<1>1. IsFiniteSet(S)
  BY Finite, FS_Subset
<1>2. s = Listed(S, code)
  <2>1. \A t \in S : code[t] = Configure(a.hardware[t].binds)
    OBVIOUS
  <2> HIDE DEF S, code
  <2>2. QED BY <1>1, <2>1, Enumerated DEF ForEach, Listed
<1>3. ASSUME NEW t \in S
      PROVE  /\ code[t] \in Seq(Preparations(a)) /\ Led(code[t])
             /\ Has(code[t], Do("set_priority", a.hardware[t].binds))
  <2> DEFINE l == a.hardware[t].binds
  <2>1. l \in Lines(a)
    BY DEF Lines, Binds
  <2>2. code[t] = Configure(l)
    OBVIOUS
  <2> HIDE DEF code, l
  <2>3. Do("set_priority", l) \in Preparations(a) /\ Do("unmask", l) \in Preparations(a)
    BY <2>1 DEF Preparations
  <2>4. QED BY <2>2, <2>3, ConfigureIs DEF l
<1> HIDE DEF code, S, s
<1>4. /\ s \in Seq(Preparations(a)) /\ Led(s)
      /\ \A t \in S : Has(s, Do("set_priority", a.hardware[t].binds))
  BY <1>1, <1>2, <1>3, ListedIs
<1>5. QED BY <1>4 DEF s, S

LEMMA ExceptionTasks ==
    ASSUME NEW a \in Apps
    PROVE  LET S == {t \in DOMAIN a.hardware : a.hardware[t].binds \in Exceptions}
               s == ForEach(S, LAMBDA t : <<Do("set_priority", a.hardware[t].binds)>>)
           IN  /\ s \in Seq(Preparations(a)) /\ Led(s)
               /\ \A t \in S : Has(s, Do("set_priority", a.hardware[t].binds))
<1> DEFINE S == {t \in DOMAIN a.hardware : a.hardware[t].binds \in Exceptions}
           code == [t \in S |-> <<Do("set_priority", a.hardware[t].binds)>>]
           s == ForEach(S, LAMBDA t : <<Do("set_priority", a.hardware[t].binds)>>)
<1>1. IsFiniteSet(S)
  BY Finite, FS_Subset
<1>2. s = Listed(S, code)
  <2>1. \A t \in S : code[t] = <<Do("set_priority", a.hardware[t].binds)>>
    OBVIOUS
  <2> HIDE DEF S, code
  <2>2. QED BY <1>1, <2>1, Enumerated DEF ForEach, Listed
<1>3. ASSUME NEW t \in S
      PROVE  /\ code[t] \in Seq(Preparations(a)) /\ Led(code[t])
             /\ Has(code[t], Do("set_priority", a.hardware[t].binds))
  <2> DEFINE x == Do("set_priority", a.hardware[t].binds)
  <2>1. a.hardware[t].binds \in Lines(a)
    BY DEF Lines, Binds
  <2>2. x \in Preparations(a) /\ x.op # "unmask"
    BY <2>1 DEF Preparations, Do
  <2>3. code[t] = <<x>>
    OBVIOUS
  <2> HIDE DEF code, x
  <2>4. QED BY <2>2, <2>3, OneStatement DEF x
<1> HIDE DEF code, S, s
<1>4. /\ s \in Seq(Preparations(a)) /\ Led(s)
      /\ \A t \in S : Has(s, Do("set_priority", a.hardware[t].binds))
  BY <1>1, <1>2, <1>3, ListedIs
<1>5. QED BY <1>4 DEF s, S

LEMMA ConfigureMonotonicIs ==
    ASSUME NEW a \in Apps, NEW m \in DOMAIN a.monotonics
    PROVE  LET s == ConfigureMonotonic(a, m)
           IN  /\ s \in Seq(Preparations(a)) /\ Led(s)
               /\ Has(s, Do("new_timer_queue", m))
               /\ Has(s, Do("set_priority", a.monotonics[m].binds))
<1> DEFINE P == Preparations(a)
           l == a.monotonics[m].binds
           x == Do("new_timer_queue", m)
           y == Do("set_priority", l)
           z == Do("unmask", l)
           s == ConfigureMonotonic(a, m)
<1>1. l \in Lines(a)
  BY DEF Lines, Binds
<1>2. x \in P /\ y \in P /\ z \in P
  BY <1>1 DEF Preparations
<1>3. x.op # "unmask" /\ y.op # "unmask"
  BY DEF Do
<1>4. <<x, y>> = <<x>> \o <<y>> /\ <<y>> \o <<z>> = Configure(l)
  <2>1. ASSUME NEW u, NEW v PROVE <<u>> \o <<v>> = <<u, v>>
    <3> DEFINE b == <<u>>
               c == <<v>>
               d == <<u, v>>
               X == {u, v}
    <3>1. /\ b \in Seq(X) /\ Len(b) = 1 /\ b[1] = u
          /\ c \in Seq(X) /\ Len(c) = 1 /\ c[1] = v
          /\ d \in Seq(X) /\ Len(d) = 2 /\ d[1] = u /\ d[2] = v
      OBVIOUS
    <3> HIDE DEF b, c, d, X
    <3>2. /\ b \o c \in Seq(X) /\ Len(b \o c) = 2
          /\ (b \o c)[1] = u /\ (b \o c)[2] = v
      BY <3>1, ConcatProperties
    <3>3. \A i \in 1..2 : i = 1 \/ i = 2
      OBVIOUS
    <3>4. b \o c = d
      BY <3>1, <3>2, <3>3, SeqEqual
    <3>5. QED BY <3>4 DEF b, c, d
  <2>2. QED BY <2>1 DEF Configure
<1>5. \/ s = <<x>> \o <<y>>
      \/ s = <<x>> \o Configure(l)
  <2>1. CASE a.monotonics[m].disable
    <3>1. s = <<x, y>> \o <<>>
      BY <2>1 DEF ConfigureMonotonic
    <3>2. <<x, y>> \o <<>> = <<x, y>>
      OBVIOUS
    <3>3. QED BY <1>4, <3>1, <3>2
  <2>2. CASE ~a.monotonics[m].disable
    <3>1. s = <<x, y>> \o <<z>>
      BY <2>2 DEF ConfigureMonotonic
    <3> HIDE DEF s, x, y, z, P
    <3>2. <<x>> \in Seq(P) /\ <<y>> \in Seq(P) /\ <<z>> \in Seq(P)
      BY <1>2
    <3>3. (<<x>> \o <<y>>) \o <<z>> = <<x>> \o (<<y>> \o <<z>>)
      BY <3>2, ConcatAssociative
    <3>4. QED BY <1>4, <3>1, <3>3
  <2>3. QED BY <2>1, <2>2
<1> HIDE DEF s, x, z, P
<1>6. /\ <<x>> \in Seq(P) /\ Led(<<x>>) /\ Has(<<x>>, x)
      /\ <<y>> \in Seq(P) /\ Led(<<y>>) /\ Has(<<y>>, y)
  BY <1>2, <1>3, OneStatement
<1>7. Configure(l) \in Seq(P) /\ Led(Configure(l)) /\ Has(Configure(l), y)
  BY <1>2, ConfigureIs DEF z
<1> HIDE DEF y
<1> DEFINE u == <<x>>
<1>8. ASSUME NEW v \in Seq(P), Led(v), Has(v, y), s = <<x>> \o v
      PROVE  s \in Seq(P) /\ Led(s) /\ Has(s, x) /\ Has(s, y)
  <2>1. u \in Seq(P) /\ Led(u) /\ Has(u, x) /\ s = u \o v
    BY <1>6, <1>8
  <2> HIDE DEF u
  <2>2. s \in Seq(P)
    BY <2>1, PlacesJoined
  <2>3. Led(s)
    BY <1>8, <2>1, LedJoined
  <2>4. Has(s, x) /\ Has(s, y)
    BY <1>8, <2>1, HasJoined
  <2>5. QED BY <2>2, <2>3, <2>4
<1>9. s \in Seq(P) /\ Led(s) /\ Has(s, x) /\ Has(s, y)
  BY <1>5, <1>6, <1>7, <1>8
<1>10. QED BY <1>9 DEF s, x, y, P

LEMMA TimerQueues ==
    ASSUME NEW a \in Apps
    PROVE  LET s == ForEach(DOMAIN a.monotonics, LAMBDA m : ConfigureMonotonic(a, m))
           IN  /\ s \in Seq(Preparations(a)) /\ Led(s)
               /\ \A m \in DOMAIN a.monotonics :
                     /\ Has(s, Do("new_timer_queue", m))
                     /\ Has(s, Do("set_priority", a.monotonics[m].binds))
<1> DEFINE S == DOMAIN a.monotonics
           code == [m \in S |-> ConfigureMonotonic(a, m)]
           s == ForEach(S, LAMBDA m : ConfigureMonotonic(a, m))
<1>1. IsFiniteSet(S)
  BY Finite
<1>2. s = Listed(S, code)
  BY <1>1, Enumerated DEF ForEach, Listed
<1>3. ASSUME NEW m \in S
      PROVE  /\ code[m] \in Seq(Preparations(a)) /\ Led(code[m])
             /\ Has(code[m], Do("new_timer_queue", m))
             /\ Has(code[m], Do("set_priority", a.monotonics[m].binds))
  BY ConfigureMonotonicIs
<1> HIDE DEF code, S, s
<1>4. /\ s \in Seq(Preparations(a)) /\ Led(s)
      /\ \A m \in S : /\ Has(s, Do("new_timer_queue", m))
                      /\ Has(s, Do("set_priority", a.monotonics[m].binds))
  BY <1>1, <1>2, <1>3, ListedIs
<1>5. QED BY <1>4 DEF s, S

LEMMA Writes ==
    ASSUME NEW a \in Apps
    PROVE  LET s == ForEach(LiveLate(a), LAMBDA r : <<Do("write", r)>>)
           IN  /\ s \in Seq(Completions(a)) /\ Led(s)
               /\ \A r \in LiveLate(a) : Has(s, Do("write", r))
<1> DEFINE S == LiveLate(a)
           code == [r \in S |-> <<Do("write", r)>>]
           s == ForEach(S, LAMBDA r : <<Do("write", r)>>)
<1>1. IsFiniteSet(S)
  BY Finite
<1>2. s = Listed(S, code)
  BY <1>1, Enumerated DEF ForEach, Listed
<1>3. ASSUME NEW r \in S
      PROVE  /\ code[r] \in Seq(Completions(a)) /\ Led(code[r])
             /\ Has(code[r], Do("write", r))
  <2>1. Do("write", r) \in Completions(a) /\ Do("write", r).op # "unmask"
    BY DEF Completions, Do
  <2>2. code[r] = <<Do("write", r)>>
    OBVIOUS
  <2> HIDE DEF code
  <2>3. QED BY <2>1, <2>2, OneStatement
<1> HIDE DEF code, S, s
<1>4. QED BY <1>1, <1>2, <1>3, ListedIs DEF S, s

LEMMA Stores ==
    ASSUME NEW a \in Apps
    PROVE  LET s == ForEach(DOMAIN a.monotonics, LAMBDA m : <<Do("store", m)>>)
           IN  /\ s \in Seq(Completions(a)) /\ Led(s)
               /\ \A m \in DOMAIN a.monotonics : Has(s, Do("store", m))
<1> DEFINE S == DOMAIN a.monotonics
           code == [m \in S |-> <<Do("store", m)>>]
           s == ForEach(S, LAMBDA m : <<Do("store", m)>>)
<1>1. IsFiniteSet(S)
  BY Finite
<1>2. s = Listed(S, code)
  BY <1>1, Enumerated DEF ForEach, Listed
<1>3. ASSUME NEW m \in S
      PROVE  /\ code[m] \in Seq(Completions(a)) /\ Led(code[m])
             /\ Has(code[m], Do("store", m))
  <2>1. Do("store", m) \in Completions(a) /\ Do("store", m).op # "unmask"
    BY DEF Completions, Do
  <2>2. code[m] = <<Do("store", m)>>
    OBVIOUS
  <2> HIDE DEF code
  <2>3. QED BY <2>1, <2>2, OneStatement
<1> HIDE DEF code, S, s
<1>4. QED BY <1>1, <1>2, <1>3, ListedIs DEF S, s

(* PreInit: `disable`, and then preparations. *)
Opens(a, s) ==
    /\ s \in Seq(Statements(a)) /\ Led(s)
    /\ Len(s) > 0 /\ s[1] = Do("disable", "")
    /\ \A k \in 2..Len(s) : s[k] \in Preparations(a)

LEMMA OpensOn ==
    ASSUME NEW a, NEW u, Opens(a, u),
           NEW v \in Seq(Preparations(a)), Led(v)
    PROVE  /\ Opens(a, u \o v)
           /\ \A x : Has(u, x) \/ Has(v, x) => Has(u \o v, x)
<1> DEFINE X == Statements(a)
           t == u \o v
<1>1. u \in Seq(X) /\ v \in Seq(X)
  BY SeqMonotonic DEF Opens, Statements
<1>2. t \in Seq(X) /\ Led(t) /\ \A x : Has(u, x) \/ Has(v, x) => Has(t, x)
  BY <1>1, PlacesJoined, LedJoined, HasJoined DEF Opens
<1>3. /\ Len(u) \in Nat /\ Len(v) \in Nat /\ Len(t) = Len(u) + Len(v)
      /\ \A i \in 1..Len(u) : t[i] = u[i] /\ i \in 1..Len(t)
      /\ \A i \in 1..Len(t) : i \notin 1..Len(u) => i - Len(u) \in 1..Len(v)
      /\ \A i \in 1..Len(t) : i \notin 1..Len(u) => t[i] = v[i - Len(u)]
  BY <1>1, PlacesJoined
<1> HIDE DEF t, X
<1>4. Len(u) > 0 /\ u[1] = Do("disable", "") /\ \A k \in 2..Len(u) : u[k] \in Preparations(a)
  BY DEF Opens
<1>5. Len(t) > 0 /\ t[1] = Do("disable", "")
  <2>1. 1 \in 1..Len(u) /\ Len(t) > 0
    <3>1. Len(u) \in Nat /\ Len(v) \in Nat /\ Len(t) = Len(u) + Len(v) /\ Len(u) > 0
      BY <1>3, <1>4
    <3>2. QED BY <3>1
  <2>2. t[1] = u[1]
    BY <1>3, <2>1
  <2>3. QED BY <1>4, <2>1, <2>2
<1>6. ASSUME NEW k \in 2..Len(t) PROVE t[k] \in Preparations(a)
  <2>1. k \in 1..Len(t)
    BY <1>3
  <2>2. CASE k \in 1..Len(u)
    <3>1. k \in 2..Len(u)
      BY <1>3, <2>2
    <3>2. QED BY <1>3, <1>4, <2>2, <3>1
  <2>3. CASE k \notin 1..Len(u)
    <3>1. k - Len(u) \in 1..Len(v) /\ t[k] = v[k - Len(u)]
      BY <1>3, <2>1, <2>3
    <3>2. QED BY <3>1, ElementOfSeq
  <2>4. QED BY <2>2, <2>3
<1>7. QED BY <1>2, <1>5, <1>6 DEF Opens, t, X

LEMMA PreInitIs ==
    ASSUME NEW a \in Apps
    PROVE  /\ Opens(a, PreInit(a))
           /\ \A t \in DOMAIN a.software : Has(PreInit(a), Do("fill", t))
           /\ \A l \in Lines(a) : Has(PreInit(a), Do("set_priority", l))
           /\ \A m \in DOMAIN a.monotonics : Has(PreInit(a), Do("new_timer_queue", m))
<1> DEFINE E == {t \in DOMAIN a.hardware : a.hardware[t].binds \in Exceptions}
           M == {t \in DOMAIN a.hardware : ~(a.hardware[t].binds \in Exceptions)}
           d == <<Do("disable", "")>>
           F == ForEach(DOMAIN a.software, LAMBDA t : <<Do("fill", t)>>)
           I == ForEach(DOMAIN a.interrupts, LAMBDA p : Configure(a.interrupts[p]))
           H == ForEach(M, LAMBDA t : Configure(a.hardware[t].binds))
           X == ForEach(E, LAMBDA t : <<Do("set_priority", a.hardware[t].binds)>>)
           N == ForEach(DOMAIN a.monotonics, LAMBDA m : ConfigureMonotonic(a, m))
           S == SleepOnExit(a)
<1>1. PreInit(a) = (((((d \o F) \o I) \o H) \o X) \o N) \o S
  BY DEF PreInit
<1>2. /\ F \in Seq(Preparations(a)) /\ Led(F)
      /\ \A t \in DOMAIN a.software : Has(F, Do("fill", t))
  BY Fills
<1>3. /\ I \in Seq(Preparations(a)) /\ Led(I)
      /\ \A l \in Range(a.interrupts) : Has(I, Do("set_priority", l))
  BY Dispatchers
<1>4. /\ H \in Seq(Preparations(a)) /\ Led(H)
      /\ \A t \in M : Has(H, Do("set_priority", a.hardware[t].binds))
  BY HardwareTasks
<1>5. /\ X \in Seq(Preparations(a)) /\ Led(X)
      /\ \A t \in E : Has(X, Do("set_priority", a.hardware[t].binds))
  BY ExceptionTasks
<1>6. /\ N \in Seq(Preparations(a)) /\ Led(N)
      /\ \A m \in DOMAIN a.monotonics :
            /\ Has(N, Do("new_timer_queue", m))
            /\ Has(N, Do("set_priority", a.monotonics[m].binds))
  BY TimerQueues
<1>7. S \in Seq(Preparations(a)) /\ Led(S)
  <2>1. CASE a.idle
    BY <2>1 DEF SleepOnExit, Led
  <2>2. CASE ~a.idle
    <3> DEFINE x == Do("sleep_on_exit", "")
    <3>1. x \in Preparations(a) /\ x.op # "unmask" /\ S = <<x>>
      BY <2>2 DEF Preparations, SleepOnExit, Do
    <3> HIDE DEF x, S
    <3>2. QED BY <3>1, OneStatement
  <2>3. QED BY <2>1, <2>2
<1>8. Opens(a, d)
  <2> DEFINE x == Do("disable", "")
  <2>1. x \in Statements(a) /\ x.op # "unmask" /\ d = <<x>>
    BY DEF Statements, Do
  <2> HIDE DEF d, x
  <2>2. Len(d) = 1 /\ d[1] = x
    BY <2>1
  <2>3. d \in Seq(Statements(a)) /\ Led(d)
    BY <2>1, OneStatement
  <2>4. Len(d) > 0 /\ \A k \in 2..Len(d) : FALSE
    BY <2>2
  <2>5. QED BY <2>2, <2>3, <2>4 DEF Opens, x
<1> DEFINE u1 == d \o F
           u2 == u1 \o I
           u3 == u2 \o H
           u4 == u3 \o X
           u5 == u4 \o N
           u6 == u5 \o S
<1>9. u6 = PreInit(a)
  BY <1>1
<1> HIDE DEF F, I, H, X, N, S, d
<1>10. Opens(a, u1) /\ \A x : Has(F, x) => Has(u1, x)
  BY <1>2, <1>8, OpensOn
<1> HIDE DEF u1
<1>11. Opens(a, u2) /\ \A x : Has(u1, x) \/ Has(I, x) => Has(u2, x)
  BY <1>3, <1>10, OpensOn
<1> HIDE DEF u2
<1>12. Opens(a, u3) /\ \A x : Has(u2, x) \/ Has(H, x) => Has(u3, x)
  BY <1>4, <1>11, OpensOn
<1> HIDE DEF u3
<1>13. Opens(a, u4) /\ \A x : Has(u3, x) \/ Has(X, x) => Has(u4, x)
  BY <1>5, <1>12, OpensOn
<1> HIDE DEF u4
<1>14. Opens(a, u5) /\ \A x : Has(u4, x) \/ Has(N, x) => Has(u5, x)
  BY <1>6, <1>13, OpensOn
<1> HIDE DEF u5
<1>15. Opens(a, u6) /\ \A x : Has(u5, x) \/ Has(S, x) => Has(u6, x)
  BY <1>7, <1>14, OpensOn
<1> HIDE DEF u6
<1>16. \A x : Has(F, x) \/ Has(I, x) \/ Has(H, x) \/ Has(X, x) \/ Has(N, x) => Has(u6, x)
  BY <1>10, <1>11, <1>12, <1>13, <1>14, <1>15
<1>17. ASSUME NEW l \in Lines(a) PROVE Has(u6, Do("set_priority", l))
  <2>1. CASE l \in Range(a.interrupts)
    BY <1>3, <1>16, <2>1
  <2>2. CASE l \in Binds(a.hardware)
    <3>1. PICK t \in DOMAIN a.hardware : l = a.hardware[t].binds
      BY <2>2 DEF Binds
    <3>2. t \in M \/ t \in E
      OBVIOUS
    <3> HIDE DEF M, E
    <3>3. QED BY <1>4, <1>5, <1>16, <3>1, <3>2
  <2>3. CASE l \in Binds(a.monotonics)
    <3>1. PICK m \in DOMAIN a.monotonics : l = a.monotonics[m].binds
      BY <2>3 DEF Binds
    <3>2. QED BY <1>6, <1>16, <3>1
  <2>4. QED BY <2>1, <2>2, <2>3 DEF Lines
<1>18. QED BY <1>2, <1>6, <1>9, <1>15, <1>16, <1>17

(* The whole of `main`. *)
LEMMA MainIs ==
    ASSUME NEW a \in Apps
    PROVE  /\ Main(a) \in Seq(Statements(a)) /\ Led(Main(a)) /\ Ordered(Main(a))
           /\ Complete(a, Main(a))
           /\ Len(Main(a)) > 1 /\ Main(a)[1].op = "disable"
<1> DEFINE X == Statements(a)
           u == PreInit(a)
           i == <<Do("init", "")>>
           W == ForEach(LiveLate(a), LAMBDA r : <<Do("write", r)>>)
           M == ForEach(DOMAIN a.monotonics, LAMBDA m : <<Do("store", m)>>)
           w == W \o M
           e == <<Do("enable", "")>>
           c == CallIdle(a)
           q == w \o e
           s1 == u \o i
           s2 == s1 \o q
           s == s2 \o c
<1>1. s = Main(a)
  BY DEF Main, PostInit
<1>2. /\ Opens(a, u)
      /\ \A t \in DOMAIN a.software : Has(u, Do("fill", t))
      /\ \A l \in Lines(a) : Has(u, Do("set_priority", l))
      /\ \A m \in DOMAIN a.monotonics : Has(u, Do("new_timer_queue", m))
  BY PreInitIs
<1>3. u \in Seq(X) /\ Led(u)
  BY <1>2 DEF Opens
<1>4. i \in Seq(X) /\ Led(i) /\ e \in Seq(X) /\ Led(e) /\ c \in Seq(X) /\ Led(c)
  <2> DEFINE x == Do(IF a.idle THEN "idle" ELSE "wfi", "")
  <2>1. /\ Do("init", "") \in X /\ Do("init", "").op # "unmask"
        /\ Do("enable", "") \in X /\ Do("enable", "").op # "unmask"
        /\ x \in X /\ x.op # "unmask" /\ c = <<x>>
    BY DEF Statements, Do, CallIdle
  <2> HIDE DEF X, c, x
  <2>2. i \in Seq(X) /\ Led(i)
    BY <2>1, OneStatement
  <2>3. e \in Seq(X) /\ Led(e)
    BY <2>1, OneStatement
  <2>4. c \in Seq(X) /\ Led(c)
    BY <2>1, OneStatement
  <2>5. QED BY <2>2, <2>3, <2>4
<1>5. /\ Len(i) = 1 /\ i[1] = Do("init", "")
      /\ Len(e) = 1 /\ e[1] = Do("enable", "")
      /\ Len(c) = 1 /\ c[1] = Do(IF a.idle THEN "idle" ELSE "wfi", "")
  BY DEF CallIdle
<1>6. /\ W \in Seq(Completions(a)) /\ Led(W)
      /\ \A r \in LiveLate(a) : Has(W, Do("write", r))
  BY Writes
<1>7. /\ M \in Seq(Completions(a)) /\ Led(M)
      /\ \A m \in DOMAIN a.monotonics : Has(M, Do("store", m))
  BY Stores
<1>8. Completions(a) \subseteq X
  BY DEF Statements
<1> HIDE DEF W, M, u, i, e, c, X
<1>9. /\ w \in Seq(Completions(a)) /\ Led(w)
      /\ \A x : Has(W, x) \/ Has(M, x) => Has(w, x)
  BY <1>6, <1>7, PlacesJoined, LedJoined, HasJoined
<1> HIDE DEF w
<1>10. w \in Seq(X)
  BY <1>8, <1>9, SeqMonotonic
<1>11. q \in Seq(X) /\ Led(q) /\ \A x : Has(w, x) => Has(q, x)
  BY <1>4, <1>9, <1>10, PlacesJoined, LedJoined, HasJoined
<1>12. s1 \in Seq(X) /\ Led(s1) /\ \A x : Has(u, x) => Has(s1, x)
  BY <1>3, <1>4, PlacesJoined, LedJoined, HasJoined
<1>13. /\ Len(q) = Len(w) + 1 /\ Len(s1) = Len(u) + 1
       /\ Len(w) \in Nat /\ Len(u) \in Nat
       /\ \A k \in 1..(Len(w) + 1) : q[k] = IF k <= Len(w) THEN w[k] ELSE e[k - Len(w)]
       /\ \A k \in 1..(Len(u) + 1) : s1[k] = IF k <= Len(u) THEN u[k] ELSE i[k - Len(u)]
  <2>1. /\ Len(q) = Len(w) + Len(e)
        /\ \A k \in 1..(Len(w) + Len(e)) :
              q[k] = IF k <= Len(w) THEN w[k] ELSE e[k - Len(w)]
    BY <1>4, <1>10, ConcatProperties
  <2>2. /\ Len(s1) = Len(u) + Len(i)
        /\ \A k \in 1..(Len(u) + Len(i)) :
              s1[k] = IF k <= Len(u) THEN u[k] ELSE i[k - Len(u)]
    BY <1>3, <1>4, ConcatProperties
  <2>3. Len(w) \in Nat /\ Len(u) \in Nat
    BY <1>3, <1>10, LenProperties
  <2> HIDE DEF q, s1
  <2>4. QED BY <1>5, <2>1, <2>2, <2>3
<1> HIDE DEF q, s1
<1>14. s2 \in Seq(X) /\ Led(s2) /\ \A x : Has(s1, x) \/ Has(q, x) => Has(s2, x)
  BY <1>11, <1>12, PlacesJoined, LedJoined, HasJoined
<1>15. /\ Len(s2) = Len(u) + Len(w) + 2
       /\ \A k \in 1..(Len(s1) + Len(q)) :
             s2[k] = IF k <= Len(s1) THEN s1[k] ELSE q[k - Len(s1)]
  <2>1. /\ Len(s2) = Len(s1) + Len(q)
        /\ \A k \in 1..(Len(s1) + Len(q)) :
             s2[k] = IF k <= Len(s1) THEN s1[k] ELSE q[k - Len(s1)]
    BY <1>11, <1>12, ConcatProperties
  <2> HIDE DEF s2
  <2>2. QED BY <1>13, <2>1
<1> HIDE DEF s2
<1>16. s \in Seq(X) /\ Led(s) /\ \A x : Has(s2, x) => Has(s, x)
  BY <1>4, <1>14, PlacesJoined, LedJoined, HasJoined
<1>17. /\ Len(s) = Len(u) + Len(w) + 3
       /\ \A k \in 1..(Len(s2) + 1) : s[k] = IF k <= Len(s2) THEN s2[k] ELSE c[k - Len(s2)]
  <2>1. /\ Len(s) = Len(s2) + Len(c)
        /\ \A k \in 1..(Len(s2) + Len(c)) :
              s[k] = IF k <= Len(s2) THEN s2[k] ELSE c[k - Len(s2)]
    BY <1>4, <1>14, ConcatProperties
  <2>2. Len(c) = 1 /\ Len(s2) = Len(u) + Len(w) + 2 /\ Len(u) \in Nat /\ Len(w) \in Nat
    BY <1>5, <1>13, <1>15
  <2> HIDE DEF s
  <2>3. QED BY <2>1, <2>2
<1> HIDE DEF s
<1> DEFINE n == Len(u)
           m == Len(w)
<1>18. Len(u) > 0 /\ u[1] = Do("disable", "") /\ \A k \in 2..n : u[k] \in Preparations(a)
  BY <1>2 DEF Opens
<1>19. /\ s[1] = Do("disable", "")
       /\ \A k \in 2..n : s[k] \in Preparations(a)
       /\ s[n + 1] = Do("init", "")
       /\ \A k \in (n + 2)..(n + m + 1) : s[k] \in Completions(a)
       /\ s[n + m + 2] = Do("enable", "")
       /\ s[n + m + 3] = Do(IF a.idle THEN "idle" ELSE "wfi", "")
  <2>1. ASSUME NEW k \in 1..(n + 1) PROVE s[k] = IF k <= n THEN u[k] ELSE i[1]
    <3>1. /\ k \in 1..(Len(s2) + 1) /\ k <= Len(s2) /\ k <= Len(s1)
          /\ k \in 1..(Len(s1) + Len(q)) /\ (~(k <= n) => k - n = 1)
      BY <1>13, <1>15
    <3>2. QED BY <1>13, <1>15, <1>17, <3>1
  <2>2. ASSUME NEW k \in 1..(m + 1) PROVE s[n + 1 + k] = IF k <= m THEN w[k] ELSE e[1]
    <3> DEFINE j == n + 1 + k
    <3>1. /\ j \in 1..(Len(s2) + 1) /\ j <= Len(s2) /\ ~(j <= Len(s1))
          /\ j \in 1..(Len(s1) + Len(q)) /\ (~(k <= m) => k - m = 1)
          /\ j - Len(s1) = k
      BY <1>13, <1>15
    <3>2. q[k] = IF k <= m THEN w[k] ELSE e[1]
      BY <1>13, <3>1
    <3> HIDE DEF j
    <3>3. s[j] = q[k]
      BY <1>15, <1>17, <3>1
    <3>4. QED BY <3>2, <3>3 DEF j
  <2>3. s[n + m + 3] = c[1]
    <3> DEFINE j == n + m + 3
    <3>1. j \in 1..(Len(s2) + 1) /\ ~(j <= Len(s2)) /\ j - Len(s2) = 1
      BY <1>13, <1>15
    <3> HIDE DEF j
    <3>2. QED BY <1>17, <3>1 DEF j
  <2>4. n \in Nat /\ m \in Nat
    BY <1>13
  <2>5. ASSUME NEW k \in (n + 2)..(n + m + 1) PROVE s[k] \in Completions(a)
    <3> DEFINE j == k - n - 1
    <3>1. j \in 1..m /\ j \in 1..(m + 1) /\ j <= m /\ n + 1 + j = k
      BY <2>4
    <3> HIDE DEF j
    <3>2. s[k] = w[j] /\ w[j] \in Completions(a)
      BY <1>9, <2>2, <3>1, ElementOfSeq
    <3>3. QED BY <3>2
  <2>6. s[n + m + 2] = Do("enable", "")
    <3>1. m + 1 \in 1..(m + 1) /\ ~(m + 1 <= m) /\ n + 1 + (m + 1) = n + m + 2
      BY <2>4
    <3>2. QED BY <1>5, <2>2, <3>1
  <2>7. ASSUME NEW k \in 2..n PROVE s[k] \in Preparations(a)
    <3>1. k \in 1..(n + 1) /\ k <= n
      BY <2>4
    <3>2. QED BY <1>18, <2>1, <3>1
  <2>8. s[1] = Do("disable", "") /\ s[n + 1] = Do("init", "")
    <3>1. /\ 1 \in 1..(n + 1) /\ 1 <= n
          /\ n + 1 \in 1..(n + 1) /\ ~(n + 1 <= n)
      <4>1. n > 0
        BY <1>18
      <4> HIDE DEF n, m
      <4>2. QED BY <2>4, <4>1
    <3>2. u[1] = Do("disable", "") /\ i[1] = Do("init", "")
      BY <1>5, <1>18
    <3>3. QED BY <2>1, <3>1, <3>2
  <2>9. QED BY <1>5, <2>3, <2>5, <2>6, <2>7, <2>8
<1>20. Ordered(s) /\ Len(s) > 1
  <2> DEFINE g == [k \in 1..Len(s) |-> Stage(s[k])]
  <2>1. /\ \A x \in Preparations(a) : Stage(x) = 1
        /\ \A x \in Completions(a) : Stage(x) = 3
        /\ Stage(Do("disable", "")) = 0 /\ Stage(Do("init", "")) = 2
        /\ Stage(Do("enable", "")) = 4
        /\ Stage(Do(IF a.idle THEN "idle" ELSE "wfi", "")) = 5
    <3>1. \A x \in Preparations(a) :
             x.op \in {"fill", "set_priority", "unmask", "new_timer_queue", "sleep_on_exit"}
      <4>1. ASSUME NEW t
            PROVE  /\ Do("fill", t).op = "fill" /\ Do("set_priority", t).op = "set_priority"
                   /\ Do("unmask", t).op = "unmask"
                   /\ Do("new_timer_queue", t).op = "new_timer_queue"
                   /\ Do("sleep_on_exit", t).op = "sleep_on_exit"
        BY DEF Do
      <4>2. QED BY <4>1 DEF Preparations
    <3>2. \A x \in Completions(a) : x.op \in {"write", "store"}
      BY DEF Do, Completions
    <3>3. /\ Do("disable", "").op = "disable" /\ Do("init", "").op = "init"
          /\ Do("enable", "").op = "enable"
          /\ Do(IF a.idle THEN "idle" ELSE "wfi", "").op \in {"idle", "wfi"}
      BY DEF Do
    <3>4. QED BY <3>1, <3>2, <3>3 DEF Stage
  <2>2. n \in Nat /\ m \in Nat /\ n > 0 /\ Len(s) = n + m + 3
    BY <1>13, <1>17, <1>18
  <2>3. /\ Stage(s[1]) = 0
        /\ \A k \in 2..n : Stage(s[k]) = 1
        /\ Stage(s[n + 1]) = 2
        /\ \A k \in (n + 2)..(n + m + 1) : Stage(s[k]) = 3
        /\ Stage(s[n + m + 2]) = 4 /\ Stage(s[n + m + 3]) = 5
    BY <1>19, <2>1
  <2>4. /\ g[1] = 0
        /\ \A k \in 2..n : g[k] = 1
        /\ g[n + 1] = 2
        /\ \A k \in (n + 2)..(n + m + 1) : g[k] = 3
        /\ g[n + m + 2] = 4 /\ g[n + m + 3] = 5
    BY <2>2, <2>3
  <2>5. \A k \in 1..Len(s) : g[k] = Stage(s[k])
    OBVIOUS
  <2> HIDE DEF g, n, m
  <2>6. \A j, k \in 1..Len(s) : j < k =>
           g[j] <= g[k] /\ (g[j] \notin {1, 3} => g[j] < g[k])
    BY <2>2, <2>4
  <2>7. /\ Len(s) > 1 /\ Len(s) \in 1..Len(s) /\ Len(s) - 1 \in 1..Len(s)
        /\ Len(s) = n + m + 3 /\ Len(s) - 1 = n + m + 2
    BY <2>2
  <2>8. g[Len(s)] = 5 /\ g[Len(s) - 1] = 4
    BY <2>4, <2>7
  <2>9. QED BY <2>5, <2>6, <2>7, <2>8 DEF Ordered
<1>21. Complete(a, s)
  <2>1. \A x : Has(u, x) \/ Has(W, x) \/ Has(M, x) => Has(s, x)
    BY <1>9, <1>11, <1>12, <1>14, <1>16
  <2>2. QED BY <1>2, <1>6, <1>7, <2>1 DEF Complete
<1>22. s[1].op = "disable"
  <2>1. s[1] = Do("disable", "")
    BY <1>19
  <2>2. Do("disable", "").op = "disable"
    BY DEF Do
  <2>3. QED BY <2>1, <2>2
<1>23. QED BY <1>1, <1>16, <1>20, <1>21, <1>22 DEF X

-----------------------------------------------------------------------------
(* The inductive invariant.  What is left of `main` keeps the order of the *)
(* whole, and what has to be done is either done or still left.            *)
Steps == app \in Apps /\ main \in Seq(Statements(app)) /\ Ordered(main)

Configured ==
    /\ level \in [Lines(app) -> 0..LEVELS]
    /\ unmasked \cup pended \subseteq Lines(app)
    /\ \A l \in Lines(app) :
          level[l] = Declared(app, l) \/ Has(main, Do("set_priority", l))
    /\ \A p \in 1..Len(main) : main[p].op = "unmask" =>
          \/ level[main[p].of] = Declared(app, main[p].of)
          \/ \E j \in 1..(p - 1) : main[j] = Do("set_priority", main[p].of)
    /\ \A l \in unmasked \cup (pended \cap Exceptions) : level[l] = Declared(app, l)

Supplied ==
    /\ tqs \cup mono \subseteq DOMAIN app.monotonics
    /\ late \subseteq DOMAIN app.resources
    /\ \A m \in DOMAIN app.monotonics : m \in tqs \/ Has(main, Do("new_timer_queue", m))
    /\ \A m \in DOMAIN app.monotonics : m \in mono \/ Has(main, Do("store", m))
    /\ \A r \in LiveLate(app) : r \in late \/ Has(main, Do("write", r))

(* The slots of a task that are in its free queue or under way. *)
Waiting(t) == MapThenSumSet(LAMBDA m : scheduled[m][t], DOMAIN app.monotonics)
Slots(t) == free[t] + ready[t] + Waiting(t)

Counted ==
    /\ free \in [DOMAIN app.software -> Nat] /\ ready \in [DOMAIN app.software -> Nat]
    /\ scheduled \in [DOMAIN app.monotonics -> [DOMAIN app.software -> Nat]]
    /\ \A t \in DOMAIN app.software :
          Slots(t) = app.software[t].capacity \/ Has(main, Do("fill", t))
    /\ Stage(main[1]) < 2 =>
          \A t \in DOMAIN app.software :
             ready[t] = 0 /\ \A m \in DOMAIN app.monotonics : scheduled[m][t] = 0

(* Before the last statement of `main` nothing is interrupted: at first    *)
(* because nothing is unmasked, then by PRIMASK.                           *)
Phases ==
    /\ main[1].op = "disable" => unmasked = {} /\ pended \cap Exceptions = {}
    /\ Len(main) > 1 /\ main[1].op # "disable" => primask
    /\ Len(main) > 1 => Len(stack) = 1
    /\ stack[1].context = "init" => main[1].op = "init"
    /\ stack[1].context = "idle" => Len(main) = 1
    /\ {primask, asleep, sleeponexit} \subseteq BOOLEAN
    /\ events \in 0..MaxEvents
    /\ failed # "nothing" =>
          failed \in {"now", "reschedule_after"} /\ stack[1].context = "init"

(* What a context may lock. *)
Lockable(a, c) ==
    {r \in DOMAIN a.resources : c \in Contexts(a) /\ r \in Proxies(a, c)}

(* A handler above the first frame belongs to its line, *)
Handler(a, f) ==
    /\ f.line \in Lines(a)
    /\ \/ f.context = "timer" /\ f.line \in Binds(a.monotonics)
       \/ f.context = "dispatcher" /\ f.line \in Range(a.interrupts)
       \/ /\ f.context \in DOMAIN a.software /\ f.line \in Range(a.interrupts)
          /\ PRIORITY(a, f.context) = Declared(a, f.line)
       \/ /\ f.context \in DOMAIN a.hardware
          /\ PRIORITY(a, f.context) = Declared(a, f.line)

(* and is above whatever the frames below it run at and have locked.       *)
Frames ==
    /\ stack \in Seq([line : {"main"} \cup Lines(app),
                      context : Contexts(app) \cup {"main", "dispatcher", "timer"},
                      locked : Seq(DOMAIN app.resources)])
    /\ Len(stack) > 0
    /\ stack[1].line = "main" /\ stack[1].context \in {"main", "init", "idle"}
    /\ \A i \in 2..Len(stack) : Handler(app, stack[i])
    /\ \A i \in 1..Len(stack) : stack[i].locked \in Seq(Lockable(app, stack[i].context))
    /\ \A i, j \in 1..Len(stack) : i < j =>
          /\ i > 1 => level[stack[i].line] < level[stack[j].line]
          /\ \A r \in Range(stack[i].locked) : Ceiling(app, r) < level[stack[j].line]

StartInv == Steps /\ Configured /\ Supplied /\ Counted /\ Phases /\ Frames

-----------------------------------------------------------------------------
(* What an ordered sequence of statements has left. *)
LEMMA Sizes ==
    \A n \in Nat : n > 0 => (n = 1 \/ n > 1) /\ (n = 1 \/ n = 2 \/ n > 2) /\ n \in Nat \ {0}
OBVIOUS

LEMMA StageType == \A x : Stage(x) \in 0..5
BY DEF Stage

LEMMA StageOf ==
    \A x : /\ x.op = "disable" <=> Stage(x) = 0
           /\ x.op = "init" <=> Stage(x) = 2
           /\ x.op = "enable" <=> Stage(x) = 4
           /\ x.op \in {"fill", "set_priority", "unmask", "new_timer_queue",
                        "sleep_on_exit"} => Stage(x) = 1
           /\ x.op \in {"write", "store"} => Stage(x) = 3
           /\ x.op \in {"idle", "wfi"} => Stage(x) = 5
BY DEF Stage

LEMMA OrderedFacts ==
    ASSUME NEW X, NEW s \in Seq(X), Ordered(s)
    PROVE  /\ Len(s) \in Nat \ {0} /\ 1 \in 1..Len(s) /\ Head(s) = s[1] /\ s[1] \in X
           /\ Len(s) = 1 <=> Stage(s[1]) = 5
           /\ Stage(s[1]) = 4 => Len(s) = 2
           /\ \A x : Has(s, x) => Stage(s[1]) <= Stage(x)
<1>1. /\ \A j, k \in 1..Len(s) : j < k =>
            /\ Stage(s[j]) <= Stage(s[k])
            /\ Stage(s[j]) \notin {1, 3} => Stage(s[j]) < Stage(s[k])
      /\ Len(s) > 0 /\ Stage(s[Len(s)]) = 5
      /\ Len(s) > 1 => Stage(s[Len(s) - 1]) = 4
  BY DEF Ordered
<1>2. Len(s) \in Nat /\ \A k \in 1..Len(s) : s[k] \in X
  BY LenProperties, ElementOfSeq
<1>3. 1 \in 1..Len(s) /\ Len(s) \in 1..Len(s)
  BY <1>1, <1>2
<1>4. s # <<>>
  BY <1>1
<1>5. Head(s) = s[1]
  BY <1>4, HeadTailProperties
<1>6. Len(s) > 1 => Stage(s[1]) # 5
  <2>1. Len(s) > 1 /\ Stage(s[1]) = 5 => Stage(s[1]) < Stage(s[Len(s)])
    BY <1>1, <1>3
  <2>2. QED BY <1>1, <2>1
<1>7. Stage(s[1]) = 4 => Len(s) = 2
  <2>1. SUFFICES ASSUME Stage(s[1]) = 4, Len(s) # 2 PROVE FALSE
    OBVIOUS
  <2>2. CASE Len(s) = 1
    BY <1>1, <2>1, <2>2
  <2>3. CASE Len(s) > 2
    <3>1. Len(s) - 1 \in 1..Len(s) /\ 1 < Len(s) - 1
      BY <1>2, <2>3
    <3>2. Stage(s[1]) < Stage(s[Len(s) - 1])
      BY <1>1, <1>3, <2>1, <3>1
    <3>3. QED BY <1>1, <2>1, <2>3, <3>2
  <2>4. Len(s) = 1 \/ Len(s) > 2
    <3>1. Len(s) \in Nat /\ Len(s) > 0 /\ Len(s) # 2
      BY <1>1, <1>2, <2>1
    <3>2. QED BY <3>1, Sizes
  <2>5. QED BY <2>2, <2>3, <2>4
<1>8. ASSUME NEW x, Has(s, x) PROVE Stage(s[1]) <= Stage(x)
  <2>1. PICK k \in 1..Len(s) : s[k] = x
    BY <1>8 DEF Has
  <2>2. k = 1 \/ 1 < k
    BY <1>2
  <2>3. QED BY <1>1, <1>3, <2>1, <2>2, StageType
<1>9. Len(s) \in Nat \ {0} /\ (Len(s) = 1 <=> Stage(s[1]) = 5)
  <2>1. Len(s) \in Nat /\ Len(s) > 0 /\ Stage(s[Len(s)]) = 5
    BY <1>1, <1>2
  <2>2. QED BY <1>6, <2>1
<1>10. QED BY <1>2, <1>3, <1>5, <1>7, <1>8, <1>9

LEMMA TailFacts ==
    ASSUME NEW X, NEW s \in Seq(X), Ordered(s), Len(s) > 1, NEW t, t = Tail(s)
    PROVE  /\ t \in Seq(X) /\ Ordered(t) /\ Len(t) = Len(s) - 1
           /\ \A k \in 1..Len(t) : t[k] = s[k + 1] /\ k + 1 \in 1..Len(s)
           /\ \A x : Has(s, x) => x = s[1] \/ Has(t, x)
           /\ Stage(s[1]) <= Stage(t[1])
           /\ Stage(s[1]) \notin {1, 3} => Stage(s[1]) < Stage(t[1])
<1>1. Len(s) \in Nat /\ s # <<>>
  BY LenProperties
<1>2. t \in Seq(X) /\ Len(t) = Len(s) - 1
  BY <1>1, HeadTailProperties
<1>3. \A k \in 1..Len(t) : t[k] = s[k + 1] /\ k + 1 \in 1..Len(s)
  <2>1. \A k \in 1..(Len(s) - 1) : k + 1 \in 1..Len(s)
    BY <1>1
  <2>2. \A k \in 1..(Len(s) - 1) : Tail(s)[k] = s[k + 1]
    BY <1>1
  <2>3. QED BY <1>2, <2>1, <2>2
<1>4. /\ \A j, k \in 1..Len(s) : j < k =>
            /\ Stage(s[j]) <= Stage(s[k])
            /\ Stage(s[j]) \notin {1, 3} => Stage(s[j]) < Stage(s[k])
      /\ Stage(s[Len(s)]) = 5 /\ Stage(s[Len(s) - 1]) = 4
  BY DEF Ordered
<1>5. Ordered(t)
  <2>1. ASSUME NEW j \in 1..Len(t), NEW k \in 1..Len(t), j < k
        PROVE  /\ Stage(t[j]) <= Stage(t[k])
               /\ Stage(t[j]) \notin {1, 3} => Stage(t[j]) < Stage(t[k])
    <3>1. j + 1 < k + 1
      BY <2>1
    <3>2. QED BY <1>3, <1>4, <3>1
  <2>2. Len(t) > 0 /\ Len(t) \in 1..Len(t) /\ Len(t) + 1 = Len(s)
    BY <1>1, <1>2
  <2>3. Stage(t[Len(t)]) = 5
    BY <1>3, <1>4, <2>2
  <2>4. Len(t) > 1 => Stage(t[Len(t) - 1]) = 4
    <3>1. Len(t) > 1 => Len(t) - 1 \in 1..Len(t) /\ (Len(t) - 1) + 1 = Len(s) - 1
      BY <1>1, <1>2
    <3>2. QED BY <1>3, <1>4, <3>1
  <2>5. QED BY <2>1, <2>2, <2>3, <2>4 DEF Ordered
<1>6. ASSUME NEW x, Has(s, x) PROVE x = s[1] \/ Has(t, x)
  <2>1. PICK k \in 1..Len(s) : s[k] = x
    BY <1>6 DEF Has
  <2>2. k # 1 => k - 1 \in 1..Len(t) /\ (k - 1) + 1 = k
    BY <1>1, <1>2
  <2>3. QED BY <1>3, <2>1, <2>2 DEF Has
<1>7. /\ Stage(s[1]) <= Stage(t[1])
      /\ Stage(s[1]) \notin {1, 3} => Stage(s[1]) < Stage(t[1])
  <2>1. 1 \in 1..Len(t) /\ 1 \in 1..Len(s) /\ 1 + 1 \in 1..Len(s) /\ 1 < 1 + 1
    BY <1>1, <1>2
  <2>2. t[1] = s[1 + 1]
    BY <1>3, <2>1
  <2>3. QED BY <1>4, <2>1, <2>2
<1>8. QED BY <1>2, <1>3, <1>5, <1>6, <1>7

-----------------------------------------------------------------------------
(* Where a step takes place. *)
LEMMA MainFacts ==
    ASSUME StartInv
    PROVE  /\ app \in Apps
           /\ Len(main) \in Nat \ {0} /\ 1 \in 1..Len(main) /\ Head(main) = main[1]
           /\ main[1] \in Statements(app)
           /\ Len(main) = 1 <=> Stage(main[1]) = 5
           /\ Stage(main[1]) = 4 => Len(main) = 2
           /\ \A x : Has(main, x) => Stage(main[1]) <= Stage(x)
BY OrderedFacts DEF StartInv, Steps

LEMMA NamesApart ==
    ASSUME NEW a \in Apps
    PROVE  /\ Names(a) \cap {"init", "idle", "main", "dispatcher", "timer"} = {}
           /\ DOMAIN a.software \cap DOMAIN a.hardware = {}
           /\ Contexts(a) \cap {"main", "dispatcher", "timer"} = {}
BY AppsAssumption DEF WellFormed, Contexts

LEMMA StackFacts ==
    ASSUME StartInv
    PROVE  /\ Len(stack) \in Nat /\ Len(stack) > 0
           /\ Current = stack[Len(stack)]
           /\ Len(stack) > 1 => Handler(app, Current) /\ Len(main) = 1 /\ Stage(main[1]) = 5
           /\ Len(stack) = 1 => Current.context \in {"main", "init", "idle"}
<1>1. Len(stack) \in Nat /\ Len(stack) > 0 /\ Current = stack[Len(stack)]
  BY LenProperties DEF StartInv, Frames, Current, Last
<1>2. Len(stack) > 1 => Len(stack) \in 2..Len(stack)
  BY <1>1
<1>3. Len(stack) > 1 => Handler(app, Current)
  BY <1>1, <1>2 DEF StartInv, Frames
<1>4. Len(stack) > 1 => ~(Len(main) > 1)
  BY <1>1 DEF StartInv, Phases
<1>5. Len(stack) > 1 => Len(main) = 1 /\ Stage(main[1]) = 5
  <2>1. Len(main) \in Nat \ {0} /\ (Len(main) = 1 <=> Stage(main[1]) = 5)
    BY MainFacts
  <2>2. \A n \in Nat \ {0} : ~(n > 1) => n = 1
    OBVIOUS
  <2>3. QED BY <1>4, <2>1, <2>2
<1>6. Len(stack) = 1 => Current.context \in {"main", "init", "idle"}
  BY <1>1 DEF StartInv, Frames
<1>7. QED BY <1>1, <1>3, <1>5, <1>6

(* Only one frame, or a handler on top. *)
LEMMA StackSize ==
    ASSUME StartInv PROVE Len(stack) = 1 \/ Len(stack) > 1
<1>1. Len(stack) \in Nat /\ Len(stack) > 0
  BY StackFacts
<1>2. QED BY <1>1, Sizes

(* A statement of `main` runs, *)
LEMMA StatementRuns ==
    ASSUME StartInv, NEW o, Next_is(o)
    PROVE  /\ Len(stack) = 1 /\ stack[1].context = "main"
           /\ main[1].op = o /\ main[1] \in Statements(app) /\ Of = main[1].of
<1>1. Current.context = "main" /\ Head(main).op = o
  BY DEF Next_is, Running
<1>2. ~(Len(stack) > 1)
  <2>1. ~Handler(app, Current)
    BY <1>1, MainFacts, NamesApart DEF Handler, Names
  <2>2. QED BY <2>1, StackFacts
<1>3. Len(stack) = 1
  BY <1>2, StackSize
<1>4. QED BY <1>1, <1>3, MainFacts, StackFacts DEF Of

(* user code, when there is nothing left to prepare, *)
LEMMA UserCodeRuns ==
    ASSUME StartInv, Current.context \in Contexts(app)
    PROVE  /\ Stage(main[1]) \in {2, 5}
           /\ Current.context # "init" => Len(main) = 1 /\ Stage(main[1]) = 5
<1>1. CASE Len(stack) > 1
  BY <1>1, StackFacts
<1>2. CASE Len(stack) = 1
  <2>1. Current.context \in {"init", "idle"} /\ Current = stack[1]
    BY <1>2, MainFacts, StackFacts, NamesApart
  <2>2. /\ stack[1].context = "init" => Stage(main[1]) = 2
        /\ stack[1].context = "idle" => Len(main) = 1 /\ Stage(main[1]) = 5
    BY MainFacts, StageOf DEF StartInv, Phases
  <2>3. QED BY <2>1, <2>2
<1>3. QED BY <1>1, <1>2, StackSize

(* or a handler. *)
LEMMA HandlerRuns ==
    ASSUME StartInv,
           \/ Current.context \in {"dispatcher", "timer"}
           \/ Current.context \in DOMAIN app.software
           \/ Current.context \in DOMAIN app.hardware
    PROVE  Len(stack) > 1 /\ Handler(app, Current) /\ Len(main) = 1 /\ Stage(main[1]) = 5
<1>1. Current.context \notin {"main", "init", "idle"}
  BY MainFacts, NamesApart DEF Names
<1>2. QED BY <1>1, StackFacts, StackSize

(* What the stage of `main` says of the state. *)
LEMMA Prepared ==
    ASSUME StartInv, Stage(main[1]) >= 2
    PROVE  /\ \A l \in Lines(app) : level[l] = Declared(app, l)
           /\ tqs = DOMAIN app.monotonics
           /\ \A t \in DOMAIN app.software : Slots(t) = app.software[t].capacity
<1>1. \A x : x.op \in {"fill", "set_priority", "new_timer_queue"} => ~Has(main, x)
  <2>1. ASSUME NEW x, x.op \in {"fill", "set_priority", "new_timer_queue"}, Has(main, x)
        PROVE  FALSE
    <3>1. Stage(x) = 1
      BY <2>1, StageOf
    <3>2. Stage(main[1]) <= 1
      BY <2>1, <3>1, MainFacts
    <3>3. Stage(main[1]) \in 0..5
      BY StageType
    <3>4. QED BY <3>2, <3>3
  <2>2. QED BY <2>1
<1>2. \A x : /\ ~Has(main, Do("fill", x)) /\ ~Has(main, Do("set_priority", x))
             /\ ~Has(main, Do("new_timer_queue", x))
  <2>1. ASSUME NEW x
        PROVE  /\ Do("fill", x).op = "fill" /\ Do("set_priority", x).op = "set_priority"
               /\ Do("new_timer_queue", x).op = "new_timer_queue"
    BY DEF Do
  <2>2. QED BY <1>1, <2>1
<1>3. \A l \in Lines(app) : level[l] = Declared(app, l)
  BY <1>2 DEF StartInv, Configured
<1>4. tqs = DOMAIN app.monotonics
  BY <1>2 DEF StartInv, Supplied
<1>5. \A t \in DOMAIN app.software : Slots(t) = app.software[t].capacity
  BY <1>2 DEF StartInv, Counted
<1>6. QED BY <1>3, <1>4, <1>5

LEMMA Finished ==
    ASSUME StartInv, Stage(main[1]) = 5
    PROVE  mono = DOMAIN app.monotonics /\ LiveLate(app) \subseteq late
<1>1. \A x : x.op \in {"write", "store"} => ~Has(main, x)
  <2>1. ASSUME NEW x, x.op \in {"write", "store"}, Has(main, x)
        PROVE  FALSE
    <3>1. Stage(x) = 3
      BY <2>1, StageOf
    <3>2. 5 <= 3
      BY <2>1, <3>1, MainFacts
    <3>3. QED BY <3>2
  <2>2. QED BY <2>1
<1>2. \A x : ~Has(main, Do("write", x)) /\ ~Has(main, Do("store", x))
  <2>1. \A x : Do("write", x).op = "write" /\ Do("store", x).op = "store"
    BY DEF Do
  <2>2. QED BY <1>1, <2>1
<1>3. QED BY <1>2 DEF StartInv, Supplied

-----------------------------------------------------------------------------
(* The start. *)
LEMMA DeclaredType ==
    ASSUME NEW a \in Apps, NEW l \in Lines(a)
    PROVE  Declared(a, l) \in 1..LEVELS
<1>1. /\ DOMAIN a.interrupts \subseteq 1..LEVELS
      /\ \A t \in DOMAIN a.hardware : a.hardware[t].priority \in 1..LEVELS
      /\ \A m \in DOMAIN a.monotonics : a.monotonics[m].priority \in 1..LEVELS
  BY AppsAssumption DEF WellFormed
<1>2. CASE l \in Range(a.interrupts)
  <2>1. \E p \in DOMAIN a.interrupts : a.interrupts[p] = l
    BY <1>2 DEF Range
  <2>2. Declared(a, l) \in DOMAIN a.interrupts
    BY <1>2, <2>1 DEF Declared
  <2>3. QED BY <1>1, <2>2
<1>3. CASE l \notin Range(a.interrupts) /\ l \in Binds(a.hardware)
  <2> DEFINE c == CHOOSE t \in DOMAIN a.hardware : a.hardware[t].binds = l
  <2>1. \E t \in DOMAIN a.hardware : a.hardware[t].binds = l
    BY <1>3 DEF Binds
  <2>2. c \in DOMAIN a.hardware
    BY <2>1
  <2>3. Declared(a, l) = a.hardware[c].priority
    BY <1>3 DEF Declared
  <2>4. QED BY <1>1, <2>2, <2>3
<1>4. CASE l \notin Range(a.interrupts) /\ l \notin Binds(a.hardware)
  <2> DEFINE c == CHOOSE m \in DOMAIN a.monotonics : a.monotonics[m].binds = l
  <2>1. \E m \in DOMAIN a.monotonics : a.monotonics[m].binds = l
    BY <1>4 DEF Lines, Binds
  <2>2. c \in DOMAIN a.monotonics
    BY <2>1
  <2>3. Declared(a, l) = a.monotonics[c].priority
    BY <1>4 DEF Declared
  <2>4. QED BY <1>1, <2>2, <2>3
<1>5. QED BY <1>2, <1>3, <1>4

LEMMA StartsPrepared == Init => StartInv
<1> SUFFICES ASSUME Init PROVE StartInv
  OBVIOUS
<1>1. /\ app \in Apps /\ main = Main(app)
      /\ main \in Seq(Statements(app)) /\ Led(main) /\ Ordered(main)
      /\ Complete(app, main) /\ Len(main) > 1 /\ main[1].op = "disable"
  BY MainIs DEF Init
<1>2. Steps
  BY <1>1 DEF Steps
<1>3. Configured
  <2>1. LEVELS \in Nat /\ LEVELS \in 0..LEVELS
    BY AppsAssumption
  <2>2. level \in [Lines(app) -> 0..LEVELS]
    BY <2>1 DEF Init
  <2>3. \A l \in Lines(app) : Has(main, Do("set_priority", l))
    BY <1>1 DEF Complete
  <2>4. unmasked = {} /\ pended = {}
    BY DEF Init
  <2>5. QED BY <1>1, <2>2, <2>3, <2>4 DEF Configured, Led
<1>4. Supplied
  BY <1>1 DEF Init, Supplied, Complete
<1>5. Counted
  <2>1. /\ free \in [DOMAIN app.software -> Nat] /\ ready \in [DOMAIN app.software -> Nat]
        /\ scheduled \in [DOMAIN app.monotonics -> [DOMAIN app.software -> Nat]]
    BY DEF Init
  <2>2. \A t \in DOMAIN app.software : Has(main, Do("fill", t))
    BY <1>1 DEF Complete
  <2>3. \A t \in DOMAIN app.software :
           ready[t] = 0 /\ \A m \in DOMAIN app.monotonics : scheduled[m][t] = 0
    BY DEF Init
  <2>4. QED BY <2>1, <2>2, <2>3 DEF Counted
<1>6. stack = <<Frame("main", "main")>>
  BY DEF Init
<1>7. Phases
  <2>1. Len(stack) = 1 /\ stack[1].context = "main"
    BY <1>6 DEF Frame
  <2>2. events = 0 /\ 0 \in 0..MaxEvents
    BY AppsAssumption DEF Init
  <2>3. /\ {primask, asleep, sleeponexit} \subseteq BOOLEAN /\ failed = "nothing"
        /\ unmasked = {} /\ pended = {}
    BY DEF Init
  <2>4. QED BY <1>1, <2>1, <2>2, <2>3 DEF Phases
<1>8. Frames
  <2> DEFINE F == [line : {"main"} \cup Lines(app),
                   context : Contexts(app) \cup {"main", "dispatcher", "timer"},
                   locked : Seq(DOMAIN app.resources)]
             f == Frame("main", "main")
  <2>1. f \in F /\ f.line = "main" /\ f.context = "main" /\ f.locked = <<>>
    BY DEF Frame
  <2> HIDE DEF F, f
  <2>2. stack \in Seq(F) /\ Len(stack) = 1 /\ stack[1] = f
    BY <1>6, <2>1 DEF f
  <2>3. /\ 2..1 = {} /\ \A i \in 1..1 : i = 1
        /\ Len(stack) > 0
    BY <2>2
  <2>4. <<>> \in Seq(Lockable(app, "main"))
    BY EmptySeq
  <2>5. \A i \in 2..Len(stack) : Handler(app, stack[i])
    BY <2>2, <2>3
  <2>6. \A i \in 1..Len(stack) : stack[i].locked \in Seq(Lockable(app, stack[i].context))
    BY <2>1, <2>2, <2>3, <2>4
  <2>7. \A i, j \in 1..Len(stack) : ~(i < j)
    BY <2>2
  <2>8. QED BY <2>1, <2>2, <2>3, <2>5, <2>6, <2>7 DEF Frames, F
<1>9. QED BY <1>2, <1>3, <1>4, <1>5, <1>7, <1>8 DEF StartInv

-----------------------------------------------------------------------------
(* `main` goes on by one statement or stays where it is. *)
Statement ==
    \/ disable_interrupts \/ fill \/ set_priority \/ unmask \/ new_timer_queue
    \/ sleep_on_exit \/ init_returns \/ write_late \/ store_monotonic
    \/ enable_interrupts

LEMMA StatementSteps ==
    ASSUME StartInv, Statement
    PROVE  /\ app' = app /\ main' = Tail(main) /\ Stage(main[1]) < 5 /\ Len(main) > 1
           /\ Len(stack) = 1
           /\ init_returns => stack[1].context = "init"
           /\ ~init_returns => stack[1].context = "main"
<1>1. app' = app /\ main' = Tail(main)
  BY DEF Statement, disable_interrupts, fill, set_priority, unmask, new_timer_queue,
         sleep_on_exit, init_returns, write_late, store_monotonic, enable_interrupts,
         Done, rest
<1>2. ASSUME init_returns
      PROVE  Stage(main[1]) < 5 /\ Len(stack) = 1 /\ stack[1].context = "init"
  <2>1. Current.context = "init"
    BY <1>2 DEF init_returns, Running
  <2>2. ~Handler(app, Current)
    BY <2>1, MainFacts, NamesApart DEF Handler, Names
  <2>3. Len(stack) = 1 /\ stack[1].context = "init"
    BY <2>1, <2>2, StackFacts, StackSize
  <2>4. Stage(main[1]) = 2
    BY <2>3, StageOf DEF StartInv, Phases
  <2>5. QED BY <2>3, <2>4
<1>3. ASSUME ~init_returns
      PROVE  Stage(main[1]) < 5 /\ Len(stack) = 1 /\ stack[1].context = "main"
  <2>1. PICK o : /\ Next_is(o)
                 /\ o \in {"disable", "fill", "set_priority", "unmask", "new_timer_queue",
                          "sleep_on_exit", "write", "store", "enable"}
    BY <1>3 DEF Statement, disable_interrupts, fill, set_priority, unmask, new_timer_queue,
                sleep_on_exit, write_late, store_monotonic, enable_interrupts
  <2>2. Len(stack) = 1 /\ stack[1].context = "main" /\ main[1].op = o
    BY <2>1, StatementRuns
  <2>3. Stage(main[1]) < 5
    BY <2>1, <2>2 DEF Stage
  <2>4. QED BY <2>2, <2>3
<1>4. Stage(main[1]) < 5
  BY <1>2, <1>3
<1>5. Len(main) > 1
  <2>1. Len(main) \in Nat \ {0} /\ Len(main) # 1
    BY <1>4, MainFacts
  <2>2. \A n \in Nat \ {0} : n # 1 => n > 1
    OBVIOUS
  <2>3. QED BY <2>1, <2>2
<1>6. QED BY <1>1, <1>2, <1>3, <1>4, <1>5

(* What a statement is about. *)
LEMMA StatementKinds ==
    ASSUME NEW a, NEW x \in Statements(a)
    PROVE  /\ x = Do(x.op, x.of)
           /\ x.op \in {"set_priority", "unmask"} => x.of \in Lines(a)
           /\ x.op = "fill" => x.of \in DOMAIN a.software
           /\ x.op \in {"new_timer_queue", "store"} => x.of \in DOMAIN a.monotonics
           /\ x.op = "write" => x.of \in LiveLate(a)
           /\ x.op = "idle" => a.idle
<1> DEFINE Kind(o, y) ==
              /\ o \in {"set_priority", "unmask"} => y \in Lines(a)
              /\ o = "fill" => y \in DOMAIN a.software
              /\ o \in {"new_timer_queue", "store"} => y \in DOMAIN a.monotonics
              /\ o = "write" => y \in LiveLate(a)
              /\ o = "idle" => a.idle
<1>1. SUFFICES \E o, y : x = Do(o, y) /\ Kind(o, y)
  <2>1. \A o, y : Do(o, y).op = o /\ Do(o, y).of = y
    BY DEF Do
  <2>2. ASSUME NEW o, NEW y, x = Do(o, y), Kind(o, y)
        PROVE  x = Do(x.op, x.of) /\ Kind(x.op, x.of)
    <3>1. x.op = o /\ x.of = y
      BY <2>1, <2>2
    <3> HIDE DEF Kind
    <3>2. QED BY <2>2, <3>1
  <2>3. QED BY <2>2
<1>2. /\ \A t \in DOMAIN a.software : Kind("fill", t)
      /\ \A l \in Lines(a) : Kind("set_priority", l) /\ Kind("unmask", l)
      /\ \A m \in DOMAIN a.monotonics : Kind("new_timer_queue", m) /\ Kind("store", m)
      /\ \A r \in LiveLate(a) : Kind("write", r)
      /\ \A y : /\ Kind("sleep_on_exit", y) /\ Kind("disable", y) /\ Kind("init", y)
                /\ Kind("enable", y) /\ Kind("wfi", y)
      /\ a.idle => Kind("idle", "")
  OBVIOUS
<1> HIDE DEF Kind
<1>3. CASE x \in Preparations(a)
  BY <1>2, <1>3 DEF Preparations
<1>4. CASE x \in Completions(a)
  BY <1>2, <1>4 DEF Completions
<1>5. CASE x \in {Do("disable", ""), Do("init", ""), Do("enable", "")}
  BY <1>2, <1>5
<1>6. CASE x = Do(IF a.idle THEN "idle" ELSE "wfi", "")
  BY <1>2, <1>6
<1>7. QED BY <1>3, <1>4, <1>5, <1>6 DEF Statements

(* Where the clock is read in vain. *)
Panic ==
    /\ InUserCode /\ \E m \in DOMAIN app.monotonics : now_panics(m)
    /\ \E operation \in {"now", "reschedule_after"} : Panics(operation)

(* The steps of everything else, as the next-state relation lists them,    *)
(* but that a reschedule_after either panics or is a reschedule_at.        *)
Elsewhere ==
    \/ call_init \/ call_idle \/ wfi
    \/ hardware_task_returns \/ software_task_returns \/ dispatcher_returns
    \/ timer_returns
    \/ \E t \in DOMAIN app.software : dispatch(t) \/ timer_releases(t) \/ spawn(t)
    \/ \E l \in Lines(app) : Take(l) \/ DevicePend(l) \/ pend(l)
    \/ \E m \in DOMAIN app.monotonics, t \in DOMAIN app.software, first \in BOOLEAN :
          spawn_after(m, t, first) \/ reschedule_at(m, t, first)
    \/ Panic
    \/ \E r \in DOMAIN app.resources : lock(r)
    \/ unlock

LEMMA RescheduleIs ==
    \A m \in DOMAIN app.monotonics : \A t, first :
       /\ now(m) => Panic
       /\ reschedule_after(m, t, first) => Panic \/ reschedule_at(m, t, first)
BY DEF now, reschedule_after, Panic

LEMMA NextIs == Next => Statement \/ Elsewhere
BY RescheduleIs DEF Next, Progress, MainStep, Statement, Elsewhere

LEMMA ElsewhereKeeps ==
    ASSUME Elsewhere
    PROVE  app' = app /\ main' = main /\ level' = level /\ tqs' = tqs /\ mono' = mono
           /\ late' = late
BY DEF Elsewhere, call_init, call_idle, wfi, hardware_task_returns, software_task_returns,
       dispatcher_returns, timer_returns, dispatch, timer_releases, spawn, Take, DevicePend,
       pend, spawn_after, reschedule_at, lock, unlock, Panic, Panics, rest, hardware, statics

LEMMA StepsKept ==
    ASSUME StartInv, Next
    PROVE  Steps' /\ app' = app /\ (main' = main \/ (Len(main) > 1 /\ main' = Tail(main)))
<1>1. CASE Statement
  <2>1. app' = app /\ main' = Tail(main) /\ Len(main) > 1
    BY <1>1, StatementSteps
  <2>2. main \in Seq(Statements(app)) /\ Ordered(main) /\ app \in Apps
    BY DEF StartInv, Steps
  <2>3. main' \in Seq(Statements(app)) /\ Ordered(main')
    BY <2>1, <2>2, TailFacts
  <2>4. QED BY <2>1, <2>2, <2>3 DEF Steps
<1>2. CASE Elsewhere
  <2>1. app' = app /\ main' = main
    BY <1>2, ElsewhereKeeps
  <2>2. main \in Seq(Statements(app)) /\ Ordered(main) /\ app \in Apps
    BY DEF StartInv, Steps
  <2>3. Steps'
    BY <2>1, <2>2 DEF Steps
  <2>4. QED BY <2>1, <2>3
<1>3. QED BY <1>1, <1>2, NextIs

(* What a statement leaves. *)
LEMMA LeftAfter ==
    ASSUME StartInv, Statement
    PROVE  /\ Len(main') = Len(main) - 1
           /\ \A k \in 1..Len(main') : main'[k] = main[k + 1] /\ k + 1 \in 1..Len(main)
           /\ \A x : Has(main, x) => x = main[1] \/ Has(main', x)
           /\ Stage(main[1]) <= Stage(main'[1])
           /\ Stage(main[1]) \notin {1, 3} => Stage(main[1]) < Stage(main'[1])
<1>1. app' = app /\ main' = Tail(main) /\ Len(main) > 1
  BY StatementSteps
<1>2. main \in Seq(Statements(app)) /\ Ordered(main)
  BY DEF StartInv, Steps
<1> DEFINE t == Tail(main)
<1>3. /\ Len(t) = Len(main) - 1
      /\ \A k \in 1..Len(t) : t[k] = main[k + 1] /\ k + 1 \in 1..Len(main)
      /\ \A x : Has(main, x) => x = main[1] \/ Has(t, x)
      /\ Stage(main[1]) <= Stage(t[1])
      /\ Stage(main[1]) \notin {1, 3} => Stage(main[1]) < Stage(t[1])
  BY <1>1, <1>2, TailFacts
<1>4. main' = t
  BY <1>1
<1> HIDE DEF t
<1>5. QED BY <1>3, <1>4

-----------------------------------------------------------------------------
(* Priorities and masks. *)
LEMMA ConfiguredStays ==
    ASSUME StartInv, app' = app, main' = main, level' = level,
           \A l \in unmasked' :
              l \in unmasked \/ (l \in Lines(app) /\ level[l] = Declared(app, l)),
           \A l \in pended' :
              \/ l \in pended
              \/ /\ l \in Lines(app)
                 /\ level[l] = Declared(app, l) \/ l \notin Exceptions
    PROVE  Configured'
<1>1. unmasked' \cup pended' \subseteq Lines(app)
  BY DEF StartInv, Configured
<1>2. \A l \in unmasked' \cup (pended' \cap Exceptions) : level[l] = Declared(app, l)
  BY DEF StartInv, Configured
<1>3. QED BY <1>1, <1>2 DEF StartInv, Configured

LEMMA ConfiguredOn ==
    ASSUME StartInv, Statement, main[1].op # "set_priority", level' = level,
           \A l \in unmasked' :
              l \in unmasked \/ (l \in Lines(app) /\ level[l] = Declared(app, l)),
           pended' = pended
    PROVE  Configured'
<1>1. /\ Len(main') = Len(main) - 1
      /\ \A k \in 1..Len(main') : main'[k] = main[k + 1] /\ k + 1 \in 1..Len(main)
      /\ \A x : Has(main, x) => x = main[1] \/ Has(main', x)
  BY LeftAfter
<1>2. app' = app
  BY StatementSteps
<1>3. \A x : Has(main, Do("set_priority", x)) => Has(main', Do("set_priority", x))
  BY <1>1 DEF Do
<1>4. Len(main) \in Nat /\ 1 \in 1..Len(main)
  BY MainFacts
<1>5. ASSUME NEW p \in 1..Len(main'), main'[p].op = "unmask"
      PROVE  \/ level[main'[p].of] = Declared(app, main'[p].of)
             \/ \E j \in 1..(p - 1) : main'[j] = Do("set_priority", main'[p].of)
  <2>1. p + 1 \in 1..Len(main) /\ main'[p] = main[p + 1]
    BY <1>1
  <2>2. \/ level[main'[p].of] = Declared(app, main'[p].of)
        \/ \E j \in 1..(p + 1 - 1) : main[j] = Do("set_priority", main'[p].of)
    BY <1>5, <2>1 DEF StartInv, Configured
  <2>3. ASSUME NEW j \in 1..(p + 1 - 1), main[j] = Do("set_priority", main'[p].of)
        PROVE  \E i \in 1..(p - 1) : main'[i] = Do("set_priority", main'[p].of)
    <3>1. j # 1
      BY <2>3 DEF Do
    <3>2. j - 1 \in 1..(p - 1) /\ j - 1 \in 1..Len(main') /\ (j - 1) + 1 = j
      BY <1>1, <1>4, <3>1
    <3>3. main'[j - 1] = main[j]
      BY <1>1, <3>2
    <3>4. QED BY <2>3, <3>2, <3>3
  <2>4. QED BY <2>2, <2>3
<1>6. unmasked' \cup pended' \subseteq Lines(app)
  BY DEF StartInv, Configured
<1>7. \A l \in unmasked' \cup (pended' \cap Exceptions) : level[l] = Declared(app, l)
  BY DEF StartInv, Configured
<1>8. level \in [Lines(app) -> 0..LEVELS]
  BY DEF StartInv, Configured
<1>9. \A l \in Lines(app) : level[l] = Declared(app, l) \/ Has(main', Do("set_priority", l))
  BY <1>3 DEF StartInv, Configured
<1>10. QED BY <1>2, <1>5, <1>6, <1>7, <1>8, <1>9 DEF Configured

LEMMA SetPriorityConfigures ==
    ASSUME StartInv, set_priority
    PROVE  Configured'
<1> DEFINE o == main[1].of
<1>1. /\ Statement /\ main[1].op = "set_priority" /\ main[1] \in Statements(app)
      /\ app \in Apps
      /\ level' = [level EXCEPT ![o] = Declared(app, o)]
      /\ unmasked' = unmasked /\ pended' = pended
  BY StatementRuns, MainFacts DEF set_priority, Statement, hardware
<1>2. o \in Lines(app) /\ main[1] = Do("set_priority", o)
  BY <1>1, StatementKinds
<1> HIDE DEF o
<1>3. /\ Len(main') = Len(main) - 1
      /\ \A k \in 1..Len(main') : main'[k] = main[k + 1] /\ k + 1 \in 1..Len(main)
      /\ \A x : Has(main, x) => x = main[1] \/ Has(main', x)
  BY <1>1, LeftAfter
<1>4. app' = app
  BY <1>1, StatementSteps
<1>5. Declared(app, o) \in 0..LEVELS
  <2>1. Declared(app, o) \in 1..LEVELS /\ LEVELS \in Nat
    BY <1>1, <1>2, DeclaredType, AppsAssumption
  <2>2. QED BY <2>1
<1>6. level \in [Lines(app) -> 0..LEVELS]
  BY DEF StartInv, Configured
<1>7. /\ level' \in [Lines(app) -> 0..LEVELS]
      /\ level'[o] = Declared(app, o)
      /\ \A l \in Lines(app) : level[l] = Declared(app, l) => level'[l] = Declared(app, l)
  BY <1>1, <1>2, <1>5, <1>6
<1>8. Len(main) \in Nat /\ 1 \in 1..Len(main)
  BY MainFacts
<1>9. ASSUME NEW p \in 1..Len(main'), main'[p].op = "unmask"
      PROVE  \/ level'[main'[p].of] = Declared(app, main'[p].of)
             \/ \E j \in 1..(p - 1) : main'[j] = Do("set_priority", main'[p].of)
  <2>1. p + 1 \in 1..Len(main) /\ main'[p] = main[p + 1]
    BY <1>3
  <2>2. main'[p].of \in Lines(app)
    <3>1. main[p + 1] \in Statements(app)
      BY <2>1, ElementOfSeq DEF StartInv, Steps
    <3>2. QED BY <1>9, <2>1, <3>1, StatementKinds
  <2>3. \/ level[main'[p].of] = Declared(app, main'[p].of)
        \/ \E j \in 1..(p + 1 - 1) : main[j] = Do("set_priority", main'[p].of)
    BY <1>9, <2>1 DEF StartInv, Configured
  <2>4. ASSUME NEW j \in 1..(p + 1 - 1), main[j] = Do("set_priority", main'[p].of)
        PROVE  \/ level'[main'[p].of] = Declared(app, main'[p].of)
               \/ \E i \in 1..(p - 1) : main'[i] = Do("set_priority", main'[p].of)
    <3>1. CASE j = 1
      <4>1. main'[p].of = o
        BY <1>2, <2>4, <3>1 DEF Do
      <4>2. QED BY <1>7, <4>1
    <3>2. CASE j # 1
      <4>1. j - 1 \in 1..(p - 1) /\ j - 1 \in 1..Len(main') /\ (j - 1) + 1 = j
        BY <1>3, <1>8, <3>2
      <4>2. main'[j - 1] = main[j]
        BY <1>3, <4>1
      <4>3. QED BY <2>4, <4>1, <4>2
    <3>3. QED BY <3>1, <3>2
  <2>5. QED BY <1>7, <2>2, <2>3, <2>4
<1>10. unmasked' \cup pended' \subseteq Lines(app)
  BY <1>1 DEF StartInv, Configured
<1>11. \A l \in unmasked' \cup (pended' \cap Exceptions) : level'[l] = Declared(app, l)
  BY <1>1, <1>7, <1>10 DEF StartInv, Configured
<1>12. ASSUME NEW l \in Lines(app)
       PROVE  level'[l] = Declared(app, l) \/ Has(main', Do("set_priority", l))
  <2>1. level[l] = Declared(app, l) \/ Has(main, Do("set_priority", l))
    BY DEF StartInv, Configured
  <2>2. CASE l = o
    BY <1>7, <2>2
  <2>3. CASE l # o
    <3>1. Do("set_priority", l) # main[1]
      BY <1>2, <2>3 DEF Do
    <3>2. QED BY <1>3, <1>7, <2>1, <3>1
  <2>4. QED BY <2>2, <2>3
<1>13. QED BY <1>4, <1>7, <1>9, <1>10, <1>11, <1>12 DEF Configured

LEMMA UnmaskConfigured ==
    ASSUME StartInv, unmask
    PROVE  Configured'
<1> DEFINE o == main[1].of
<1>1. /\ Statement /\ main[1].op = "unmask" /\ main[1] \in Statements(app)
      /\ unmasked' = unmasked \cup {o} /\ level' = level /\ pended' = pended
  BY StatementRuns DEF unmask, Statement
<1>2. o \in Lines(app)
  BY <1>1, StatementKinds
<1> HIDE DEF o
<1>3. level[o] = Declared(app, o)
  <2>1. 1 \in 1..Len(main) /\ 1..(1 - 1) = {}
    BY MainFacts
  <2>2. QED BY <1>1, <2>1 DEF StartInv, Configured, o
<1>4. main[1].op # "set_priority"
  BY <1>1
<1>5. \A l \in unmasked' : l \in unmasked \/ (l \in Lines(app) /\ level[l] = Declared(app, l))
  BY <1>1, <1>2, <1>3
<1>6. QED BY <1>1, <1>4, <1>5, ConfiguredOn

LEMMA DispatcherLine ==
    ASSUME app \in Apps, NEW t \in DOMAIN app.software
    PROVE  Dispatcher(t) \in Lines(app)
BY AppsAssumption DEF WellFormed, Dispatcher, Lines, Range

LEMMA ConfiguredKept ==
    ASSUME StartInv, Next
    PROVE  Configured'
<1>1. CASE Statement
  <2>1. CASE set_priority
    BY <2>1, SetPriorityConfigures
  <2>2. CASE unmask
    BY <2>2, UnmaskConfigured
  <2>3. CASE ~set_priority /\ ~unmask
    <3>1. level' = level /\ unmasked' = unmasked /\ pended' = pended
      BY <1>1, <2>3 DEF Statement, disable_interrupts, fill, new_timer_queue, sleep_on_exit,
         init_returns, write_late, store_monotonic, enable_interrupts, hardware
    <3>2. main[1].op # "set_priority"
      <4>1. CASE init_returns
        <5>1. stack[1].context = "init"
          BY <1>1, <4>1, StatementSteps
        <5>2. QED BY <5>1 DEF StartInv, Phases
      <4>2. CASE ~init_returns
        <5>1. PICK o : /\ Next_is(o)
                       /\ o \in {"disable", "fill", "new_timer_queue", "sleep_on_exit",
                                "write", "store", "enable"}
          BY <1>1, <2>3, <4>2 DEF Statement, disable_interrupts, fill, new_timer_queue,
             sleep_on_exit, write_late, store_monotonic, enable_interrupts
        <5>2. QED BY <5>1, StatementRuns
      <4>3. QED BY <4>1, <4>2
    <3>3. QED BY <1>1, <3>1, <3>2, ConfiguredOn
  <2>4. QED BY <2>1, <2>2, <2>3
<1>2. CASE Elsewhere
  <2>1. app' = app /\ main' = main /\ level' = level /\ app \in Apps
    BY <1>2, ElsewhereKeeps, MainFacts
  <2>2. ASSUME \A l \in unmasked' :
                  l \in unmasked \/ (l \in Lines(app) /\ level[l] = Declared(app, l)),
               \A l \in pended' :
                  \/ l \in pended
                  \/ /\ l \in Lines(app)
                     /\ level[l] = Declared(app, l) \/ l \notin Exceptions
        PROVE  Configured'
    BY <2>1, <2>2, ConfiguredStays
  <2>3. CASE \/ call_init \/ call_idle \/ wfi
             \/ hardware_task_returns \/ software_task_returns \/ dispatcher_returns
             \/ \E t \in DOMAIN app.software : dispatch(t)
             \/ \E r \in DOMAIN app.resources : lock(r)
             \/ unlock \/ Panic
    <3>1. unmasked' = unmasked /\ pended' = pended
      BY <2>3 DEF call_init, call_idle, wfi, hardware_task_returns, software_task_returns,
         dispatcher_returns, dispatch, lock, unlock, Panic, Panics, hardware
    <3>2. QED BY <2>2, <3>1
  <2>4. CASE timer_returns
    <3>1. unmasked' \subseteq unmasked /\ pended' = pended
      BY <2>4 DEF timer_returns
    <3>2. QED BY <2>2, <3>1
  <2>5. ASSUME NEW t \in DOMAIN app.software, timer_releases(t)
        PROVE  Configured'
    <3>1. unmasked' = unmasked /\ pended' = pended \cup {Dispatcher(t)}
      BY <2>5 DEF timer_releases
    <3>2. Stage(main[1]) = 5
      BY <2>5, HandlerRuns DEF timer_releases, Running
    <3>3. level[Dispatcher(t)] = Declared(app, Dispatcher(t)) /\ Dispatcher(t) \in Lines(app)
      BY <2>1, <3>2, Prepared, DispatcherLine
    <3>4. QED BY <2>2, <3>1, <3>3
  <2>6. ASSUME NEW l \in Lines(app), Take(l)
        PROVE  Configured'
    <3>1. unmasked' = unmasked /\ pended' \subseteq pended
      BY <2>6 DEF Take
    <3>2. QED BY <2>2, <3>1
  <2>7. ASSUME NEW l \in Lines(app), DevicePend(l)
        PROVE  Configured'
    <3>1. /\ unmasked' = unmasked /\ pended' = pended \cup {l}
          /\ l \in Exceptions => l \in unmasked
      BY <2>7 DEF DevicePend
    <3>2. \A k \in unmasked : level[k] = Declared(app, k)
      BY DEF StartInv, Configured
    <3>3. QED BY <2>2, <3>1, <3>2
  <2>8. ASSUME InUserCode PROVE \A l \in Lines(app) : level[l] = Declared(app, l)
    <3>1. Stage(main[1]) \in {2, 5}
      BY <2>8, UserCodeRuns DEF InUserCode
    <3>2. QED BY <3>1, Prepared
  <2>9. ASSUME NEW l \in Lines(app), pend(l)
        PROVE  Configured'
    <3>1. unmasked' = unmasked /\ pended' = pended \cup {l} /\ InUserCode
      BY <2>9 DEF pend
    <3>2. QED BY <2>2, <2>8, <3>1
  <2>10. ASSUME NEW t \in DOMAIN app.software, spawn(t)
        PROVE  Configured'
    <3>1. unmasked' = unmasked /\ pended' = pended \cup {Dispatcher(t)} /\ InUserCode
      BY <2>10 DEF spawn
    <3>2. QED BY <2>1, <2>2, <2>8, <3>1, DispatcherLine
  <2>11. ASSUME NEW m \in DOMAIN app.monotonics, NEW t \in DOMAIN app.software,
                NEW first \in BOOLEAN,
                spawn_after(m, t, first) \/ reschedule_at(m, t, first)
         PROVE  Configured'
    <3> DEFINE l == app.monotonics[m].binds
    <3>1. l \in Lines(app)
      BY DEF Lines, Binds
    <3>2. /\ unmasked' \subseteq unmasked \cup {l} /\ pended' \subseteq pended \cup {l}
          /\ InUserCode
      BY <2>11 DEF spawn_after, reschedule_at
    <3> HIDE DEF l
    <3>3. QED BY <2>2, <2>8, <3>1, <3>2
  <2>12. QED BY <1>2, <2>3, <2>4, <2>5, <2>6, <2>7, <2>9, <2>10, <2>11 DEF Elsewhere
<1>3. QED BY <1>1, <1>2, NextIs

-----------------------------------------------------------------------------
(* Timer queues, monotonics and late resources. *)
LEMMA SuppliedKept ==
    ASSUME StartInv, Next
    PROVE  Supplied'
<1>1. /\ tqs \cup mono \subseteq DOMAIN app.monotonics
      /\ late \subseteq DOMAIN app.resources
      /\ \A m \in DOMAIN app.monotonics : m \in tqs \/ Has(main, Do("new_timer_queue", m))
      /\ \A m \in DOMAIN app.monotonics : m \in mono \/ Has(main, Do("store", m))
      /\ \A r \in LiveLate(app) : r \in late \/ Has(main, Do("write", r))
  BY DEF StartInv, Supplied
<1>2. CASE Elsewhere
  <2>1. /\ app' = app /\ main' = main /\ tqs' = tqs /\ mono' = mono /\ late' = late
    BY <1>2, ElsewhereKeeps
  <2>2. QED BY <1>1, <2>1 DEF Supplied
<1>3. CASE Statement
  <2>1. \A x : Has(main, x) => x = main[1] \/ Has(main', x)
    BY <1>3, LeftAfter
  <2>2. app' = app /\ app \in Apps
    BY <1>3, StatementSteps, MainFacts
  <2>3. tqs' = tqs \/ (main[1].op = "new_timer_queue" /\ tqs' = tqs \cup {main[1].of})
    BY <1>3, StatementRuns DEF Statement, disable_interrupts, fill, set_priority, unmask,
       new_timer_queue, sleep_on_exit, init_returns, write_late, store_monotonic,
       enable_interrupts, statics
  <2>4. mono' = mono \/ (main[1].op = "store" /\ mono' = mono \cup {main[1].of})
    BY <1>3, StatementRuns DEF Statement, disable_interrupts, fill, set_priority, unmask,
       new_timer_queue, sleep_on_exit, init_returns, write_late, store_monotonic,
       enable_interrupts, statics
  <2>5. late' = late \/ (main[1].op = "write" /\ late' = late \cup {main[1].of})
    BY <1>3, StatementRuns DEF Statement, disable_interrupts, fill, set_priority, unmask,
       new_timer_queue, sleep_on_exit, init_returns, write_late, store_monotonic,
       enable_interrupts, statics
  <2>6. /\ main[1].op = "new_timer_queue" => tqs' = tqs \cup {main[1].of}
        /\ main[1].op = "store" => mono' = mono \cup {main[1].of}
        /\ main[1].op = "write" => late' = late \cup {main[1].of}
    <3>1. CASE init_returns
      <4>1. main[1].op = "init"
        BY <1>3, <3>1, StatementSteps DEF StartInv, Phases
      <4>2. QED BY <4>1
    <3>2. CASE ~init_returns
      BY <1>3, <3>2, StatementRuns DEF Statement, disable_interrupts, fill, set_priority,
         unmask, new_timer_queue, sleep_on_exit, write_late, store_monotonic,
         enable_interrupts
    <3>3. QED BY <3>1, <3>2
  <2>7. /\ main[1].op \in {"new_timer_queue", "store"} => main[1].of \in DOMAIN app.monotonics
        /\ main[1].op = "write" => main[1].of \in LiveLate(app)
    BY MainFacts, StatementKinds
  <2>8. LiveLate(app) \subseteq DOMAIN app.resources
    BY DEF LiveLate
  <2>9. tqs' \cup mono' \subseteq DOMAIN app.monotonics /\ late' \subseteq DOMAIN app.resources
    BY <1>1, <2>3, <2>4, <2>5, <2>7, <2>8
  <2>10. \A o, y : Do(o, y).op = o /\ Do(o, y).of = y
    BY DEF Do
  <2>11. ASSUME NEW m \in DOMAIN app.monotonics
         PROVE  m \in tqs' \/ Has(main', Do("new_timer_queue", m))
    BY <1>1, <2>1, <2>3, <2>6, <2>10
  <2>12. ASSUME NEW m \in DOMAIN app.monotonics
         PROVE  m \in mono' \/ Has(main', Do("store", m))
    BY <1>1, <2>1, <2>4, <2>6, <2>10
  <2>13. ASSUME NEW r \in LiveLate(app)
         PROVE  r \in late' \/ Has(main', Do("write", r))
    BY <1>1, <2>1, <2>5, <2>6, <2>10
  <2>14. QED BY <2>2, <2>9, <2>11, <2>12, <2>13 DEF Supplied
<1>4. QED BY <1>2, <1>3, NextIs


-----------------------------------------------------------------------------
(* The slots of a task: what waits in the timer queues is a sum over them. *)
Under(D, sc, t) ==
    CHOOSE g : g = [s \in SUBSET D |-> IF s = {} THEN 0
                                       ELSE sc[First(s)][t] + g[s \ {First(s)}]]

LEMMA WaitingIs ==
    \A t : Waiting(t) = Under(DOMAIN app.monotonics, scheduled, t)[DOMAIN app.monotonics]
BY DEF Waiting, MapThenSumSet, MapThenFoldSet, Under, First

LEMMA UnderIsTotal ==
    ASSUME NEW D, IsFiniteSet(D), NEW T, NEW sc \in [D -> [T -> Nat]], NEW t \in T
    PROVE  /\ Under(D, sc, t)[D] = Total(D, [m \in D |-> sc[m][t]])
           /\ Under(D, sc, t)[D] \in Nat
<1> DEFINE f == [m \in D |-> sc[m][t]]
           P(g) == g = [s \in SUBSET D |-> IF s = {} THEN 0
                                           ELSE sc[First(s)][t] + g[s \ {First(s)}]]
<1>1. \A m \in D : f[m] = sc[m][t] /\ f[m] \in Nat
  OBVIOUS
<1>2. \A s \in SUBSET D : s # {} => First(s) \in D
  BY DEF First
<1>3. \A g : P(g) <=> SumsUp(g, D, f)
  <2> HIDE DEF f
  <2>1. \A s \in SUBSET D : s # {} => f[First(s)] = sc[First(s)][t]
    BY <1>1, <1>2
  <2>2. \A g : [s \in SUBSET D |-> IF s = {} THEN 0
                                   ELSE sc[First(s)][t] + g[s \ {First(s)}]]
               = [s \in SUBSET D |-> IF s = {} THEN 0
                                     ELSE f[First(s)] + g[s \ {First(s)}]]
    BY <2>1
  <2>3. QED BY <2>2 DEF SumsUp
<1> HIDE DEF f
<1>4. PICK g : SumsUp(g, D, f)
  BY <1>1, NaturalsSumUp
<1>5. P(Under(D, sc, t))
  <2>1. P(g)
    BY <1>3, <1>4
  <2>2. Under(D, sc, t) = CHOOSE h : P(h)
    BY DEF Under
  <2> HIDE DEF P
  <2>3. QED BY <2>1, <2>2, Zenon
<1>6. SumsUp(Under(D, sc, t), D, f)
  <2> HIDE DEF P
  <2>1. QED BY <1>3, <1>5, Zenon
<1>7. Total(D, f) = Under(D, sc, t)[D]
  BY <1>6, TotalIs
<1>8. Total(D, f) \in Nat
  BY <1>1, TotalIsNatural
<1>9. QED BY <1>7, <1>8 DEF f

(* One entry more or less in one queue. *)
LEMMA UnderMoves ==
    ASSUME NEW D, IsFiniteSet(D), NEW T, NEW sc \in [D -> [T -> Nat]],
           NEW sd \in [D -> [T -> Nat]], NEW z \in D, NEW t \in T,
           \A m \in D \ {z} : sd[m][t] = sc[m][t]
    PROVE  Under(D, sd, t)[D] = Under(D, sc, t)[D] - sc[z][t] + sd[z][t]
<1> DEFINE f == [m \in D |-> sc[m][t]]
           h == [m \in D |-> sd[m][t]]
<1>1. Under(D, sc, t)[D] = Total(D, f)
  BY UnderIsTotal
<1>2. Under(D, sd, t)[D] = Total(D, h)
  BY UnderIsTotal
<1>3. \A m \in D : f[m] \in Nat
  OBVIOUS
<1>4. h[z] \in Nat /\ \A m \in D \ {z} : h[m] = f[m]
  OBVIOUS
<1>5. f[z] = sc[z][t] /\ h[z] = sd[z][t]
  OBVIOUS
<1> HIDE DEF f, h
<1>6. Total(D, h) = Total(D, f) - f[z] + h[z]
  BY <1>3, <1>4, TotalChanged
<1>7. QED BY <1>1, <1>2, <1>5, <1>6

OneEntry(D, T, sc, sd, z, u) ==
    \A m \in D, t \in T : m # z \/ t # u => sd[m][t] = sc[m][t]

LEMMA UnderChanged ==
    ASSUME NEW D, IsFiniteSet(D), NEW T, NEW sc \in [D -> [T -> Nat]],
           NEW sd \in [D -> [T -> Nat]], NEW z \in D, NEW u \in T,
           OneEntry(D, T, sc, sd, z, u)
    PROVE  /\ Under(D, sd, u)[D] = Under(D, sc, u)[D] - sc[z][u] + sd[z][u]
           /\ \A t \in T \ {u} : Under(D, sd, t)[D] = Under(D, sc, t)[D]
<1>1. \A m \in D \ {z} : \A t \in T : sd[m][t] = sc[m][t]
  BY DEF OneEntry
<1>2. ASSUME NEW t \in T
      PROVE  Under(D, sd, t)[D] = Under(D, sc, t)[D] - sc[z][t] + sd[z][t]
  <2>1. \A m \in D \ {z} : sd[m][t] = sc[m][t]
    BY <1>1
  <2>2. QED BY <2>1, UnderMoves
<1>3. ASSUME NEW t \in T, t # u
      PROVE  Under(D, sd, t)[D] = Under(D, sc, t)[D]
  <2> DEFINE x == Under(D, sc, t)[D]
             y == sc[z][t]
             w == Under(D, sd, t)[D]
  <2>1. sd[z][t] = y /\ y \in Nat
    BY <1>3 DEF OneEntry
  <2>2. w = x - y + sd[z][t]
    BY <1>2
  <2>3. x \in Nat
    BY UnderIsTotal
  <2> HIDE DEF x, y, w
  <2>4. w = x
    BY <2>1, <2>2, <2>3
  <2>5. QED BY <2>4 DEF x, w
<1>4. QED BY <1>2, <1>3

LEMMA UnderNone ==
    ASSUME NEW D, IsFiniteSet(D), NEW T, NEW sc \in [D -> [T -> Nat]], NEW t \in T,
           \A m \in D : sc[m][t] = 0
    PROVE  Under(D, sc, t)[D] = 0
<1> DEFINE f == [m \in D |-> sc[m][t]]
<1>1. Under(D, sc, t)[D] = Total(D, f)
  BY UnderIsTotal
<1>2. \A m \in D : f[m] = 0
  OBVIOUS
<1> HIDE DEF f
<1>3. Total(D, f) = 0
  BY <1>2, TotalOfNone
<1>4. QED BY <1>1, <1>3

(* The queues of a state. *)
LEMMA QueueFacts ==
    ASSUME StartInv
    PROVE  /\ free \in [DOMAIN app.software -> Nat] /\ ready \in [DOMAIN app.software -> Nat]
           /\ scheduled \in [DOMAIN app.monotonics -> [DOMAIN app.software -> Nat]]
           /\ IsFiniteSet(DOMAIN app.monotonics)
           /\ \A t \in DOMAIN app.software : Waiting(t) \in Nat
<1>1. IsFiniteSet(DOMAIN app.monotonics)
  <2>1. IsFiniteSet(Names(app) \cup DOMAIN app.monotonics \cup DOMAIN app.resources)
    BY AppsAssumption DEF StartInv, Steps, WellFormed
  <2>2. DOMAIN app.monotonics
          \subseteq Names(app) \cup DOMAIN app.monotonics \cup DOMAIN app.resources
    OBVIOUS
  <2>3. QED BY <2>1, <2>2, FS_Subset
<1>2. /\ free \in [DOMAIN app.software -> Nat] /\ ready \in [DOMAIN app.software -> Nat]
      /\ scheduled \in [DOMAIN app.monotonics -> [DOMAIN app.software -> Nat]]
  BY DEF StartInv, Counted
<1>3. \A t \in DOMAIN app.software :
         Under(DOMAIN app.monotonics, scheduled, t)[DOMAIN app.monotonics] \in Nat
  BY <1>1, <1>2, UnderIsTotal
<1>4. QED BY <1>1, <1>2, <1>3, WaitingIs

(* What is enough for the slots to stay counted. *)
LEMMA CountedStays ==
    ASSUME StartInv, app' = app, main' = main,
           free' \in [DOMAIN app.software -> Nat], ready' \in [DOMAIN app.software -> Nat],
           scheduled' \in [DOMAIN app.monotonics -> [DOMAIN app.software -> Nat]],
           \A t \in DOMAIN app.software : Slots(t)' = Slots(t),
           Stage(main[1]) >= 2
    PROVE  Counted'
<1>1. ~(Stage(main[1]) < 2)
  <2>1. Stage(main[1]) \in 0..5
    BY StageType
  <2>2. QED BY <2>1
<1>2. \A t \in DOMAIN app.software : Slots(t)' = app.software[t].capacity
  BY Prepared
<1>3. QED BY <1>1, <1>2 DEF Counted

LEMMA CountedWhenIdle ==
    ASSUME StartInv, app' = app, main' = main, queues' = queues
    PROVE  Counted'
<1>1. free' = free /\ ready' = ready /\ scheduled' = scheduled
  BY DEF queues
<1>2. \A t : Waiting(t)' = Waiting(t)
  <2>1. \A t : Waiting(t)' =
          Under(DOMAIN app'.monotonics, scheduled', t)[DOMAIN app'.monotonics]
    BY DEF Waiting, MapThenSumSet, MapThenFoldSet, Under, First
  <2>2. QED BY <1>1, <2>1, WaitingIs
<1>3. \A t : Slots(t)' = Slots(t)
  BY <1>1, <1>2 DEF Slots
<1>4. QED BY <1>1, <1>3 DEF StartInv, Counted

(* A slot goes from one queue of its task to another. *)
LEMMA WaitingAfter ==
    \A t : Waiting(t)' = Under(DOMAIN app'.monotonics, scheduled', t)[DOMAIN app'.monotonics]
BY DEF Waiting, MapThenSumSet, MapThenFoldSet, Under, First

LEMMA MovesToReady ==
    ASSUME StartInv, app' = app, main' = main, scheduled' = scheduled,
           Stage(main[1]) >= 2, NEW t \in DOMAIN app.software, NEW d \in {-1, 1},
           free[t] + d \in Nat, ready[t] - d \in Nat,
           free' = [free EXCEPT ![t] = free[t] + d],
           ready' = [ready EXCEPT ![t] = ready[t] - d]
    PROVE  Counted'
<1> DEFINE T == DOMAIN app.software
<1>1. /\ free \in [T -> Nat] /\ ready \in [T -> Nat]
      /\ scheduled \in [DOMAIN app.monotonics -> [T -> Nat]]
      /\ \A u \in T : Waiting(u) \in Nat
  BY QueueFacts
<1>2. \A u : Waiting(u)' = Waiting(u)
  BY WaitingIs, WaitingAfter
<1>3. free' \in [T -> Nat] /\ ready' \in [T -> Nat]
  BY <1>1
<1>4. ASSUME NEW u \in T PROVE free'[u] + ready'[u] = free[u] + ready[u]
  <2>1. free[u] \in Nat /\ ready[u] \in Nat /\ d \in Int
    BY <1>1
  <2>2. CASE u = t
    <3>1. free'[u] = free[u] + d /\ ready'[u] = ready[u] - d
      BY <1>1, <2>2
    <3>2. QED BY <2>1, <3>1
  <2>3. CASE u # t
    BY <1>1, <2>3
  <2>4. QED BY <2>2, <2>3
<1>5. \A u \in T : Slots(u)' = Slots(u)
  BY <1>2, <1>4 DEF Slots
<1>6. QED BY <1>1, <1>3, <1>5, CountedStays

LEMMA WaitingMoves ==
    ASSUME StartInv, app' = app,
           NEW m \in DOMAIN app.monotonics, NEW t \in DOMAIN app.software,
           scheduled' \in [DOMAIN app.monotonics -> [DOMAIN app.software -> Nat]],
           OneEntry(DOMAIN app.monotonics, DOMAIN app.software, scheduled, scheduled', m, t)
    PROVE  /\ Waiting(t)' = Waiting(t) - scheduled[m][t] + scheduled'[m][t]
           /\ \A u \in DOMAIN app.software \ {t} : Waiting(u)' = Waiting(u)
<1> DEFINE T == DOMAIN app.software
           D == DOMAIN app.monotonics
           sc == scheduled
           sd == scheduled'
<1>1. sc \in [D -> [T -> Nat]] /\ IsFiniteSet(D)
  BY QueueFacts
<1>2. sd \in [D -> [T -> Nat]] /\ m \in D /\ t \in T
  OBVIOUS
<1>3. OneEntry(D, T, sc, sd, m, t)
  OBVIOUS
<1>4. /\ \A u : Waiting(u) = Under(D, sc, u)[D]
      /\ \A u : Waiting(u)' = Under(D, sd, u)[D]
  BY WaitingIs, WaitingAfter
<1> HIDE DEF T, D, sc, sd
<1>5. /\ Under(D, sd, t)[D] = Under(D, sc, t)[D] - sc[m][t] + sd[m][t]
      /\ \A u \in T \ {t} : Under(D, sd, u)[D] = Under(D, sc, u)[D]
  BY <1>1, <1>2, <1>3, UnderChanged
<1>6. QED BY <1>4, <1>5 DEF T, sc, sd

(* An entry goes into a timer queue or leaves it. *)
LEMMA MovesToTimer ==
    ASSUME StartInv, app' = app, main' = main, Stage(main[1]) >= 2,
           NEW m \in DOMAIN app.monotonics, NEW t \in DOMAIN app.software,
           NEW n \in Nat, scheduled' = [scheduled EXCEPT ![m][t] = n],
           free' \in [DOMAIN app.software -> Nat], ready' \in [DOMAIN app.software -> Nat],
           \A u \in DOMAIN app.software \ {t} :
              free'[u] + ready'[u] = free[u] + ready[u],
           free'[t] + ready'[t] = free[t] + ready[t] + scheduled[m][t] - n
    PROVE  Counted'
<1> DEFINE T == DOMAIN app.software
           D == DOMAIN app.monotonics
<1>1. /\ free \in [T -> Nat] /\ ready \in [T -> Nat] /\ scheduled \in [D -> [T -> Nat]]
      /\ \A u \in T : Waiting(u) \in Nat
      /\ IsFiniteSet(D)
  BY QueueFacts
<1>2. /\ scheduled' \in [D -> [T -> Nat]] /\ scheduled'[m][t] = n
      /\ OneEntry(D, T, scheduled, scheduled', m, t)
  BY <1>1 DEF OneEntry
<1>3. /\ Waiting(t)' = Waiting(t) - scheduled[m][t] + n
      /\ \A u \in T \ {t} : Waiting(u)' = Waiting(u)
  BY <1>2, WaitingMoves
<1> HIDE DEF D, T
<1>4. /\ Waiting(t) \in Nat /\ scheduled[m][t] \in Nat
      /\ free[t] \in Nat /\ ready[t] \in Nat /\ free'[t] \in Nat /\ ready'[t] \in Nat
  BY <1>1 DEF D, T
<1>5. ASSUME NEW u \in T PROVE Slots(u)' = Slots(u)
  <2>1. CASE u = t
    <3> DEFINE w == Waiting(t)
               v == Waiting(t)'
               s == scheduled[m][t]
    <3>1. free'[t] + ready'[t] = free[t] + ready[t] + s - n /\ v = w - s + n
      BY <1>3
    <3>2. w \in Nat /\ s \in Nat
      BY <1>4
    <3> HIDE DEF w, v, s
    <3>3. free'[t] + ready'[t] + v = free[t] + ready[t] + w
      BY <1>4, <3>1, <3>2
    <3>4. QED BY <2>1, <3>3 DEF Slots, w, v
  <2>2. CASE u # t
    <3>1. Waiting(u)' = Waiting(u) /\ free'[u] + ready'[u] = free[u] + ready[u]
      BY <1>3, <2>2 DEF T
    <3>2. QED BY <3>1 DEF Slots
  <2>3. QED BY <2>1, <2>2
<1>6. QED BY <1>2, <1>5, CountedStays DEF D, T

LEMMA FillCounts ==
    ASSUME StartInv, Statement
    PROVE  Counted'
<1> DEFINE T == DOMAIN app.software
           o == main[1].of
<1>1. /\ free \in [T -> Nat] /\ ready \in [T -> Nat]
      /\ scheduled \in [DOMAIN app.monotonics -> [T -> Nat]]
  BY QueueFacts
<1>2. /\ app' = app /\ app \in Apps /\ main[1] \in Statements(app)
      /\ main[1] = Do(main[1].op, o) /\ (main[1].op = "fill" => o \in T)
  BY StatementSteps, MainFacts, StatementKinds
<1>3. ready' = ready /\ scheduled' = scheduled
  BY DEF Statement, disable_interrupts, fill, set_priority, unmask, new_timer_queue,
     sleep_on_exit, init_returns, write_late, store_monotonic, enable_interrupts, queues
<1>4. \A u : Waiting(u)' = Waiting(u)
  BY <1>2, <1>3, WaitingIs, WaitingAfter
<1>5. /\ fill => main[1].op = "fill"
      /\ fill => free' = [free EXCEPT ![o] = app.software[o].capacity]
      /\ ~fill => free' = free
      /\ main[1].op = "fill" => fill
  <2>1. fill => main[1].op = "fill" /\ free' = [free EXCEPT ![o] = app.software[o].capacity]
    BY StatementRuns DEF fill
  <2>2. ~fill => free' = free
    BY DEF Statement, disable_interrupts, set_priority, unmask, new_timer_queue,
       sleep_on_exit, init_returns, write_late, store_monotonic, enable_interrupts, queues
  <2>3. ASSUME main[1].op = "fill" PROVE fill
    <3>1. ~init_returns
      BY <2>3, StatementSteps DEF StartInv, Phases
    <3>2. QED BY <2>3, <3>1, StatementRuns DEF Statement, disable_interrupts, set_priority,
       unmask, new_timer_queue, sleep_on_exit, write_late, store_monotonic, enable_interrupts
  <2>4. QED BY <2>1, <2>2, <2>3
<1>6. \A u \in T : app.software[u].capacity \in Nat
  BY <1>2, AppsAssumption DEF WellFormed
<1>7. free' \in [T -> Nat]
  BY <1>1, <1>2, <1>5, <1>6
<1>8. Stage(main'[1]) < 2 => Stage(main[1]) < 2
  <2>1. Stage(main[1]) <= Stage(main'[1]) /\ Stage(main[1]) \in 0..5
        /\ Stage(main'[1]) \in 0..5
    BY LeftAfter, StageType
  <2>2. QED BY <2>1
<1>9. Stage(main'[1]) < 2 =>
         \A u \in T : ready[u] = 0 /\ \A m \in DOMAIN app.monotonics : scheduled[m][u] = 0
  BY <1>8 DEF StartInv, Counted
<1>10. ASSUME NEW u \in T
       PROVE  Slots(u)' = app.software[u].capacity \/ Has(main', Do("fill", u))
  <2>1. CASE main[1] = Do("fill", u)
    <3>1. main[1].op = "fill" /\ o = u
      BY <2>1 DEF Do
    <3>2. free'[u] = app.software[u].capacity
      BY <1>1, <1>5, <3>1
    <3>3. Stage(main[1]) < 2
      BY <3>1, StageOf
    <3>4. ready[u] = 0 /\ \A m \in DOMAIN app.monotonics : scheduled[m][u] = 0
      BY <3>3 DEF StartInv, Counted
    <3>5. Under(DOMAIN app.monotonics, scheduled, u)[DOMAIN app.monotonics] = 0
      BY <1>1, <3>4, QueueFacts, UnderNone
    <3>6. Waiting(u)' = 0
      BY <1>4, <3>5, WaitingIs
    <3>7. app.software[u].capacity + 0 + 0 = app.software[u].capacity
      BY <1>6
    <3>8. QED BY <1>3, <3>2, <3>4, <3>6, <3>7 DEF Slots
  <2>2. CASE main[1] # Do("fill", u)
    <3>1. Has(main, Do("fill", u)) => Has(main', Do("fill", u))
      BY <2>2, LeftAfter
    <3>2. free'[u] = free[u]
      <4>1. main[1].op = "fill" => o # u
        BY <1>2, <2>2
      <4>2. QED BY <1>1, <1>5, <4>1
    <3>3. Slots(u)' = Slots(u)
      BY <1>3, <1>4, <3>2 DEF Slots
    <3>4. Slots(u) = app.software[u].capacity \/ Has(main, Do("fill", u))
      BY DEF StartInv, Counted
    <3>5. QED BY <3>1, <3>3, <3>4
  <2>3. QED BY <2>1, <2>2
<1>11. QED BY <1>1, <1>2, <1>3, <1>7, <1>9, <1>10 DEF Counted

LEMMA CountedKept ==
    ASSUME StartInv, Next
    PROVE  Counted'
<1> DEFINE T == DOMAIN app.software
<1>1. CASE Statement
  BY <1>1, FillCounts
<1>2. CASE Elsewhere
  <2>1. app' = app /\ main' = main /\ tqs' = tqs /\ mono' = mono
    BY <1>2, ElsewhereKeeps
  <2>2. /\ free \in [T -> Nat] /\ ready \in [T -> Nat]
        /\ scheduled \in [DOMAIN app.monotonics -> [T -> Nat]]
    BY QueueFacts
  <2>3. CASE \/ call_init \/ call_idle \/ wfi
             \/ hardware_task_returns \/ software_task_returns \/ dispatcher_returns
             \/ timer_returns
             \/ \E l \in Lines(app) : Take(l) \/ DevicePend(l) \/ pend(l)
             \/ \E m \in DOMAIN app.monotonics, t \in DOMAIN app.software,
                   first \in BOOLEAN : reschedule_at(m, t, first)
             \/ \E r \in DOMAIN app.resources : lock(r)
             \/ unlock \/ Panic
    <3>1. queues' = queues
      BY <2>3 DEF call_init, call_idle, wfi, hardware_task_returns, software_task_returns,
         dispatcher_returns, timer_returns, Take, DevicePend, pend, reschedule_at, lock,
         unlock, Panic, Panics
    <3>2. QED BY <2>1, <3>1, CountedWhenIdle
  <2>4. ASSUME InUserCode
        PROVE  Stage(main[1]) >= 2 /\ tqs = DOMAIN app.monotonics
    <3>1. Stage(main[1]) \in {2, 5}
      BY <2>4, UserCodeRuns DEF InUserCode
    <3>2. Stage(main[1]) >= 2
      BY <3>1
    <3>3. QED BY <3>2, Prepared
  <2>5. ASSUME NEW t \in T, dispatch(t)
        PROVE  Counted'
    <3>1. /\ ready[t] > 0 /\ scheduled' = scheduled
          /\ free' = [free EXCEPT ![t] = free[t] + 1]
          /\ ready' = [ready EXCEPT ![t] = ready[t] - 1]
      BY <2>5 DEF dispatch
    <3>2. Stage(main[1]) >= 2
      BY <2>5, HandlerRuns DEF dispatch, Running
    <3>3. free[t] + 1 \in Nat /\ ready[t] - 1 \in Nat
      BY <2>2, <3>1
    <3>4. QED BY <2>1, <3>1, <3>2, <3>3, MovesToReady
  <2>6. ASSUME NEW t \in T, spawn(t)
        PROVE  Counted'
    <3>1. /\ free[t] > 0 /\ scheduled' = scheduled /\ InUserCode
          /\ free' = [free EXCEPT ![t] = free[t] - 1]
          /\ ready' = [ready EXCEPT ![t] = ready[t] + 1]
      BY <2>6 DEF spawn
    <3>2. /\ free[t] + (-1) \in Nat /\ ready[t] - (-1) \in Nat
          /\ free[t] + (-1) = free[t] - 1 /\ ready[t] - (-1) = ready[t] + 1
      BY <2>2, <3>1
    <3>3. /\ free' = [free EXCEPT ![t] = free[t] + (-1)]
          /\ ready' = [ready EXCEPT ![t] = ready[t] - (-1)]
      BY <3>1, <3>2
    <3>4. -1 \in {-1, 1}
      OBVIOUS
    <3>5. QED BY <2>1, <2>4, <3>1, <3>2, <3>3, <3>4, MovesToReady
  <2>7. ASSUME NEW t \in T, timer_releases(t)
        PROVE  Counted'
    <3> DEFINE m == TimerOf(Current.line)
               n == scheduled[m][t] - 1
    <3>1. /\ m \in mono /\ scheduled[m][t] > 0 /\ free' = free
          /\ scheduled' = [scheduled EXCEPT ![m][t] = scheduled[m][t] - 1]
          /\ ready' = [ready EXCEPT ![t] = ready[t] + 1]
      BY <2>7 DEF timer_releases
    <3>2. m \in DOMAIN app.monotonics
      BY <3>1 DEF StartInv, Supplied
    <3>3. Stage(main[1]) >= 2
      BY <2>7, HandlerRuns DEF timer_releases, Running
    <3>4. scheduled' = [scheduled EXCEPT ![m][t] = n]
      BY <3>1
    <3> HIDE DEF m
    <3>5. scheduled[m][t] \in Nat
      BY <2>2, <3>2
    <3>6. n \in Nat
      BY <3>1, <3>5
    <3>7. /\ ready' \in [T -> Nat] /\ free' \in [T -> Nat]
          /\ \A u \in T \ {t} : ready'[u] = ready[u] /\ free'[u] = free[u]
          /\ ready'[t] = ready[t] + 1 /\ free'[t] = free[t]
      BY <2>2, <3>1
    <3>8. free'[t] + ready'[t] = free[t] + ready[t] + scheduled[m][t] - n
      <4>1. \A a, b, c \in Nat : a + (b + 1) = a + b + c - (c - 1)
        OBVIOUS
      <4>2. free[t] \in Nat /\ ready[t] \in Nat
        BY <2>2
      <4>3. QED BY <3>5, <3>7, <4>1, <4>2
    <3> HIDE DEF n
    <3>9. QED BY <2>1, <3>2, <3>3, <3>4, <3>6, <3>7, <3>8, MovesToTimer
  <2>8. ASSUME NEW m \in DOMAIN app.monotonics, NEW t \in T, NEW first \in BOOLEAN,
               spawn_after(m, t, first)
        PROVE  Counted'
    <3> DEFINE n == scheduled[m][t] + 1
    <3>1. InUserCode /\ free[t] > 0 /\ ready' = ready
      BY <2>8 DEF spawn_after, InUserCode
    <3>2. ~(m \notin tqs \/ BaselinePanics(m))
      BY <2>4, <3>1 DEF BaselinePanics, now_panics
    <3>3. /\ free' = [free EXCEPT ![t] = free[t] - 1]
          /\ scheduled' = [scheduled EXCEPT ![m][t] = scheduled[m][t] + 1]
      BY <2>8, <3>2 DEF spawn_after
    <3>4. scheduled' = [scheduled EXCEPT ![m][t] = n]
      BY <3>3
    <3>5. scheduled[m][t] \in Nat /\ n \in Nat
      BY <2>2
    <3>6. free[t] \in Nat /\ free[t] - 1 \in Nat
      BY <2>2, <3>1
    <3>7. /\ ready' \in [T -> Nat] /\ free' \in [T -> Nat]
          /\ \A u \in T \ {t} : ready'[u] = ready[u] /\ free'[u] = free[u]
          /\ ready'[t] = ready[t] /\ free'[t] = free[t] - 1
      BY <2>2, <3>1, <3>3, <3>6
    <3>8. free'[t] + ready'[t] = free[t] + ready[t] + scheduled[m][t] - n
      <4>1. \A a, b, c \in Nat : (a - 1) + b = a + b + c - (c + 1)
        OBVIOUS
      <4>2. free[t] \in Nat /\ ready[t] \in Nat
        BY <2>2
      <4>3. QED BY <3>5, <3>7, <4>1, <4>2
    <3> HIDE DEF n
    <3>9. QED BY <2>1, <2>4, <3>1, <3>4, <3>5, <3>7, <3>8, MovesToTimer
  <2>9. QED BY <1>2, <2>3, <2>5, <2>6, <2>7, <2>8 DEF Elsewhere
<1>3. QED BY <1>1, <1>2, NextIs

-----------------------------------------------------------------------------
(* What may be on the stack. *)
FrameType ==
    [line : {"main"} \cup Lines(app),
     context : Contexts(app) \cup {"main", "dispatcher", "timer"},
     locked : Seq(DOMAIN app.resources)]

LEMMA StackTyped ==
    ASSUME StartInv
    PROVE  /\ stack \in Seq(FrameType) /\ Current \in FrameType
           /\ Len(stack) \in Nat /\ Len(stack) > 0 /\ Len(stack) \in 1..Len(stack)
           /\ Current = stack[Len(stack)]
           /\ Current.locked \in Seq(Lockable(app, Current.context))
<1>1. stack \in Seq(FrameType) /\ Len(stack) > 0
  BY DEF StartInv, Frames, FrameType
<1>2. Len(stack) \in Nat /\ Len(stack) \in 1..Len(stack) /\ Current = stack[Len(stack)]
  BY <1>1, LenProperties DEF Current, Last
<1>3. Current \in FrameType
  BY <1>1, <1>2, ElementOfSeq
<1>4. Current.locked \in Seq(Lockable(app, Current.context))
  BY <1>2 DEF StartInv, Frames
<1>5. QED BY <1>1, <1>2, <1>3, <1>4

(* The top of the stack is replaced by `f`. *)
TopIs(f) == OnTop(FrameType, stack, f, stack')

LEMMA BecomesIs ==
    ASSUME StartInv, NEW c \in Contexts(app) \cup {"main", "dispatcher", "timer"}, Becomes(c)
    PROVE  TopIs([line |-> Current.line, context |-> c, locked |-> Current.locked])
<1> DEFINE f == [Current EXCEPT !.context = c]
<1>1. /\ stack \in Seq(FrameType) /\ Len(stack) > 0 /\ Current \in FrameType
  BY StackTyped
<1>2. f = [line |-> Current.line, context |-> c, locked |-> Current.locked] /\ f \in FrameType
  <2>1. /\ Current = [line |-> Current.line, context |-> Current.context,
                      locked |-> Current.locked]
        /\ Current.line \in {"main"} \cup Lines(app)
        /\ Current.locked \in Seq(DOMAIN app.resources)
    BY <1>1 DEF FrameType
  <2> DEFINE g == Current
             h == [line |-> g.line, context |-> c, locked |-> g.locked]
  <2>2. g = [line |-> g.line, context |-> g.context, locked |-> g.locked]
    BY <2>1
  <2> HIDE DEF g
  <2>3. [g EXCEPT !.context = c] = h
    BY <2>2
  <2>4. h \in FrameType
    BY <2>1 DEF FrameType, g
  <2>5. QED BY <2>3, <2>4 DEF g
<1>3. stack' = Append(Front(stack), f)
  BY DEF Becomes, ReplaceCurrent
<1> HIDE DEF f
<1>4. OnTop(FrameType, stack, f, Append(Front(stack), f))
  BY <1>1, <1>2, ReplacedTop
<1>5. TopIs(f)
  BY <1>3, <1>4 DEF TopIs
<1>6. QED BY <1>2, <1>5

LEMMA LocksIs ==
    ASSUME StartInv, NEW q \in Seq(DOMAIN app.resources),
           ReplaceCurrent([Current EXCEPT !.locked = q])
    PROVE  TopIs([line |-> Current.line, context |-> Current.context, locked |-> q])
<1> DEFINE f == [Current EXCEPT !.locked = q]
<1>1. /\ stack \in Seq(FrameType) /\ Len(stack) > 0 /\ Current \in FrameType
  BY StackTyped
<1>2. /\ f = [line |-> Current.line, context |-> Current.context, locked |-> q]
      /\ f \in FrameType
  BY <1>1 DEF FrameType
<1>3. stack' = Append(Front(stack), f)
  BY DEF ReplaceCurrent
<1> HIDE DEF f
<1>4. OnTop(FrameType, stack, f, Append(Front(stack), f))
  BY <1>1, <1>2, ReplacedTop
<1>5. TopIs(f)
  BY <1>3, <1>4 DEF TopIs
<1>6. QED BY <1>2, <1>5

LEMMA ReturnedIs ==
    ASSUME StartInv, Returned, Len(stack) > 1
    PROVE  /\ stack' \in Seq(FrameType) /\ Len(stack') \in Nat /\ Len(stack') > 0
           /\ Len(stack') = Len(stack) - 1
           /\ \A i \in 1..Len(stack') : stack'[i] = stack[i] /\ i \in 1..Len(stack)
           /\ asleep' \in BOOLEAN
<1>1. stack \in Seq(FrameType) /\ Len(stack) > 0 /\ Len(stack) \in Nat
  BY StackTyped
<1>2. stack' = Front(stack)
  BY DEF Returned
<1>3. /\ stack' \in Seq(FrameType) /\ Len(stack') = Len(stack) - 1
      /\ \A i \in 1..Len(stack') : stack'[i] = stack[i] /\ i \in 1..Len(stack)
  BY <1>1, <1>2, PoppedOff
<1>4. Len(stack') \in Nat /\ Len(stack') > 0
  BY <1>1, <1>3
<1>5. QED BY <1>3, <1>4 DEF Returned

(* A handler is taken when nothing of `main` is left to prepare. *)
LEMMA VectorIs ==
    ASSUME StartInv, NEW l \in Lines(app)
    PROVE  /\ Vector(l) \in Contexts(app) \cup {"dispatcher", "timer"}
           /\ Handler(app, Frame(l, Vector(l)))
<1>1. app \in Apps /\ Range(app.interrupts) \cap Binds(app.hardware) = {}
  BY MainFacts, AppsAssumption DEF WellFormed
<1>2. CASE l \in Binds(app.hardware)
  <2> DEFINE c == CHOOSE t \in DOMAIN app.hardware : app.hardware[t].binds = l
  <2>1. \E t \in DOMAIN app.hardware : app.hardware[t].binds = l
    BY <1>2 DEF Binds
  <2>2. c \in DOMAIN app.hardware
    BY <2>1
  <2>3. Vector(l) = c /\ Declared(app, l) = app.hardware[c].priority
    BY <1>1, <1>2 DEF Vector, Declared
  <2> HIDE DEF c
  <2>4. c \notin DOMAIN app.software
    BY <1>1, <2>2, NamesApart
  <2>5. PRIORITY(app, c) = app.hardware[c].priority
    BY <2>2, <2>4 DEF PRIORITY
  <2>6. c \in Contexts(app)
    BY <2>2 DEF Contexts, Names
  <2>7. QED BY <2>2, <2>3, <2>5, <2>6 DEF Handler, Frame
<1>3. CASE l \notin Binds(app.hardware) /\ l \in Range(app.interrupts)
  BY <1>3 DEF Vector, Handler, Frame
<1>4. CASE l \notin Binds(app.hardware) /\ l \notin Range(app.interrupts)
  BY <1>4 DEF Vector, Handler, Frame, Lines
<1>5. QED BY <1>2, <1>3, <1>4

LEMMA TakeIs ==
    ASSUME StartInv, NEW l \in Lines(app), Take(l)
    PROVE  /\ Len(main) = 1 /\ Stage(main[1]) = 5
           /\ stack' \in Seq(FrameType) /\ Len(stack') = Len(stack) + 1
           /\ stack'[Len(stack) + 1] = Frame(l, Vector(l))
           /\ \A i \in 1..Len(stack) : stack'[i] = stack[i]
<1>1. l \in Takeable /\ ~primask /\ stack' = Append(stack, Frame(l, Vector(l)))
  BY DEF Take
<1>2. ~(Len(main) > 1)
  <2>1. SUFFICES ASSUME Len(main) > 1 PROVE FALSE
    OBVIOUS
  <2>2. main[1].op = "disable"
    BY <1>1, <2>1 DEF StartInv, Phases
  <2>3. unmasked = {} /\ pended \cap Exceptions = {}
    BY <2>2 DEF StartInv, Phases
  <2>4. QED BY <1>1, <2>3 DEF Takeable
<1>3. Len(main) = 1 /\ Stage(main[1]) = 5
  <2>1. Len(main) \in Nat \ {0} /\ (Len(main) = 1 <=> Stage(main[1]) = 5)
    BY MainFacts
  <2>2. \A n \in Nat \ {0} : ~(n > 1) => n = 1
    OBVIOUS
  <2>3. QED BY <1>2, <2>1, <2>2
<1> DEFINE f == Frame(l, Vector(l))
<1>4. f \in FrameType
  BY VectorIs, EmptySeq DEF Frame, FrameType
<1>5. stack' = Append(stack, f)
  BY <1>1
<1> HIDE DEF f
<1>6. stack \in Seq(FrameType)
  BY StackTyped
<1>7. /\ stack' \in Seq(FrameType) /\ Len(stack') = Len(stack) + 1
      /\ stack'[Len(stack) + 1] = f
      /\ \A i \in 1..Len(stack) : stack'[i] = stack[i]
  BY <1>4, <1>5, <1>6, PushedOn
<1>8. QED BY <1>3, <1>7 DEF f

-----------------------------------------------------------------------------
(* What a step leaves on the stack. *)
LEMMA StatementStack ==
    ASSUME StartInv, Statement
    PROVE  /\ ~init_returns => stack' = stack
           /\ init_returns =>
                 /\ TopIs([line |-> Current.line, context |-> "main",
                           locked |-> Current.locked])
                 /\ Current.context = "init" /\ main[1].op = "init"
<1>1. ASSUME ~init_returns PROVE stack' = stack
  BY <1>1 DEF Statement, disable_interrupts, fill, set_priority, unmask, new_timer_queue,
     sleep_on_exit, write_late, store_monotonic, enable_interrupts
<1>2. ASSUME init_returns
      PROVE  /\ TopIs([line |-> Current.line, context |-> "main",
                       locked |-> Current.locked])
             /\ Current.context = "init" /\ main[1].op = "init"
  <2>1. Becomes("main") /\ Current.context = "init"
    BY <1>2 DEF init_returns, Running
  <2>2. stack[1].context = "init"
    BY <1>2, StatementSteps
  <2>3. QED BY <2>1, <2>2, BecomesIs DEF StartInv, Phases
<1>3. QED BY <1>1, <1>2

LEMMA HandlerReturns ==
    ASSUME StartInv,
           \/ hardware_task_returns \/ dispatcher_returns \/ timer_returns
    PROVE  Returned /\ Len(stack) > 1
<1>1. \/ Current.context \in {"dispatcher", "timer"}
      \/ Current.context \in DOMAIN app.hardware
  BY DEF hardware_task_returns, dispatcher_returns, timer_returns, Running
<1>2. Len(stack) > 1
  BY <1>1, HandlerRuns
<1>3. QED BY <1>2 DEF hardware_task_returns, dispatcher_returns, timer_returns

(* The first frame: `main`, and init or idle when `main` calls it. *)
LEMMA LowestKept ==
    ASSUME StartInv, NEW f, TopIs(f), f.context = Current.context \/ Len(stack) > 1
    PROVE  Len(stack') = Len(stack) /\ stack'[1].context = stack[1].context
<1>1. /\ Len(stack') = Len(stack) /\ stack'[Len(stack)] = f
      /\ \A i \in 1..Len(stack) : i # Len(stack) => stack'[i] = stack[i]
  BY DEF TopIs, OnTop
<1>2. Len(stack) \in Nat /\ Len(stack) > 0 /\ Current = stack[Len(stack)]
  BY StackTyped
<1>3. CASE Len(stack) = 1
  BY <1>1, <1>2, <1>3
<1>4. CASE Len(stack) > 1
  <2>1. 1 \in 1..Len(stack) /\ 1 # Len(stack)
    BY <1>2, <1>4
  <2>2. QED BY <1>1, <2>1
<1>5. QED BY <1>3, <1>4, StackSize

LEMMA LowestFrame ==
    ASSUME StartInv, Elsewhere
    PROVE  /\ Len(main) > 1 => Len(stack') = 1
           /\ \/ stack'[1].context = stack[1].context
              \/ stack'[1].context = "init" /\ main[1].op = "init"
              \/ stack'[1].context = "idle" /\ Len(main) = 1
<1>1. Len(stack) \in Nat /\ Len(stack) > 0 /\ (Len(main) > 1 => Len(stack) = 1)
  BY StackTyped DEF StartInv, Phases
<1>2. Len(stack) > 1 => ~(Len(main) > 1)
  <2>1. \A n \in Nat : n > 1 => n # 1
    OBVIOUS
  <2>2. QED BY <1>1, <2>1
<1>3. CASE \/ wfi
           \/ \E t \in DOMAIN app.software : timer_releases(t) \/ spawn(t)
           \/ \E l \in Lines(app) : DevicePend(l) \/ pend(l)
           \/ \E m \in DOMAIN app.monotonics, t \in DOMAIN app.software,
                 first \in BOOLEAN : spawn_after(m, t, first) \/ reschedule_at(m, t, first)
           \/ Panic
  <2>1. stack' = stack
    BY <1>3 DEF wfi, timer_releases, spawn, DevicePend, pend, spawn_after, reschedule_at,
       Panic, Panics
  <2>2. QED BY <1>1, <2>1
<1>4. CASE call_init \/ call_idle
  <2> DEFINE c == IF call_init THEN "init" ELSE "idle"
  <2>1. /\ c = "init" => Becomes("init") /\ Next_is("init")
        /\ c = "idle" => Becomes("idle") /\ Next_is("idle")
        /\ c \in {"init", "idle"}
    BY <1>4 DEF call_init, call_idle
  <2> HIDE DEF c
  <2>2. Len(stack) = 1 /\ main[1].op = c /\ main[1] \in Statements(app)
    BY <2>1, StatementRuns
  <2>3. c = "idle" => app.idle /\ Len(main) = 1
    BY <2>2, MainFacts, StageOf, StatementKinds
  <2>4. c \in Contexts(app)
    BY <2>1, <2>3 DEF Contexts
  <2> DEFINE f == [line |-> Current.line, context |-> c, locked |-> Current.locked]
  <2>5. TopIs(f) /\ f.context = c
    BY <2>1, <2>4, BecomesIs
  <2> HIDE DEF f
  <2>6. Len(stack') = 1 /\ stack'[1] = f
    BY <2>2, <2>5 DEF TopIs, OnTop
  <2>7. QED BY <2>1, <2>2, <2>3, <2>5, <2>6
<1>5. CASE hardware_task_returns \/ dispatcher_returns \/ timer_returns
  <2>1. Returned /\ Len(stack) > 1
    BY <1>5, HandlerReturns
  <2>2. /\ Len(stack') \in Nat /\ Len(stack') > 0
        /\ \A i \in 1..Len(stack') : stack'[i] = stack[i]
    BY <2>1, ReturnedIs
  <2>3. 1 \in 1..Len(stack')
    BY <2>2
  <2>4. QED BY <1>2, <2>1, <2>2, <2>3
<1>6. ASSUME NEW t \in DOMAIN app.software, dispatch(t)
      PROVE  ~(Len(main) > 1) /\ stack'[1].context = stack[1].context
  <2>1. Len(stack) > 1 /\ Becomes(t) /\ t \in Contexts(app)
    BY <1>6, HandlerRuns DEF dispatch, Running, Contexts, Names
  <2>2. QED BY <1>2, <2>1, BecomesIs, LowestKept
<1>7. CASE software_task_returns
  <2>1. Len(stack) > 1 /\ Becomes("dispatcher")
    BY <1>7, HandlerRuns DEF software_task_returns
  <2>2. QED BY <1>2, <2>1, BecomesIs, LowestKept
<1>8. ASSUME NEW l \in Lines(app), Take(l)
      PROVE  ~(Len(main) > 1) /\ stack'[1].context = stack[1].context
  <2>1. 1 \in 1..Len(stack)
    BY <1>1
  <2>2. Len(main) = 1 /\ \A i \in 1..Len(stack) : stack'[i] = stack[i]
    BY <1>8, TakeIs
  <2>3. ~(Len(main) > 1)
    BY <2>2
  <2>4. QED BY <2>1, <2>2, <2>3
<1>9. ASSUME NEW r \in DOMAIN app.resources, lock(r)
      PROVE  Len(stack') = Len(stack) /\ stack'[1].context = stack[1].context
  <2> DEFINE q == Append(Current.locked, r)
             f == [line |-> Current.line, context |-> Current.context, locked |-> q]
  <2>1. Current.locked \in Seq(DOMAIN app.resources)
    BY StackTyped DEF FrameType
  <2>2. q \in Seq(DOMAIN app.resources)
    BY <2>1, AppendProperties
  <2>3. ReplaceCurrent([Current EXCEPT !.locked = q])
    BY <1>9 DEF lock
  <2>4. f.context = Current.context
    OBVIOUS
  <2> HIDE DEF q
  <2>5. TopIs(f)
    BY <2>2, <2>3, LocksIs
  <2> HIDE DEF f
  <2>6. QED BY <2>4, <2>5, LowestKept
<1>10. CASE unlock
  <2> DEFINE q == Front(Current.locked)
             f == [line |-> Current.line, context |-> Current.context, locked |-> q]
  <2>1. Current.locked \in Seq(DOMAIN app.resources) /\ Current.locked # <<>>
    BY <1>10, StackTyped DEF FrameType, unlock
  <2>2. q \in Seq(DOMAIN app.resources)
    <3>1. Len(Current.locked) > 0
      BY <2>1, EmptySeq
    <3>2. QED BY <2>1, <3>1, PoppedOff
  <2>3. ReplaceCurrent([Current EXCEPT !.locked = q])
    BY <1>10 DEF unlock
  <2>4. f.context = Current.context
    OBVIOUS
  <2> HIDE DEF q
  <2>5. TopIs(f)
    BY <2>2, <2>3, LocksIs
  <2> HIDE DEF f
  <2>6. Len(stack') = Len(stack) /\ stack'[1].context = stack[1].context
    BY <2>4, <2>5, LowestKept
  <2>7. QED BY <1>1, <2>6
<1>11. QED BY <1>1, <1>3, <1>4, <1>5, <1>6, <1>7, <1>8, <1>9, <1>10 DEF Elsewhere

(* A program that has failed stays where it is, whatever devices do; one   *)
(* that has not fails at most by a panic in init.                          *)
FailureFits ==
    failed # "nothing" =>
       failed \in {"now", "reschedule_after"} /\ stack[1].context = "init"

LEMMA FailureStays ==
    ASSUME Next, failed # "nothing"
    PROVE  failed' = failed /\ stack' = stack
BY DEF Next, Progress, MainStep, disable_interrupts, fill, set_priority, unmask,
   new_timer_queue, sleep_on_exit, init_returns, write_late, store_monotonic,
   enable_interrupts, call_init, call_idle, wfi, hardware_task_returns,
   software_task_returns, dispatcher_returns, timer_returns, dispatch, timer_releases,
   spawn, Take, DevicePend, pend, now, spawn_after, reschedule_at, reschedule_after, lock,
   unlock, Next_is, Running, Runs, InUserCode, rest

LEMMA FailsInInit ==
    ASSUME StartInv, Next
    PROVE  FailureFits'
<1>1. FailureFits
  BY DEF StartInv, Phases, FailureFits
<1>2. CASE failed # "nothing"
  BY <1>1, <1>2, FailureStays DEF FailureFits
<1>3. ASSUME failed' = failed, failed = "nothing"
      PROVE  FailureFits'
  BY <1>3 DEF FailureFits
<1>4. ASSUME failed = "nothing", Statement
      PROVE  failed' = failed
  BY <1>4 DEF Statement, disable_interrupts, fill, set_priority, unmask,
     new_timer_queue, sleep_on_exit, init_returns, write_late, store_monotonic,
     enable_interrupts, rest
<1>5. CASE timer_returns
  <2>1. Current.context = "timer"
    BY <1>5 DEF timer_returns, Running
  <2>2. Handler(app, Current) /\ Stage(main[1]) = 5
    BY <2>1, HandlerRuns
  <2>3. Current.line \in Binds(app.monotonics)
    BY <2>1, <2>2, MainFacts, NamesApart DEF Handler, Names
  <2> DEFINE m == TimerOf(Current.line)
  <2>4. m \in DOMAIN app.monotonics
    <3>1. \E k \in DOMAIN app.monotonics : app.monotonics[k].binds = Current.line
      BY <2>3 DEF Binds
    <3>2. QED BY <3>1 DEF TimerOf
  <2>5. m \in mono
    BY <2>2, <2>4, Finished
  <2>6. failed' = IF m \in mono THEN failed ELSE "timer handler"
    BY <1>5 DEF timer_returns
  <2>7. failed' = failed
    BY <2>5, <2>6
  <2>8. QED BY <1>2, <1>3, <2>7
<1>6. ASSUME NEW m \in DOMAIN app.monotonics, NEW t \in DOMAIN app.software,
             NEW first \in BOOLEAN, spawn_after(m, t, first)
      PROVE  failed' = failed
  <2>1. InUserCode
    BY <1>6 DEF spawn_after
  <2>2. Stage(main[1]) \in {2, 5}
    BY <2>1, UserCodeRuns DEF InUserCode
  <2>3. tqs = DOMAIN app.monotonics
    <3>1. Stage(main[1]) >= 2
      BY <2>2
    <3>2. QED BY <3>1, Prepared
  <2>4. ~(m \notin tqs \/ BaselinePanics(m))
    BY <2>3 DEF BaselinePanics, now_panics
  <2>5. QED BY <1>6, <2>4 DEF spawn_after
<1>7. CASE Panic
  <2>1. PICK m \in DOMAIN app.monotonics : m \notin mono
    BY <1>7 DEF Panic, now_panics
  <2>2. Current.context \in Contexts(app)
    BY <1>7 DEF Panic, InUserCode
  <2>3. Current.context = "init"
    <3>1. Stage(main[1]) # 5
      BY <2>1, Finished
    <3>2. QED BY <2>2, <3>1, UserCodeRuns
  <2>4. stack[1].context = "init"
    <3>1. ~Handler(app, Current)
      BY <2>3, MainFacts, NamesApart DEF Handler, Names
    <3>2. QED BY <2>3, <3>1, StackFacts, StackSize
  <2>5. stack' = stack /\ failed' \in {"now", "reschedule_after"}
    BY <1>7 DEF Panic, Panics
  <2>6. QED BY <2>4, <2>5 DEF FailureFits
<1>8. CASE \/ call_init \/ call_idle \/ wfi
           \/ hardware_task_returns \/ software_task_returns \/ dispatcher_returns
           \/ \E t \in DOMAIN app.software : dispatch(t) \/ timer_releases(t) \/ spawn(t)
           \/ \E l \in Lines(app) : Take(l) \/ DevicePend(l) \/ pend(l)
           \/ \E m \in DOMAIN app.monotonics, t \in DOMAIN app.software,
                 first \in BOOLEAN : reschedule_at(m, t, first)
           \/ \E r \in DOMAIN app.resources : lock(r)
           \/ unlock
  <2>1. failed' = failed
    BY <1>8 DEF call_init, call_idle, wfi, hardware_task_returns,
       software_task_returns, dispatcher_returns, dispatch, timer_releases, spawn, Take,
       DevicePend, pend, reschedule_at, lock, unlock, rest
  <2>2. QED BY <1>2, <1>3, <2>1
<1>9. Elsewhere => FailureFits'
  BY <1>2, <1>3, <1>5, <1>6, <1>7, <1>8 DEF Elsewhere
<1>10. QED BY <1>2, <1>3, <1>4, <1>9, NextIs

(* What user code and devices ask for is counted. *)
LEMMA EventsCounted ==
    ASSUME StartInv, Next
    PROVE  events' \in 0..MaxEvents
<1>1. events \in 0..MaxEvents /\ MaxEvents \in Nat
  BY AppsAssumption DEF StartInv, Phases
<1>2. events' = events \/ Happens
  BY DEF Next, Progress, MainStep, disable_interrupts, fill, set_priority, unmask,
     new_timer_queue, sleep_on_exit, init_returns, write_late, store_monotonic,
     enable_interrupts, call_init, call_idle, wfi, hardware_task_returns,
     software_task_returns, dispatcher_returns, timer_returns, dispatch, timer_releases,
     spawn, Take, DevicePend, pend, now, spawn_after, reschedule_at, reschedule_after,
     Panics, lock, unlock
<1>3. QED BY <1>1, <1>2 DEF Happens, CanHappen

LEMMA BitsTyped ==
    ASSUME StartInv, Next
    PROVE  {primask', asleep', sleeponexit'} \subseteq BOOLEAN
<1>1. {primask, asleep, sleeponexit} \subseteq BOOLEAN
  BY DEF StartInv, Phases
<1>2. CASE hardware_task_returns \/ dispatcher_returns \/ timer_returns
  <2>1. primask' = primask /\ sleeponexit' = sleeponexit
    BY <1>2 DEF hardware_task_returns, dispatcher_returns, timer_returns, rest
  <2>2. asleep' \in BOOLEAN
    BY <1>2, HandlerReturns, ReturnedIs
  <2>3. QED BY <1>1, <2>1, <2>2
<1>3. CASE ~(hardware_task_returns \/ dispatcher_returns \/ timer_returns)
  <2>1. /\ primask' \in {primask, TRUE, FALSE} /\ asleep' \in {asleep, TRUE, FALSE}
        /\ sleeponexit' \in {sleeponexit, TRUE}
    BY <1>3 DEF Next, Progress, MainStep, disable_interrupts, fill, set_priority, unmask,
       new_timer_queue, sleep_on_exit, init_returns, write_late, store_monotonic,
       enable_interrupts, call_init, call_idle, wfi,
       software_task_returns, dispatch, timer_releases,
       spawn, Take, DevicePend, pend, now, spawn_after, reschedule_at, reschedule_after,
       Panics, lock, unlock, rest
  <2>2. QED BY <1>1, <2>1
<1>4. QED BY <1>2, <1>3

(* Before interrupts are disabled none is unmasked. *)
LEMMA MaskedAtFirst ==
    ASSUME StartInv, Next, main'[1].op = "disable"
    PROVE  unmasked' = {} /\ pended' \cap Exceptions = {}
<1>1. CASE Statement
  <2>1. Stage(main[1]) <= Stage(main'[1])
        /\ (Stage(main[1]) \notin {1, 3} => Stage(main[1]) < Stage(main'[1]))
    BY <1>1, LeftAfter
  <2>2. Stage(main'[1]) = 0 /\ Stage(main[1]) \in 0..5
    BY StageOf, StageType
  <2>3. QED BY <2>1, <2>2
<1>2. CASE Elsewhere
  <2>1. main' = main
    BY <1>2, ElsewhereKeeps
  <2>2. Stage(main[1]) = 0 /\ main[1].op = "disable"
    BY <2>1, StageOf
  <2>3. unmasked = {} /\ pended \cap Exceptions = {}
    BY <2>2 DEF StartInv, Phases
  <2>4. ~InUserCode
    BY <2>2, UserCodeRuns DEF InUserCode
  <2>5. Current.context # "timer"
    BY <2>2, HandlerRuns
  <2>6. CASE \E l \in Lines(app) : DevicePend(l)
    BY <2>3, <2>6 DEF DevicePend
  <2>7. CASE ~(\E l \in Lines(app) : DevicePend(l))
    <3>1. unmasked' = unmasked /\ pended' \subseteq pended
      BY <1>2, <2>4, <2>5, <2>7 DEF Elsewhere, call_init, call_idle, wfi,
         hardware_task_returns, software_task_returns, dispatcher_returns, timer_returns,
         dispatch, timer_releases, spawn, Take, pend, spawn_after, reschedule_at, lock,
         unlock, Panic, hardware, Running
    <3>2. QED BY <2>3, <3>1
  <2>8. QED BY <2>6, <2>7
<1>3. QED BY <1>1, <1>2, NextIs

(* From then on PRIMASK is set until the last statement is left. *)
LEMMA DisabledUntilLast ==
    ASSUME StartInv, Next, Len(main') > 1, main'[1].op # "disable"
    PROVE  primask'
<1>1. Len(main) > 1 /\ main[1].op # "disable" => primask
  BY DEF StartInv, Phases
<1>2. CASE Elsewhere
  <2>1. main' = main /\ Len(main) > 1 /\ main[1].op # "disable"
    BY <1>2, ElsewhereKeeps
  <2>2. primask' = primask
    BY <1>2 DEF Elsewhere, call_init, call_idle, wfi, hardware_task_returns,
       software_task_returns, dispatcher_returns, timer_returns, dispatch, timer_releases,
       spawn, Take, DevicePend, pend, spawn_after, reschedule_at, lock, unlock, Panic,
       Panics
  <2>3. QED BY <1>1, <2>1, <2>2
<1>3. CASE Statement
  <2>1. Len(main) > 1 /\ Len(main') = Len(main) - 1
    BY <1>3, StatementSteps, LeftAfter
  <2>2. CASE disable_interrupts
    BY <2>2 DEF disable_interrupts
  <2>3. CASE enable_interrupts
    <3>1. main[1].op = "enable"
      BY <2>3, StatementRuns DEF enable_interrupts
    <3>2. Len(main) = 2
      BY <3>1, MainFacts, StageOf
    <3>3. Len(main') = 1
      BY <2>1, <3>2
    <3>4. QED BY <3>3
  <2>4. CASE ~disable_interrupts /\ ~enable_interrupts
    <3>1. primask' = primask
      BY <1>3, <2>4 DEF Statement, fill, set_priority, unmask, new_timer_queue,
         sleep_on_exit, init_returns, write_late, store_monotonic
    <3>2. main[1].op # "disable"
      <4>1. CASE init_returns
        BY <1>3, <4>1, StatementStack
      <4>2. CASE ~init_returns
        BY <1>3, <2>4, <4>2, StatementRuns DEF Statement, fill, set_priority, unmask,
           new_timer_queue, sleep_on_exit, write_late, store_monotonic
      <4>3. QED BY <4>1, <4>2
    <3>3. QED BY <1>1, <2>1, <3>1, <3>2
  <2>5. QED BY <2>2, <2>3, <2>4
<1>4. QED BY <1>2, <1>3, NextIs

LEMMA PhasesKept ==
    ASSUME StartInv, Next
    PROVE  Phases'
<1>1. ASSUME Len(main') > 1 PROVE Len(stack') = 1
  <2>1. CASE Elsewhere
    <3>1. main' = main
      BY <2>1, ElsewhereKeeps
    <3>2. QED BY <1>1, <2>1, <3>1, LowestFrame
  <2>2. CASE Statement
    <3>1. Len(stack) = 1
      BY <2>2, StatementSteps
    <3>2. QED BY <2>2, <3>1, StatementStack DEF TopIs, OnTop
  <2>3. QED BY <2>1, <2>2, NextIs
<1>2. ASSUME stack'[1].context \in {"init", "idle"}
      PROVE  /\ stack'[1].context = "init" => main'[1].op = "init"
             /\ stack'[1].context = "idle" => Len(main') = 1
  <2>1. CASE Elsewhere
    <3>1. main' = main
      BY <2>1, ElsewhereKeeps
    <3>2. /\ stack[1].context = "init" => main[1].op = "init"
          /\ stack[1].context = "idle" => Len(main) = 1
      BY DEF StartInv, Phases
    <3>3. QED BY <2>1, <3>1, <3>2, LowestFrame
  <2>2. CASE Statement
    <3>1. stack'[1].context = "main"
      <4>1. CASE init_returns
        <5> DEFINE f == [line |-> Current.line, context |-> "main",
                         locked |-> Current.locked]
        <5>1. TopIs(f) /\ f.context = "main" /\ Len(stack) = 1
          BY <2>2, <4>1, StatementStack, StatementSteps
        <5> HIDE DEF f
        <5>2. QED BY <5>1 DEF TopIs, OnTop
      <4>2. CASE ~init_returns
        BY <2>2, <4>2, StatementStack, StatementSteps
      <4>3. QED BY <4>1, <4>2
    <3>2. QED BY <1>2, <3>1
  <2>3. QED BY <2>1, <2>2, NextIs
<1>3. QED BY <1>1, <1>2, FailsInInit, EventsCounted, BitsTyped, MaskedAtFirst,
         DisabledUntilLast DEF Phases, FailureFits

-----------------------------------------------------------------------------
(* What is enough for the frames to stay in order. *)
LEMMA SoftwarePriority ==
    ASSUME NEW a \in Apps, NEW t \in DOMAIN a.software
    PROVE  PRIORITY(a, t) = a.software[t].priority /\ t \in Contexts(a)
<1>1. t \notin DOMAIN a.hardware
  BY NamesApart
<1>2. QED BY <1>1 DEF PRIORITY, Contexts, Names

LEMMA NotOne == \A n \in Nat : n > 1 => n # 1
OBVIOUS

LEMMA NoLocks ==
    ASSUME StartInv, NEW c \in {"main", "init", "dispatcher", "timer"}
    PROVE  Lockable(app, c) = {}
<1>1. app \in Apps /\ Accepted(app)
  BY MainFacts, AppsAssumption
<1>2. CASE c \in {"main", "dispatcher", "timer"}
  BY <1>1, <1>2, NamesApart DEF Lockable
<1>3. CASE c = "init"
  <2>1. ASSUME NEW r \in DOMAIN app.resources, r \in Proxies(app, c) PROVE FALSE
    <3>1. "init" \in Users(app, r) /\ c \in DOMAIN app.access /\ r \in DOMAIN app.access[c]
      BY <1>1, <1>3, <2>1 DEF Accepted, Contexts, Users, Proxies
    <3>2. app.access[c][r] = "exclusive" /\ ~app.resources[r].task_local
      BY <2>1 DEF Proxies, Field
    <3>3. {app.access[d][r] : d \in Users(app, r)} = {"shared"}
      BY <1>1, <3>1, <3>2 DEF Accepted
    <3>4. app.access[c][r] \in {app.access[d][r] : d \in Users(app, r)}
      BY <1>3, <3>1
    <3>5. QED BY <3>2, <3>3, <3>4
  <2>2. QED BY <2>1 DEF Lockable
<1>4. QED BY <1>2, <1>3

LEMMA NothingLocked ==
    ASSUME StartInv, Current.context \in {"main", "init", "dispatcher", "timer"}
    PROVE  Current.locked = <<>>
<1>1. Current.locked \in Seq({})
  BY StackTyped, NoLocks
<1>2. QED BY <1>1

LEMMA FramesStay ==
    ASSUME StartInv, app' = app, stack' = stack, level' = level \/ Len(stack) = 1
    PROVE  Frames'
<1>1. /\ stack \in Seq(FrameType) /\ Len(stack) > 0 /\ Len(stack) \in Nat
      /\ stack[1].line = "main" /\ stack[1].context \in {"main", "init", "idle"}
      /\ \A i \in 2..Len(stack) : Handler(app, stack[i])
      /\ \A i \in 1..Len(stack) : stack[i].locked \in Seq(Lockable(app, stack[i].context))
  BY StackTyped DEF StartInv, Frames
<1>2. ASSUME NEW i \in 1..Len(stack), NEW j \in 1..Len(stack), i < j
      PROVE  /\ i > 1 => level'[stack[i].line] < level'[stack[j].line]
             /\ \A r \in Range(stack[i].locked) : Ceiling(app, r) < level'[stack[j].line]
  <2>1. CASE level' = level
    BY <1>2, <2>1 DEF StartInv, Frames
  <2>2. CASE Len(stack) = 1
    <3>1. ~(i < j)
      BY <2>2
    <3>2. QED BY <1>2, <3>1
  <2>3. QED BY <2>1, <2>2
<1>3. /\ \A i \in 2..Len(stack') : Handler(app, stack'[i])
      /\ \A i \in 1..Len(stack') : stack'[i].locked \in Seq(Lockable(app, stack'[i].context))
  BY <1>1
<1>4. QED BY <1>1, <1>2, <1>3 DEF Frames, FrameType

(* The top frame goes on in another context or with other locks. *)
LEMMA FramesTop ==
    ASSUME StartInv, app' = app, level' = level, NEW f, TopIs(f), f.line = Current.line,
           f.locked \in Seq(Lockable(app, f.context)),
           Len(stack) > 1 => Handler(app, f),
           Len(stack) = 1 => f.context \in {"main", "init", "idle"}
    PROVE  Frames'
<1> DEFINE n == Len(stack)
<1>1. /\ stack' \in Seq(FrameType) /\ Len(stack') = n /\ stack'[n] = f
      /\ \A i \in 1..n : i # n => stack'[i] = stack[i]
  BY DEF TopIs, OnTop
<1>2. /\ n \in Nat /\ n > 0 /\ n \in 1..n /\ Current = stack[n]
      /\ stack[1].line = "main" /\ stack[1].context \in {"main", "init", "idle"}
      /\ \A i \in 2..n : Handler(app, stack[i])
      /\ \A i \in 1..n : stack[i].locked \in Seq(Lockable(app, stack[i].context))
  BY StackTyped DEF StartInv, Frames
<1>3. \A i, j \in 1..n : i < j =>
         /\ i > 1 => level[stack[i].line] < level[stack[j].line]
         /\ \A r \in Range(stack[i].locked) : Ceiling(app, r) < level[stack[j].line]
  BY DEF StartInv, Frames
<1>4. n = 1 \/ n > 1
  BY StackSize
<1>5. n > 1 => Handler(app, f)
  OBVIOUS
<1>6. n = 1 => f.context \in {"main", "init", "idle"}
  OBVIOUS
<1> HIDE DEF n
<1>7. \A i \in 1..n : stack'[i].line = stack[i].line
  BY <1>1, <1>2
<1>8. stack'[1].line = "main" /\ stack'[1].context \in {"main", "init", "idle"}
  <2>1. CASE n = 1
    BY <1>1, <1>2, <1>6, <2>1
  <2>2. CASE n > 1
    <3>1. 1 \in 1..n /\ 1 # n
      BY <1>2, <2>2
    <3>2. QED BY <1>1, <1>2, <3>1
  <2>3. QED BY <1>4, <2>1, <2>2
<1>9. ASSUME NEW i \in 2..n PROVE Handler(app, stack'[i])
  <2>1. n > 1 /\ i \in 1..n
    BY <1>2
  <2>2. QED BY <1>1, <1>2, <1>5, <2>1
<1>10. ASSUME NEW i \in 1..n
       PROVE  stack'[i].locked \in Seq(Lockable(app, stack'[i].context))
  BY <1>1, <1>2
<1>11. ASSUME NEW i \in 1..n, NEW j \in 1..n, i < j
       PROVE  /\ i > 1 => level'[stack'[i].line] < level'[stack'[j].line]
              /\ \A r \in Range(stack'[i].locked) : Ceiling(app, r) < level'[stack'[j].line]
  <2>1. i # n
    BY <1>2, <1>11
  <2>2. stack'[i] = stack[i]
    BY <1>1, <2>1
  <2>3. QED BY <1>3, <1>7, <1>11, <2>2
<1>12. FrameType' = FrameType /\ Len(stack') > 0
  BY <1>1, <1>2 DEF FrameType
<1>13. QED BY <1>1, <1>8, <1>9, <1>10, <1>11, <1>12 DEF Frames, FrameType

LEMMA FramesPopped ==
    ASSUME StartInv, app' = app, level' = level, Returned, Len(stack) > 1
    PROVE  Frames'
<1> DEFINE n == Len(stack')
<1>1. /\ stack' \in Seq(FrameType) /\ n \in Nat /\ n > 0
      /\ \A i \in 1..n : stack'[i] = stack[i] /\ i \in 1..Len(stack)
  BY ReturnedIs
<1>2. /\ stack[1].line = "main" /\ stack[1].context \in {"main", "init", "idle"}
      /\ \A i \in 2..Len(stack) : Handler(app, stack[i])
      /\ \A i \in 1..Len(stack) : stack[i].locked \in Seq(Lockable(app, stack[i].context))
      /\ \A i, j \in 1..Len(stack) : i < j =>
            /\ i > 1 => level[stack[i].line] < level[stack[j].line]
            /\ \A r \in Range(stack[i].locked) : Ceiling(app, r) < level[stack[j].line]
  BY DEF StartInv, Frames
<1> HIDE DEF n
<1>3. \A i \in 2..n : i \in 1..n
  BY <1>1
<1>4. 1 \in 1..n
  BY <1>1
<1>5. ASSUME NEW i \in 2..n PROVE Handler(app, stack'[i])
  <2>1. i \in 2..Len(stack) /\ stack'[i] = stack[i]
    <3>1. i \in 1..Len(stack) /\ stack'[i] = stack[i] /\ i \in 2..n
      BY <1>1, <1>3
    <3>2. Len(stack) \in Nat
      BY StackTyped
    <3>3. QED BY <3>1, <3>2
  <2>2. QED BY <1>2, <2>1
<1>6. \A i \in 1..n : stack'[i].locked \in Seq(Lockable(app, stack'[i].context))
  BY <1>1, <1>2
<1>7. stack'[1].line = "main" /\ stack'[1].context \in {"main", "init", "idle"}
  BY <1>1, <1>2, <1>4
<1>8. \A i, j \in 1..n : i < j =>
         /\ i > 1 => level'[stack'[i].line] < level'[stack'[j].line]
         /\ \A r \in Range(stack'[i].locked) : Ceiling(app, r) < level'[stack'[j].line]
  BY <1>1, <1>2
<1>9. FrameType' = FrameType
  BY DEF FrameType
<1>10. QED BY <1>1, <1>5, <1>6, <1>7, <1>8, <1>9 DEF Frames, FrameType, n

LEMMA FramesPushed ==
    ASSUME StartInv, app' = app, level' = level, NEW l \in Lines(app), Take(l)
    PROVE  Frames'
<1> DEFINE n == Len(stack)
           f == Frame(l, Vector(l))
<1>1. /\ stack' \in Seq(FrameType) /\ Len(stack') = n + 1 /\ stack'[n + 1] = f
      /\ \A i \in 1..n : stack'[i] = stack[i]
  BY TakeIs
<1>2. /\ n \in Nat /\ n > 0
      /\ stack[1].line = "main" /\ stack[1].context \in {"main", "init", "idle"}
      /\ \A i \in 2..n : Handler(app, stack[i])
      /\ \A i \in 1..n : stack[i].locked \in Seq(Lockable(app, stack[i].context))
      /\ \A i, j \in 1..n : i < j =>
            /\ i > 1 => level[stack[i].line] < level[stack[j].line]
            /\ \A r \in Range(stack[i].locked) : Ceiling(app, r) < level[stack[j].line]
  BY StackTyped DEF StartInv, Frames
<1>3. f.line = l /\ f.locked = <<>> /\ Handler(app, f)
  BY VectorIs DEF Frame
<1>4. \A p \in Ceilings \cup ActiveLevels : level[l] > p
  BY DEF Take, Takeable
<1>5. \A i \in 2..n : level[stack[i].line] \in ActiveLevels
  BY DEF ActiveLevels
<1>6. \A i \in 1..n : \A r \in Range(stack[i].locked) : Ceiling(app, r) \in Ceilings
  <2>1. DOMAIN stack = 1..n
    BY StackTyped, LenProperties
  <2>2. QED BY <2>1 DEF Ceilings
<1> HIDE DEF n, f
<1>7. \A i \in 1..(n + 1) : i = n + 1 \/ i \in 1..n
  BY <1>2
<1>8. \A i \in 2..(n + 1) : i = n + 1 \/ i \in 2..n
  BY <1>2
<1>9. stack'[1].line = "main" /\ stack'[1].context \in {"main", "init", "idle"}
  <2>1. 1 \in 1..n
    BY <1>2
  <2>2. QED BY <1>1, <1>2, <2>1
<1>10. ASSUME NEW i \in 2..(n + 1) PROVE Handler(app, stack'[i])
  <2>1. CASE i = n + 1
    BY <1>1, <1>3, <2>1
  <2>2. CASE i \in 2..n
    <3>1. i \in 1..n
      BY <1>2, <2>2
    <3>2. QED BY <1>1, <1>2, <2>2, <3>1
  <2>3. QED BY <1>8, <2>1, <2>2
<1>11. ASSUME NEW i \in 1..(n + 1)
       PROVE  stack'[i].locked \in Seq(Lockable(app, stack'[i].context))
  <2>1. CASE i = n + 1
    BY <1>1, <1>3, <2>1, EmptySeq
  <2>2. CASE i \in 1..n
    BY <1>1, <1>2, <2>2
  <2>3. QED BY <1>7, <2>1, <2>2
<1>12. ASSUME NEW i \in 1..(n + 1), NEW j \in 1..(n + 1), i < j
       PROVE  /\ i > 1 => level[stack'[i].line] < level[stack'[j].line]
              /\ \A r \in Range(stack'[i].locked) : Ceiling(app, r) < level[stack'[j].line]
  <2>1. i \in 1..n /\ stack'[i] = stack[i] /\ (i > 1 => i \in 2..n)
    <3>1. i \in 1..n /\ (i > 1 => i \in 2..n)
      BY <1>2, <1>12
    <3>2. QED BY <1>1, <3>1
  <2>2. CASE j \in 1..n
    BY <1>1, <1>2, <1>12, <2>1, <2>2
  <2>3. CASE j = n + 1
    <3>1. stack'[j].line = l
      BY <1>1, <1>3, <2>3
    <3>2. i > 1 => level[l] > level[stack[i].line]
      BY <1>4, <1>5, <2>1
    <3>3. \A r \in Range(stack[i].locked) : level[l] > Ceiling(app, r)
      BY <1>4, <1>6, <2>1
    <3>4. QED BY <2>1, <3>1, <3>2, <3>3
  <2>4. QED BY <1>7, <2>2, <2>3
<1>13. FrameType' = FrameType /\ Len(stack') = n + 1 /\ n + 1 > 0
  BY <1>1, <1>2 DEF FrameType
<1>14. QED BY <1>1, <1>9, <1>10, <1>11, <1>12, <1>13 DEF Frames, FrameType

LEMMA FramesKept ==
    ASSUME StartInv, Next
    PROVE  Frames'
<1>1. app \in Apps /\ Current \in FrameType
  BY MainFacts, StackTyped
<1>2. ASSUME NEW c \in Contexts(app) \cup {"main", "dispatcher", "timer"}, Becomes(c),
             Current.locked = <<>>, app' = app, level' = level,
             Len(stack) = 1 => c \in {"main", "init", "idle"},
             Len(stack) > 1 => \A f : f.line = Current.line /\ f.context = c => Handler(app, f)
      PROVE  Frames'
  <2> DEFINE f == [line |-> Current.line, context |-> c, locked |-> Current.locked]
  <2>1. f.line = Current.line /\ f.context = c /\ f.locked = <<>> /\ TopIs(f)
    BY <1>2, BecomesIs
  <2> HIDE DEF f
  <2>2. f.locked \in Seq(Lockable(app, f.context))
    BY <2>1, EmptySeq
  <2>3. /\ Len(stack) > 1 => Handler(app, f)
        /\ Len(stack) = 1 => f.context \in {"main", "init", "idle"}
    BY <1>2, <2>1
  <2>4. QED BY <1>2, <2>1, <2>2, <2>3, FramesTop
<1>3. ASSUME NEW q \in Seq(DOMAIN app.resources), q \in Seq(Lockable(app, Current.context)),
             ReplaceCurrent([Current EXCEPT !.locked = q]), app' = app, level' = level
      PROVE  Frames'
  <2> DEFINE f == [line |-> Current.line, context |-> Current.context, locked |-> q]
  <2>1. f.line = Current.line /\ f.context = Current.context /\ f.locked = q /\ TopIs(f)
    BY <1>3, LocksIs
  <2> HIDE DEF f
  <2>2. f.locked \in Seq(Lockable(app, f.context))
    BY <1>3, <2>1
  <2>3. /\ Len(stack) > 1 => Handler(app, f)
        /\ Len(stack) = 1 => f.context \in {"main", "init", "idle"}
    BY <2>1, StackFacts DEF Handler
  <2>4. QED BY <1>3, <2>1, <2>2, <2>3, FramesTop
<1>4. CASE Statement
  <2>1. app' = app /\ Len(stack) = 1
    BY <1>4, StatementSteps
  <2>2. CASE init_returns
    <3>1. Becomes("main") /\ Current.context = "init" /\ level' = level
      BY <2>2 DEF init_returns, Running, hardware
    <3>2. Len(stack) > 1 => FALSE
      BY <2>1
    <3>3. QED BY <1>2, <2>1, <3>1, <3>2, NothingLocked
  <2>3. CASE ~init_returns
    BY <1>4, <2>1, <2>3, StatementStack, FramesStay
  <2>4. QED BY <2>2, <2>3
<1>5. CASE Elsewhere
  <2>1. app' = app /\ level' = level
    BY <1>5, ElsewhereKeeps
  <2>2. CASE \/ wfi
             \/ \E t \in DOMAIN app.software : timer_releases(t) \/ spawn(t)
             \/ \E l \in Lines(app) : DevicePend(l) \/ pend(l)
             \/ \E m \in DOMAIN app.monotonics, t \in DOMAIN app.software,
                   first \in BOOLEAN :
                      spawn_after(m, t, first) \/ reschedule_at(m, t, first)
             \/ Panic
    <3>1. stack' = stack
      BY <2>2 DEF wfi, timer_releases, spawn, DevicePend, pend, spawn_after, reschedule_at,
         Panic, Panics
    <3>2. QED BY <2>1, <3>1, FramesStay
  <2>3. CASE call_init \/ call_idle
    <3> DEFINE c == IF call_init THEN "init" ELSE "idle"
    <3>1. /\ c = "init" => Becomes("init") /\ Next_is("init")
          /\ c = "idle" => Becomes("idle") /\ Next_is("idle")
          /\ c \in {"init", "idle"}
      BY <2>3 DEF call_init, call_idle
    <3> HIDE DEF c
    <3>2. Becomes(c) /\ Next_is(c)
      BY <3>1
    <3>3. Len(stack) = 1 /\ main[1].op = c /\ main[1] \in Statements(app)
      BY <3>2, StatementRuns
    <3>4. c \in Contexts(app)
      BY <1>1, <3>1, <3>3, StatementKinds DEF Contexts
    <3>5. Current.locked = <<>>
      BY <3>2, NothingLocked DEF Next_is, Running
    <3>6. Len(stack) > 1 => FALSE
      BY <3>3
    <3>7. QED BY <1>2, <2>1, <3>1, <3>2, <3>4, <3>5, <3>6
  <2>4. CASE hardware_task_returns \/ dispatcher_returns \/ timer_returns
    BY <2>1, <2>4, HandlerReturns, FramesPopped
  <2>5. ASSUME NEW t \in DOMAIN app.software, dispatch(t)
        PROVE  Frames'
    <3>1. /\ Current.context = "dispatcher" /\ Becomes(t)
          /\ app.software[t].priority = Declared(app, Current.line)
      BY <2>5 DEF dispatch, Running, Channel
    <3>2. Handler(app, Current) /\ Len(stack) > 1
      BY <3>1, HandlerRuns
    <3>3. Current.line \in Lines(app) /\ Current.line \in Range(app.interrupts)
      BY <1>1, <3>1, <3>2, NamesApart DEF Handler, Names
    <3>4. t \in DOMAIN app.software /\ PRIORITY(app, t) = app.software[t].priority
      BY <1>1, SoftwarePriority
    <3>5. \A f : f.line = Current.line /\ f.context = t => Handler(app, f)
      BY <3>1, <3>3, <3>4 DEF Handler
    <3>6. t \in Contexts(app) /\ Len(stack) # 1
      BY <1>1, <3>2, SoftwarePriority, StackTyped, NotOne
    <3>7. QED BY <1>2, <2>1, <3>1, <3>5, <3>6, NothingLocked
  <2>6. CASE software_task_returns
    <3>1. /\ Current.context \in DOMAIN app.software /\ Becomes("dispatcher")
          /\ Current.locked = <<>>
      BY <2>6 DEF software_task_returns
    <3>2. Handler(app, Current) /\ Len(stack) > 1
      BY <3>1, HandlerRuns
    <3>3. Current.line \in Lines(app) /\ Current.line \in Range(app.interrupts)
      BY <1>1, <3>1, <3>2, NamesApart DEF Handler, Names
    <3>4. \A f : f.line = Current.line /\ f.context = "dispatcher" => Handler(app, f)
      BY <3>3 DEF Handler
    <3>5. Len(stack) # 1
      BY <3>2, StackTyped, NotOne
    <3>6. QED BY <1>2, <2>1, <3>1, <3>4, <3>5
  <2>7. ASSUME NEW l \in Lines(app), Take(l)
        PROVE  Frames'
    BY <2>1, <2>7, FramesPushed
  <2>8. ASSUME NEW r \in DOMAIN app.resources, lock(r)
        PROVE  Frames'
    <3> DEFINE q == Append(Current.locked, r)
    <3>1. Current.locked \in Seq(DOMAIN app.resources)
      BY StackTyped DEF FrameType
    <3>2. r \in Lockable(app, Current.context)
      BY <2>8 DEF lock, InUserCode, Lockable
    <3>3. Current.locked \in Seq(Lockable(app, Current.context))
      BY StackTyped
    <3>4. q \in Seq(DOMAIN app.resources) /\ q \in Seq(Lockable(app, Current.context))
      BY <3>1, <3>2, <3>3, AppendProperties
    <3>5. ReplaceCurrent([Current EXCEPT !.locked = q])
      BY <2>8 DEF lock
    <3> HIDE DEF q
    <3>6. QED BY <1>3, <2>1, <3>4, <3>5
  <2>9. CASE unlock
    <3> DEFINE q == Front(Current.locked)
    <3>1. /\ Current.locked \in Seq(DOMAIN app.resources) /\ Current.locked # <<>>
          /\ Current.locked \in Seq(Lockable(app, Current.context))
      BY <2>9, StackTyped DEF FrameType, unlock
    <3>2. Len(Current.locked) > 0
      BY <3>1, EmptySeq
    <3>3. q \in Seq(DOMAIN app.resources)
      BY <3>1, <3>2, PoppedOff
    <3>4. q \in Seq(Lockable(app, Current.context))
      BY <3>1, <3>2, PoppedOff
    <3>5. ReplaceCurrent([Current EXCEPT !.locked = q])
      BY <2>9 DEF unlock
    <3> HIDE DEF q
    <3>6. QED BY <1>3, <2>1, <3>3, <3>4, <3>5
  <2>10. QED BY <1>5, <2>2, <2>3, <2>4, <2>5, <2>6, <2>7, <2>8, <2>9 DEF Elsewhere
<1>6. QED BY <1>4, <1>5, NextIs

-----------------------------------------------------------------------------
(* The invariant holds in every state of every behaviour. *)
LEMMA InvariantKept == StartInv /\ [Next]_vars => StartInv'
<1> SUFFICES ASSUME StartInv, [Next]_vars PROVE StartInv'
  OBVIOUS
<1>1. CASE Next
  BY <1>1, StepsKept, ConfiguredKept, SuppliedKept, CountedKept, PhasesKept, FramesKept
     DEF StartInv
<1>2. CASE UNCHANGED vars
  <2>1. /\ app' = app /\ main' = main /\ stack' = stack /\ level' = level
        /\ queues' = queues
    BY <1>2 DEF vars, queues
  <2>2. Counted' /\ Frames'
    BY <2>1, CountedWhenIdle, FramesStay
  <2>3. Steps' /\ Configured' /\ Supplied' /\ Phases'
    BY <1>2 DEF vars, StartInv, Steps, Configured, Supplied, Phases
  <2>4. QED BY <2>2, <2>3 DEF StartInv
<1>3. QED BY <1>1, <1>2


(* What `main` has prepared and what is left, in every reachable state. *)
THEOREM Invariance == Spec => []StartInv
BY StartsPrepared, InvariantKept, PTL DEF Spec

-----------------------------------------------------------------------------
(* The invariant is typed as the runs check it. *)
LEMMA Typed == StartInv => TypeOK
<1> SUFFICES ASSUME StartInv PROVE TypeOK
  OBVIOUS
<1>1. app \in Apps /\ main # <<>>
  <2>1. app \in Apps /\ Len(main) \in Nat \ {0}
    BY MainFacts
  <2>2. QED BY <2>1
<1>2. /\ stack \in Seq(FrameType) /\ Len(stack) \in Nat /\ stack[1].line = "main"
      /\ \A i \in 2..Len(stack) : Handler(app, stack[i])
  BY StackTyped DEF StartInv, Frames
<1>3. ASSUME NEW i \in DOMAIN stack
      PROVE  /\ stack[i].line \in IF i = 1 THEN {"main"} ELSE Lines(app)
             /\ stack[i].context \in Contexts(app) \cup {"main", "dispatcher", "timer"}
             /\ stack[i].locked # <<>> =>
                   Range(stack[i].locked) \subseteq DOMAIN app.resources
  <2>1. i \in 1..Len(stack) /\ (i = 1 \/ i \in 2..Len(stack))
    <3>1. i \in 1..Len(stack)
      BY <1>2, LenProperties
    <3>2. QED BY <1>2, <3>1
  <2>2. stack[i] \in FrameType
    BY <1>2, <2>1, ElementOfSeq
  <2>3. stack[i].line \in IF i = 1 THEN {"main"} ELSE Lines(app)
    BY <1>2, <2>1 DEF Handler
  <2>4. stack[i].context \in Contexts(app) \cup {"main", "dispatcher", "timer"}
    BY <2>2 DEF FrameType
  <2>5. stack[i].locked \in Seq(DOMAIN app.resources)
    BY <2>2 DEF FrameType
  <2>6. Range(stack[i].locked) \subseteq DOMAIN app.resources
    <3> DEFINE q == stack[i].locked
    <3>1. q \in [1..Len(q) -> DOMAIN app.resources]
      BY <2>5, LenProperties
    <3> HIDE DEF q
    <3>2. Range(q) \subseteq DOMAIN app.resources
      BY <3>1 DEF Range
    <3>3. QED BY <3>2 DEF q
  <2>7. QED BY <2>3, <2>4, <2>6
<1>4. /\ level \in [Lines(app) -> 0..LEVELS]
      /\ unmasked \cup pended \subseteq Lines(app)
  BY DEF StartInv, Configured
<1>5. /\ free \in [DOMAIN app.software -> Nat] /\ ready \in [DOMAIN app.software -> Nat]
  BY QueueFacts
<1>6. late \subseteq DOMAIN app.resources /\ tqs \cup mono \subseteq DOMAIN app.monotonics
  BY DEF StartInv, Supplied
<1>7. /\ events \in 0..MaxEvents /\ {primask, asleep, sleeponexit} \subseteq BOOLEAN
      /\ failed \in {"nothing", "now", "reschedule_after"}
  BY DEF StartInv, Phases
<1>8. QED BY <1>1, <1>3, <1>4, <1>5, <1>6, <1>7 DEF TypeOK

(* Every state is well-formed: one of the applications, a `main` that has  *)
(* not come to its end, frames of lines that exist and contexts of theirs. *)
THEOREM TypeCorrect == Spec => []TypeOK
BY Invariance, Typed, PTL

LEMMA AccessFacts ==
    ASSUME NEW a \in Apps, NEW c \in Contexts(a)
    PROVE  c \in DOMAIN a.access /\ DOMAIN a.access[c] \subseteq DOMAIN a.resources
<1>1. DOMAIN a.access = Contexts(a)
  BY AppsAssumption DEF Accepted
<1>2. \A d \in DOMAIN a.access : DOMAIN a.access[d] \subseteq DOMAIN a.resources
  BY AppsAssumption DEF WellFormed
<1>3. QED BY <1>1, <1>2

(* A frame of the application has everything prepared that it reaches. *)
LEMMA Initialised == StartInv => InitialisedBeforeUse
<1> SUFFICES ASSUME StartInv, NEW i \in DOMAIN stack, Started(i)
             PROVE  /\ \A t \in DOMAIN app.software :
                          free[t] + ready[t]
                            + MapThenSumSet(LAMBDA m : scheduled[m][t],
                                            DOMAIN app.monotonics)
                            = app.software[t].capacity
                    /\ tqs = DOMAIN app.monotonics
                    /\ stack[i].context # "init" =>
                          /\ mono = DOMAIN app.monotonics
                          /\ {r \in DOMAIN app.access[stack[i].context] :
                                app.resources[r].late} \subseteq late
  BY DEF InitialisedBeforeUse
<1> DEFINE c == stack[i].context
<1>1. i \in 1..Len(stack) /\ c \in Contexts(app) /\ app \in Apps
  BY StackTyped, LenProperties, MainFacts DEF Started
<1>2. Stage(main[1]) \in {2, 5} /\ (c # "init" => Stage(main[1]) = 5)
  <2>1. CASE Len(stack) > 1
    BY <2>1, StackFacts
  <2>2. CASE Len(stack) = 1
    <3>1. i = 1
      BY <1>1, <2>2
    <3>2. Current.context = c
      BY <2>2, <3>1, StackTyped
    <3>3. QED BY <1>1, <3>2, UserCodeRuns
  <2>3. QED BY <2>1, <2>2, StackSize
<1>3. /\ tqs = DOMAIN app.monotonics
      /\ \A t \in DOMAIN app.software : Slots(t) = app.software[t].capacity
  <2>1. Stage(main[1]) >= 2
    BY <1>2
  <2>2. QED BY <2>1, Prepared
<1>4. \A t \in DOMAIN app.software :
         free[t] + ready[t] + MapThenSumSet(LAMBDA m : scheduled[m][t], DOMAIN app.monotonics)
           = app.software[t].capacity
  BY <1>3 DEF Slots, Waiting
<1>5. ASSUME c # "init"
      PROVE  /\ mono = DOMAIN app.monotonics
             /\ {r \in DOMAIN app.access[c] : app.resources[r].late} \subseteq late
  <2>1. mono = DOMAIN app.monotonics /\ LiveLate(app) \subseteq late
    BY <1>2, <1>5, Finished
  <2>2. c \in DOMAIN app.access /\ DOMAIN app.access[c] \subseteq DOMAIN app.resources
    BY <1>1, AccessFacts
  <2>3. ASSUME NEW r \in DOMAIN app.access[c], app.resources[r].late
        PROVE  r \in LiveLate(app)
    BY <2>2, <2>3 DEF LiveLate, Users
  <2>4. QED BY <2>1, <2>3
<1>6. QED BY <1>3, <1>4, <1>5

(* Whatever a context reaches was written before it started: the slots of  *)
(* the free queues, the timer queues, and after init its late resources    *)
(* and the monotonics.                                                     *)
THEOREM InitialisedBeforeUseHolds == Spec => []InitialisedBeforeUse
BY Invariance, Initialised, PTL

LEMMA FailsThere == StartInv => FailsOnlyInInit
<1> SUFFICES ASSUME StartInv, failed # "nothing"
             PROVE  /\ failed \in {"now", "reschedule_after"}
                    /\ Len(stack) = 1 /\ Current.context = "init"
  BY DEF FailsOnlyInInit
<1>1. failed \in {"now", "reschedule_after"} /\ stack[1].context = "init"
  BY DEF StartInv, Phases
<1>2. Stage(main[1]) = 2
  BY <1>1, StageOf DEF StartInv, Phases
<1>3. Len(main) > 1
  <2>1. Len(main) \in Nat \ {0} /\ Len(main) # 1
    BY <1>2, MainFacts
  <2>2. \A n \in Nat \ {0} : n # 1 => n > 1
    OBVIOUS
  <2>3. QED BY <2>1, <2>2
<1>4. Len(stack) = 1
  BY <1>3 DEF StartInv, Phases
<1>5. QED BY <1>1, <1>4, StackTyped

(* Whatever fails is a reading of the clock that init itself asks for,     *)
(* while nothing else can run: every timer handler finds its monotonic, no *)
(* spawn_after panics, and neither does anything that comes after init.    *)
THEOREM FailsOnlyInInitHolds == Spec => []FailsOnlyInInit
BY Invariance, FailsThere, PTL

LEMMA AtItsPriority == StartInv => RunsAtItsPriority
<1> SUFFICES ASSUME StartInv, NEW i \in 2..Len(stack)
             PROVE  level[stack[i].line] = Declared(app, stack[i].line)
  BY DEF RunsAtItsPriority
<1>1. Len(stack) > 1 /\ Handler(app, stack[i])
  <2>1. Len(stack) \in Nat
    BY StackTyped
  <2>2. Len(stack) > 1
    BY <2>1
  <2>3. QED BY <2>2 DEF StartInv, Frames
<1>2. stack[i].line \in Lines(app) /\ Stage(main[1]) = 5
  BY <1>1, StackFacts DEF Handler
<1>3. Stage(main[1]) >= 2
  BY <1>2
<1>4. QED BY <1>2, <1>3, Prepared

(* No handler runs before the register of its line holds the priority that *)
(* was declared.                                                           *)
THEOREM RunsAtItsPriorityHolds == Spec => []RunsAtItsPriority
BY Invariance, AtItsPriority, PTL

LEMMA FixedOnce ==
    ASSUME StartInv, [Next]_vars, NEW l \in DOMAIN level,
           l \in unmasked \/ l \in Exceptions \cap pended
    PROVE  level'[l] = level[l]
<1>1. level[l] = Declared(app, l) /\ level \in [Lines(app) -> 0..LEVELS]
  BY DEF StartInv, Configured
<1>2. CASE set_priority
  <2>1. level' = [level EXCEPT ![Of] = Declared(app, Of)]
    BY <1>2 DEF set_priority
  <2>2. QED BY <1>1, <2>1
<1>3. CASE UNCHANGED vars
  BY <1>3 DEF vars
<1>4. CASE Next /\ ~set_priority
  <2>1. CASE Elsewhere
    BY <2>1, ElsewhereKeeps
  <2>2. CASE Statement
    BY <1>4, <2>2 DEF Statement, disable_interrupts, fill, unmask, new_timer_queue,
       sleep_on_exit, init_returns, write_late, store_monotonic, enable_interrupts, hardware
  <2>3. QED BY <1>4, <2>1, <2>2, NextIs
<1>5. QED BY <1>2, <1>3, <1>4

(* A priority is never written while its interrupt is unmasked, nor that   *)
(* of an exception while it is pended.                                     *)
THEOREM PriorityFixedHolds == Spec => PriorityFixed
<1> DEFINE Fixed == \A l \in DOMAIN level :
                       l \in unmasked \/ l \in Exceptions \cap pended => level'[l] = level[l]
<1>1. StartInv /\ [Next]_vars => [Fixed]_vars
  BY FixedOnce
<1> HIDE DEF Fixed
<1>2. Spec => [][Fixed]_vars
  BY <1>1, Invariance, PTL DEF Spec
<1>3. QED BY <1>2 DEF Fixed, PriorityFixed

-----------------------------------------------------------------------------
(* Sets of one element at most, and the highest priority of some. *)
LEMMA AtMostOne ==
    ASSUME NEW S, IsFiniteSet(S), Cardinality(S) <= 1, NEW x \in S, NEW y \in S
    PROVE  x = y
<1>1. SUFFICES ASSUME x # y PROVE FALSE
  OBVIOUS
<1> DEFINE R == S \ {x}
           Q == R \ {y}
<1>2. IsFiniteSet(R) /\ Cardinality(R) = Cardinality(S) - 1
  BY FS_RemoveElement
<1>3. y \in R
  BY <1>1
<1> HIDE DEF R
<1>4. IsFiniteSet(Q) /\ Cardinality(Q) = Cardinality(R) - 1
  BY <1>2, <1>3, FS_RemoveElement
<1> HIDE DEF Q
<1>5. Cardinality(S) \in Nat /\ Cardinality(Q) \in Nat
  BY <1>4, FS_CardinalityType
<1>6. QED BY <1>2, <1>4, <1>5

LEMMA ImageFinite ==
    ASSUME NEW S, IsFiniteSet(S), NEW f, DOMAIN f = S
    PROVE  IsFiniteSet({f[x] : x \in S})
<1> DEFINE R == {f[x] : x \in S}
           g == [x \in S |-> f[x]]
<1>1. g \in Surjection(S, R)
  BY DEF Surjection
<1> HIDE DEF g, R
<1>2. IsFiniteSet(R)
  BY <1>1, FS_Surjection
<1>3. QED BY <1>2 DEF R

-----------------------------------------------------------------------------
(* Resources and those who use them. *)
LEMMA PriorityType ==
    ASSUME NEW a \in Apps, NEW c
    PROVE  PRIORITY(a, c) \in 0..LEVELS
<1>1. /\ \A t \in DOMAIN a.software : a.software[t].priority \in 1..LEVELS
      /\ \A t \in DOMAIN a.hardware : a.hardware[t].priority \in 1..LEVELS
      /\ LEVELS \in Nat
  BY AppsAssumption DEF WellFormed
<1>2. c \notin DOMAIN a.software \/ c \notin DOMAIN a.hardware
  BY NamesApart
<1>3. CASE c \in DOMAIN a.software
  BY <1>1, <1>2, <1>3 DEF PRIORITY
<1>4. CASE c \in DOMAIN a.hardware
  BY <1>1, <1>2, <1>4 DEF PRIORITY
<1>5. CASE c \notin DOMAIN a.software /\ c \notin DOMAIN a.hardware
  BY <1>1, <1>5 DEF PRIORITY
<1>6. QED BY <1>3, <1>4, <1>5

LEMMA UsersFinite ==
    ASSUME NEW a \in Apps, NEW r
    PROVE  /\ IsFiniteSet(Users(a, r))
           /\ Users(a, r) = {c \in Contexts(a) : r \in DOMAIN a.access[c]}
<1>1. Users(a, r) = {c \in Contexts(a) : r \in DOMAIN a.access[c]}
  BY AppsAssumption DEF Accepted, Users
<1>2. IsFiniteSet(Names(a))
  <2>1. IsFiniteSet(Names(a) \cup DOMAIN a.monotonics \cup DOMAIN a.resources)
    BY AppsAssumption DEF WellFormed
  <2>2. Names(a) \subseteq Names(a) \cup DOMAIN a.monotonics \cup DOMAIN a.resources
    OBVIOUS
  <2>3. QED BY <2>1, <2>2, FS_Subset
<1> DEFINE S == Names(a) \cup {"idle"}
           T == S \cup {"init"}
<1>3. IsFiniteSet(S)
  BY <1>2, FS_AddElement
<1> HIDE DEF S
<1>4. IsFiniteSet(T)
  BY <1>3, FS_AddElement
<1>5. Users(a, r) \subseteq T
  BY <1>1 DEF Contexts, S
<1> HIDE DEF T
<1>6. QED BY <1>1, <1>4, <1>5, FS_Subset

(* The ceiling is at least the priority of every user but init. *)
LEMMA CeilingIs ==
    ASSUME NEW a \in Apps, NEW r, NEW c \in Users(a, r), c # "init"
    PROVE  PRIORITY(a, c) <= Ceiling(a, r) /\ Ceiling(a, r) \in 0..LEVELS
<1> DEFINE users == Users(a, r) \ {"init"}
           S == {PRIORITY(a, d) : d \in users}
<1>1. LEVELS \in Nat /\ S \in SUBSET (0..LEVELS) /\ PRIORITY(a, c) \in S
  BY PriorityType, AppsAssumption
<1>2. users # {}
  OBVIOUS
<1>3. Ceiling(a, r) = Max(S)
  BY <1>2 DEF Ceiling
<1> HIDE DEF S
<1>4. PRIORITY(a, c) <= Max(S) /\ Max(S) \in 0..LEVELS
  BY <1>1, HighestIs
<1>5. QED BY <1>3, <1>4

(* What is refused of an application. *)
LEMMA SharedBy ==
    ASSUME NEW a \in Apps, NEW r \in DOMAIN a.resources,
           NEW c \in Users(a, r), NEW d \in Users(a, r)
    PROVE  /\ a.access[c][r] = a.access[d][r]
           /\ a.resources[r].task_local => c = d
           /\ a.resources[r].lock_free /\ ~a.resources[r].task_local =>
                 c # "init" /\ PRIORITY(a, c) = PRIORITY(a, d)
           /\ c = "init" /\ ~a.resources[r].task_local => a.access[c][r] = "shared"
<1> DEFINE U == Users(a, r)
           modes == {a.access[e][r] : e \in U}
           levels == {PRIORITY(a, e) : e \in U}
           p == a.resources[r]
<1>1. /\ p.task_local => Cardinality(U) <= 1
      /\ p.lock_free /\ ~p.task_local => "init" \notin U /\ Cardinality(levels) <= 1
      /\ Cardinality(modes) <= 1
      /\ "init" \in U => p.task_local \/ modes = {"shared"}
  BY AppsAssumption DEF Accepted
<1>2. IsFiniteSet(U) /\ c \in U /\ d \in U
  BY UsersFinite
<1> HIDE DEF U, p
<1>3. IsFiniteSet(modes) /\ a.access[c][r] \in modes /\ a.access[d][r] \in modes
  <2> DEFINE f == [e \in U |-> a.access[e][r]]
  <2>1. {f[e] : e \in U} = modes /\ DOMAIN f = U
    OBVIOUS
  <2> HIDE DEF f
  <2>2. IsFiniteSet({f[e] : e \in U})
    BY <1>2, <2>1, ImageFinite
  <2>3. IsFiniteSet(modes)
    BY <2>1, <2>2
  <2>4. QED BY <1>2, <2>3
<1>4. IsFiniteSet(levels) /\ PRIORITY(a, c) \in levels /\ PRIORITY(a, d) \in levels
  <2> DEFINE f == [e \in U |-> PRIORITY(a, e)]
  <2>1. {f[e] : e \in U} = levels /\ DOMAIN f = U
    OBVIOUS
  <2> HIDE DEF f
  <2>2. IsFiniteSet({f[e] : e \in U})
    BY <1>2, <2>1, ImageFinite
  <2>3. IsFiniteSet(levels)
    BY <2>1, <2>2
  <2>4. QED BY <1>2, <2>3
<1> HIDE DEF modes, levels
<1>5. a.access[c][r] = a.access[d][r]
  BY <1>1, <1>3, AtMostOne
<1>6. p.task_local => c = d
  BY <1>1, <1>2, AtMostOne
<1>7. p.lock_free /\ ~p.task_local => c # "init" /\ PRIORITY(a, c) = PRIORITY(a, d)
  BY <1>1, <1>2, <1>4, AtMostOne
<1>8. c = "init" /\ ~p.task_local => a.access[c][r] = "shared"
  BY <1>1, <1>2, <1>3
<1>9. QED BY <1>5, <1>6, <1>7, <1>8 DEF p

-----------------------------------------------------------------------------
(* Frames that have started: each runs above those below it. *)
LEMMA Rising ==
    ASSUME StartInv, NEW i \in 1..Len(stack), NEW j \in 1..Len(stack), i < j,
           Started(i), Started(j)
    PROVE  /\ PRIORITY(app, stack[i].context) < PRIORITY(app, stack[j].context)
           /\ PRIORITY(app, stack[j].context) = level[stack[j].line]
           /\ stack[j].context # "init"
<1>1. Len(stack) \in Nat /\ app \in Apps
  BY StackTyped, MainFacts
<1>2. ASSUME NEW k \in 2..Len(stack), Started(k)
      PROVE  /\ PRIORITY(app, stack[k].context) = level[stack[k].line]
             /\ level[stack[k].line] \in 1..LEVELS
             /\ stack[k].context # "init"
  <2>1. Handler(app, stack[k])
    BY DEF StartInv, Frames
  <2>2. stack[k].context \in Names(app) \cup {"init", "idle"}
    BY <1>2 DEF Started, Contexts
  <2>3. /\ stack[k].context \in DOMAIN app.software \cup DOMAIN app.hardware
        /\ PRIORITY(app, stack[k].context) = Declared(app, stack[k].line)
        /\ stack[k].line \in Lines(app)
    BY <1>1, <1>2, <2>1, NamesApart DEF Handler, Started
  <2>4. Declared(app, stack[k].line) \in 1..LEVELS
    BY <1>1, <2>3, DeclaredType
  <2>5. level[stack[k].line] = Declared(app, stack[k].line)
    BY AtItsPriority DEF RunsAtItsPriority
  <2>6. stack[k].context # "init"
    BY <1>1, <2>3, NamesApart DEF Names
  <2>7. QED BY <2>3, <2>4, <2>5, <2>6
<1>3. j \in 2..Len(stack)
  BY <1>1
<1>4. /\ PRIORITY(app, stack[j].context) = level[stack[j].line]
      /\ level[stack[j].line] \in 1..LEVELS
      /\ stack[j].context # "init"
  BY <1>2, <1>3
<1>5. CASE i = 1
  <2>1. stack[1].context \in {"main", "init", "idle"}
    BY DEF StartInv, Frames
  <2>2. /\ stack[1].context \notin DOMAIN app.software
        /\ stack[1].context \notin DOMAIN app.hardware
    BY <1>1, <2>1, NamesApart DEF Names
  <2>3. PRIORITY(app, stack[1].context) = 0
    BY <2>2 DEF PRIORITY
  <2>4. LEVELS \in Nat
    BY AppsAssumption
  <2>5. QED BY <1>4, <1>5, <2>3, <2>4
<1>6. CASE i > 1
  <2>1. i \in 2..Len(stack)
    BY <1>1, <1>6
  <2>2. PRIORITY(app, stack[i].context) = level[stack[i].line]
    BY <1>2, <2>1
  <2>3. level[stack[i].line] < level[stack[j].line]
    BY <1>6 DEF StartInv, Frames
  <2>4. QED BY <1>4, <2>2, <2>3
<1>7. i = 1 \/ i > 1
  BY <1>1
<1>8. QED BY <1>5, <1>6, <1>7

(* No frame that has started uses a resource that one below it has locked. *)
LEMMA LockedAlone ==
    ASSUME StartInv, NEW i \in 1..Len(stack), NEW j \in 1..Len(stack), i < j,
           Started(i), Started(j), NEW r \in Range(stack[i].locked),
           stack[j].context \in Users(app, r)
    PROVE  FALSE
<1> DEFINE x == PRIORITY(app, stack[j].context)
           y == Ceiling(app, r)
<1>1. x = level[stack[j].line] /\ stack[j].context # "init"
  BY Rising
<1>2. y < level[stack[j].line]
  BY DEF StartInv, Frames
<1>3. x <= y /\ y \in 0..LEVELS
  BY <1>1, CeilingIs, MainFacts
<1>4. x \in 0..LEVELS /\ LEVELS \in Nat
  BY PriorityType, MainFacts, AppsAssumption
<1>5. y < x
  BY <1>1, <1>2
<1> HIDE DEF x, y
<1>6. ~(y < x /\ x <= y)
  BY <1>3, <1>4
<1>7. QED BY <1>3, <1>5, <1>6

(* A reference `x` to the resource `r`: whose it is and how it was got.    *)
Holds(x, i, c, r) ==
    /\ x.owner = <<i, c>> /\ r \in DOMAIN app.resources /\ c \in Users(app, r)
    /\ \/ i \in 1..Len(stack) /\ Started(i) /\ c = stack[i].context
       \/ i = 1 /\ c = "init"
    /\ x.mutable => app.access[c][r] = "exclusive"
    /\ ~app.resources[r].task_local /\ ~app.resources[r].lock_free
         /\ app.access[c][r] = "exclusive" =>
           /\ i \in 1..Len(stack) /\ Started(i) /\ c = stack[i].context
           /\ r \in Range(stack[i].locked)

LEMMA Apart ==
    ASSUME StartInv, NEW x, NEW y, NEW i, NEW j, NEW c, NEW d, NEW r,
           Holds(x, i, c, r), Holds(y, j, d, r), x.mutable, <<i, c>> # <<j, d>>
    PROVE  FALSE
<1> DEFINE p == app.resources[r]
           InFrame(k, e) == k \in 1..Len(stack) /\ Started(k) /\ e = stack[k].context
<1>1. /\ app \in Apps /\ r \in DOMAIN app.resources
      /\ c \in Users(app, r) /\ d \in Users(app, r)
      /\ InFrame(i, c) \/ (i = 1 /\ c = "init")
      /\ InFrame(j, d) \/ (j = 1 /\ d = "init")
      /\ app.access[c][r] = "exclusive"
  BY MainFacts DEF Holds
<1>2. /\ app.access[d][r] = "exclusive"
      /\ p.task_local => c = d
      /\ p.lock_free /\ ~p.task_local =>
            c # "init" /\ d # "init" /\ PRIORITY(app, c) = PRIORITY(app, d)
  <2>1. /\ app.access[c][r] = app.access[d][r]
        /\ p.task_local => c = d
        /\ p.lock_free /\ ~p.task_local =>
              c # "init" /\ PRIORITY(app, c) = PRIORITY(app, d)
    BY <1>1, SharedBy
  <2>2. p.lock_free /\ ~p.task_local => d # "init"
    BY <1>1, SharedBy
  <2>3. QED BY <1>1, <2>1, <2>2
<1>3. Len(stack) \in Nat
  BY StackTyped
<1>4. \A e : PRIORITY(app, e) \in 0..LEVELS
  BY <1>1, PriorityType
<1>5. ASSUME NEW k, NEW l, NEW e, NEW f, InFrame(k, e), InFrame(l, f), k # l
      PROVE  PRIORITY(app, e) # PRIORITY(app, f)
  <2>1. LEVELS \in Nat
    BY AppsAssumption
  <2>2. CASE k < l
    <3>1. PRIORITY(app, e) < PRIORITY(app, f)
      BY <1>5, <2>2, Rising
    <3>2. QED BY <1>4, <2>1, <3>1
  <2>3. CASE l < k
    <3>1. PRIORITY(app, f) < PRIORITY(app, e)
      BY <1>5, <2>3, Rising
    <3>2. QED BY <1>4, <2>1, <3>1
  <2>4. k < l \/ l < k
    BY <1>3, <1>5
  <2>5. QED BY <2>2, <2>3, <2>4
<1>6. \A k, e : InFrame(k, e) /\ e = "init" => k = 1
  <2>1. SUFFICES ASSUME NEW k, InFrame(k, "init"), k # 1 PROVE FALSE
    OBVIOUS
  <2>2. k \in 2..Len(stack)
    BY <1>3, <2>1
  <2>3. Handler(app, stack[k])
    BY <2>2 DEF StartInv, Frames
  <2>4. QED BY <1>1, <2>1, <2>3, NamesApart DEF Handler, Names
<1>7. CASE p.task_local
  <2>1. c = d /\ i # j
    BY <1>2, <1>7
  <2>2. CASE c = "init"
    BY <1>1, <1>6, <2>1, <2>2
  <2>3. CASE c # "init"
    BY <1>1, <1>5, <2>1, <2>3
  <2>4. QED BY <2>2, <2>3
<1>8. CASE ~p.task_local /\ p.lock_free
  <2>1. InFrame(i, c) /\ InFrame(j, d) /\ PRIORITY(app, c) = PRIORITY(app, d)
    BY <1>1, <1>2, <1>8
  <2>2. i # j
    BY <2>1
  <2>3. QED BY <1>5, <2>1, <2>2
<1>9. CASE ~p.task_local /\ ~p.lock_free
  <2>1. /\ InFrame(i, c) /\ r \in Range(stack[i].locked)
        /\ InFrame(j, d) /\ r \in Range(stack[j].locked)
    BY <1>1, <1>2, <1>9 DEF Holds
  <2>2. i # j
    BY <2>1
  <2>3. ~(i < j)
    BY <1>1, <2>1, LockedAlone
  <2>4. ~(j < i)
    BY <1>1, <2>1, LockedAlone
  <2>5. i < j \/ j < i
    BY <1>3, <2>1, <2>2
  <2>6. QED BY <2>3, <2>4, <2>5
<1>10. QED BY <1>7, <1>8, <1>9

-----------------------------------------------------------------------------
(* Every reference there is. *)
LEMMA Tagged ==
    \A x, y : /\ <<"locals", x>> # <<"resource", y>>
              /\ <<"locals", x>> = <<"locals", y>> => x = y
              /\ <<"resource", x>> = <<"resource", y>> => x = y
OBVIOUS

LEMMA DirectIs ==
    ASSUME NEW a \in Apps, NEW c \in Contexts(a), NEW r \in DOMAIN a.access[c]
    PROVE  /\ r \in DOMAIN a.resources /\ c \in Users(a, r)
           /\ r \in Proxies(a, c) => a.access[c][r] = "exclusive"
           /\ Field(a, c, r).kind = "mut" => a.access[c][r] = "exclusive"
           /\ r \notin Proxies(a, c) /\ a.access[c][r] = "exclusive" =>
                 a.resources[r].task_local \/ a.resources[r].lock_free
<1>1. r \in DOMAIN a.resources /\ c \in Users(a, r)
  BY AccessFacts DEF Users
<1>2. r \in Proxies(a, c) <=> Field(a, c, r).kind = "proxy"
  BY DEF Proxies
<1>3. CASE /\ ~(a.resources[r].task_local \/ a.resources[r].lock_free)
           /\ a.access[c][r] = "exclusive"
  BY <1>1, <1>2, <1>3 DEF Field
<1>4. CASE ~(/\ ~(a.resources[r].task_local \/ a.resources[r].lock_free)
             /\ a.access[c][r] = "exclusive")
  <2>1. Field(a, c, r).kind = IF a.access[c][r] = "exclusive" THEN "mut" ELSE "ref"
    BY <1>4 DEF Field
  <2>2. QED BY <1>1, <1>2, <1>4, <2>1
<1>5. QED BY <1>3, <1>4

LEMMA Referenced ==
    ASSUME StartInv, NEW x \in Live
    PROVE  \/ \E i \in 1..Len(stack) :
                 /\ Started(i) /\ x.owner = <<i, stack[i].context>>
                 /\ x.to = <<"locals", stack[i].context>>
           \/ \E i, c, r : Holds(x, i, c, r) /\ x.to = <<"resource", r>>
<1>1. app \in Apps /\ DOMAIN stack = 1..Len(stack)
  BY MainFacts, StackTyped, LenProperties
<1>2. ASSUME NEW i, NEW c, NEW r, NEW m
      PROVE  /\ Reference(i, c, r, m).owner = <<i, c>> /\ Reference(i, c, r, m).to = r
             /\ Reference(i, c, r, m).mutable = m
  BY DEF Reference
<1>3. ASSUME NEW i \in 1..Len(stack), Started(i),
             NEW r \in Direct(stack[i].context),
             x = Reference(i, stack[i].context, <<"resource", r>>,
                           Field(app, stack[i].context, r).kind = "mut")
      PROVE  Holds(x, i, stack[i].context, r) /\ x.to = <<"resource", r>>
  <2> DEFINE c == stack[i].context
  <2>1. c \in Contexts(app) /\ r \in DOMAIN app.access[c] /\ r \notin Proxies(app, c)
    BY <1>3 DEF Started, Direct
  <2>2. x.owner = <<i, c>> /\ x.to = <<"resource", r>>
        /\ x.mutable = (Field(app, c, r).kind = "mut")
    BY <1>2, <1>3
  <2>3. c = stack[i].context
    OBVIOUS
  <2> HIDE DEF c
  <2>4. Holds(x, i, c, r)
    BY <1>1, <1>3, <2>1, <2>2, <2>3, DirectIs DEF Holds
  <2>5. QED BY <2>2, <2>4 DEF c
<1>4. ASSUME NEW i \in 1..Len(stack), Started(i), NEW r \in Range(stack[i].locked),
             x = Reference(i, stack[i].context, <<"resource", r>>, TRUE)
      PROVE  Holds(x, i, stack[i].context, r) /\ x.to = <<"resource", r>>
  <2> DEFINE c == stack[i].context
             q == stack[i].locked
  <2>1. r \in Lockable(app, c)
    <3>1. q \in Seq(Lockable(app, c)) /\ r \in Range(q)
      BY <1>4 DEF StartInv, Frames
    <3> HIDE DEF q, c
    <3>2. q \in [1..Len(q) -> Lockable(app, c)]
      BY <3>1, LenProperties
    <3>3. QED BY <3>1, <3>2 DEF Range
  <2>2. c \in Contexts(app) /\ r \in DOMAIN app.access[c] /\ r \in Proxies(app, c)
    BY <2>1 DEF Lockable, Proxies
  <2>3. x.owner = <<i, c>> /\ x.to = <<"resource", r>>
    BY <1>4 DEF Reference
  <2>4. c = stack[i].context
    OBVIOUS
  <2> HIDE DEF c, q
  <2>5. Holds(x, i, c, r)
    BY <1>1, <1>4, <2>2, <2>3, <2>4, DirectIs DEF Holds
  <2>6. QED BY <2>3, <2>5 DEF c
<1>5. ASSUME NEW r \in Kept,
             x = Reference(1, "init", <<"resource", r>>, Field(app, "init", r).kind = "mut")
      PROVE  Holds(x, 1, "init", r) /\ x.to = <<"resource", r>>
  <2>1. /\ "init" \in Contexts(app) /\ r \in DOMAIN app.access["init"]
        /\ r \notin Proxies(app, "init") /\ Field(app, "init", r).forever
    BY <1>5 DEF Kept, Direct, Contexts
  <2>2. x.owner = <<1, "init">> /\ x.to = <<"resource", r>>
        /\ x.mutable = (Field(app, "init", r).kind = "mut")
    BY <1>2, <1>5
  <2>3. Holds(x, 1, "init", r)
    BY <1>1, <2>1, <2>2, DirectIs DEF Holds
  <2>4. QED BY <2>2, <2>3
<1>6. \/ \E i \in 1..Len(stack) : Started(i) /\ x \in HeldBy(i)
      \/ x \in Fields(1, "init", Kept)
  <2>1. \/ \E i \in DOMAIN stack : Started(i) /\ x \in HeldBy(i)
        \/ x \in Fields(1, "init", Kept)
    BY DEF Live
  <2>2. QED BY <1>1, <2>1
<1>7. CASE x \in Fields(1, "init", Kept)
  BY <1>5, <1>7 DEF Fields
<1>8. ASSUME NEW i \in 1..Len(stack), Started(i), x \in HeldBy(i)
      PROVE  \/ /\ x.owner = <<i, stack[i].context>>
                /\ x.to = <<"locals", stack[i].context>>
             \/ \E c, r : Holds(x, i, c, r) /\ x.to = <<"resource", r>>
  <2>1. CASE x \in Fields(i, stack[i].context, Direct(stack[i].context))
    <3>1. PICK r \in Direct(stack[i].context) :
             x = Reference(i, stack[i].context, <<"resource", r>>,
                           Field(app, stack[i].context, r).kind = "mut")
      BY <2>1 DEF Fields
    <3>2. QED BY <1>3, <1>8, <3>1
  <2>2. ASSUME NEW r \in Range(stack[i].locked),
               x = Reference(i, stack[i].context, <<"resource", r>>, TRUE)
        PROVE  Holds(x, i, stack[i].context, r) /\ x.to = <<"resource", r>>
    BY <1>4, <1>8, <2>2
  <2>3. CASE x = Reference(i, stack[i].context, <<"locals", stack[i].context>>, TRUE)
    BY <2>3 DEF Reference
  <2>4. \/ x \in Fields(i, stack[i].context, Direct(stack[i].context))
        \/ \E r \in Range(stack[i].locked) :
              x = Reference(i, stack[i].context, <<"resource", r>>, TRUE)
        \/ x = Reference(i, stack[i].context, <<"locals", stack[i].context>>, TRUE)
    BY <1>8 DEF HeldBy
  <2>5. QED BY <2>1, <2>2, <2>3, <2>4
<1>9. QED BY <1>6, <1>7, <1>8

LEMMA Unaliased == StartInv => NoAliasing
<1> SUFFICES ASSUME StartInv, NEW x \in Live, NEW y \in Live, x.to = y.to,
                    x.owner # y.owner
             PROVE  ~x.mutable /\ ~y.mutable
  BY DEF NoAliasing
<1>1. ASSUME NEW i \in 1..Len(stack), Started(i), x.owner = <<i, stack[i].context>>,
             x.to = <<"locals", stack[i].context>>
      PROVE  FALSE
  <2>1. PICK j \in 1..Len(stack) :
           /\ Started(j) /\ y.owner = <<j, stack[j].context>>
           /\ y.to = <<"locals", stack[j].context>>
    <3>1. ~\E j, c, r : Holds(y, j, c, r) /\ y.to = <<"resource", r>>
      BY <1>1, Tagged
    <3>2. QED BY <3>1, Referenced
  <2>2. stack[i].context = stack[j].context
    BY <1>1, <2>1, Tagged
  <2>3. i # j
    BY <1>1, <2>1
  <2> DEFINE n == PRIORITY(app, stack[i].context)
  <2>4. i < j \/ j < i
    BY <2>3
  <2>5. n < n
    <3>1. CASE i < j
      BY <1>1, <2>1, <2>2, <3>1, Rising
    <3>2. CASE j < i
      BY <1>1, <2>1, <2>2, <3>2, Rising
    <3>3. QED BY <2>4, <3>1, <3>2
  <2>6. n \in 0..LEVELS /\ LEVELS \in Nat
    BY PriorityType, MainFacts, AppsAssumption
  <2> HIDE DEF n
  <2>7. QED BY <2>5, <2>6
<1>2. PICK i, c, r : Holds(x, i, c, r) /\ x.to = <<"resource", r>>
  BY <1>1, Referenced
<1>3. PICK j, d, s : Holds(y, j, d, s) /\ y.to = <<"resource", s>>
  <2>1. ~\E j \in 1..Len(stack) : y.to = <<"locals", stack[j].context>>
    BY <1>2, Tagged
  <2>2. QED BY <2>1, Referenced
<1>4. r = s
  BY <1>2, <1>3, Tagged
<1>5. <<i, c>> # <<j, d>>
  BY <1>2, <1>3 DEF Holds
<1>6. ~x.mutable
  BY <1>2, <1>3, <1>4, <1>5, Apart
<1>7. ~y.mutable
  BY <1>2, <1>3, <1>4, <1>5, Apart
<1>8. QED BY <1>6, <1>7

(* No `&mut` to a resource or to a task's locals is there together with    *)
(* another context's reference to it: whatever the application, the        *)
(* priorities and the interrupts taken.                                    *)
THEOREM NoAliasingHolds == Spec => []NoAliasing
BY Invariance, Unaliased, PTL
=============================================================================
