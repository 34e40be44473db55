--------------------------- MODULE TimerQueueProofs ---------------------------
(***************************************************************************)
(* For every capacity, every width of the clock and every distance of      *)
(* deadlines that leaves less than half its range between any two: no      *)
(* entry of the timer queue is forgotten, entries leave in the order of    *)
(* their deadlines although the clock wraps around, and the interrupt of   *)
(* an empty queue is switched off.                                         *)
(***************************************************************************)
EXTENDS TimerQueue, SequenceTheorems, Collections

-----------------------------------------------------------------------------
(* Arithmetic of the clock. *)
LEMMA ModRange == \A x \in Int, n \in Nat \ {0} : x % n \in 0..(n - 1)
OBVIOUS

LEMMA ModCases ==
    ASSUME NEW n \in Nat \ {0}, NEW x \in Int
    PROVE  /\ x \in 0..(n - 1) => x % n = x
           /\ x \in (-n)..(-1) => x % n = x + n
           /\ x \in n..(2 * n - 1) => x % n = x - n
<1>1. x % n \in 0..(n - 1)
  BY ModRange
<1>2. x \in 0..(n - 1) => x % n = x
  OBVIOUS
<1>3. x \in (-n)..(-1) => x % n = x + n
  OBVIOUS
<1>4. x \in n..(2 * n - 1) => x % n = x - n
  OBVIOUS
<1>5. QED BY <1>2, <1>3, <1>4

(* The constants. *)
LEMMA ClockFacts ==
    /\ Half \in Nat \ {0} /\ 2 * Half \in Nat \ {0}
    /\ Latency \in Nat /\ Ahead \in Nat /\ Past \in Nat /\ Past <= Latency
    /\ Latency + Ahead < Half
    /\ None \notin Instants
<1>1. /\ Half \in Nat /\ Latency \in Nat /\ Ahead \in Nat /\ Past \in 0..Latency
      /\ Latency + Ahead < Half
  BY TimerAssumption
<1>2. None \notin Int
  BY TimerAssumption
<1>3. None \notin Instants
  BY <1>1, <1>2 DEF Instants
<1>4. QED BY <1>1, <1>3

(* How many ticks are left, without the modulus. *)
LEMMA LeftIs ==
    ASSUME now \in Instants, NEW i \in Instants
    PROVE  /\ Left(i) \in (-Half)..(Half - 1)
           /\ \/ Left(i) = i - now
              \/ Left(i) = i - now + 2 * Half
              \/ Left(i) = i - now - 2 * Half
<1> DEFINE n == 2 * Half
           x == i - now + Half
<1>1. /\ n \in Nat \ {0} /\ Half \in Nat \ {0} /\ n = 2 * Half
      /\ i \in 0..(n - 1) /\ now \in 0..(n - 1)
  BY ClockFacts DEF Instants
<1>2. /\ x \in Int /\ x = i - now + Half
      /\ x \in 0..(n - 1) \/ x \in (-n)..(-1) \/ x \in n..(2 * n - 1)
  BY <1>1
<1>3. Left(i) = (x % n) - Half
  BY DEF Left
<1> HIDE DEF n, x
<1>4. x % n \in 0..(n - 1)
  BY <1>1, <1>2, ModRange
<1>5. x % n = x \/ x % n = x + n \/ x % n = x - n
  BY <1>1, <1>2, ModCases
<1>6. QED BY <1>1, <1>2, <1>3, <1>4, <1>5

(* Deadlines that are less than half the clock's range apart are compared  *)
(* as the ticks left until them.                                           *)
LEMMA EarlierIs ==
    ASSUME now \in Instants, NEW i \in Instants, NEW j \in Instants,
           Left(i) \in (-Latency)..Ahead, Left(j) \in (-Latency)..Ahead
    PROVE  Earlier(i, j) <=> Left(i) < Left(j)
<1> DEFINE n == 2 * Half
           x == j - i
           d == Left(j) - Left(i)
<1>1. /\ n \in Nat \ {0} /\ Half \in Nat \ {0} /\ n = 2 * Half
      /\ i \in 0..(n - 1) /\ j \in 0..(n - 1) /\ now \in 0..(n - 1)
  BY ClockFacts DEF Instants
<1>2. d \in Int /\ -Half < d /\ d < Half /\ (Left(i) < Left(j) <=> d > 0)
  BY ClockFacts
<1>3. /\ x \in Int /\ -n < x /\ x < n
      /\ \/ d = x \/ d = x + n \/ d = x - n
         \/ d = x + 2 * n \/ d = x - 2 * n
  BY <1>1, LeftIs
<1>4. Earlier(i, j) <=> x % n \in 1..(Half - 1)
  BY DEF Earlier
<1> HIDE DEF n, x, d
<1>5. d = x \/ d = x + n \/ d = x - n
  BY <1>1, <1>2, <1>3
<1>6. /\ x \in 0..(n - 1) => x % n = x
      /\ x \in (-n)..(-1) => x % n = x + n
  BY <1>1, <1>3, ModCases
<1>7. x \in 0..(n - 1) \/ x \in (-n)..(-1)
  BY <1>1, <1>3
<1>8. QED BY <1>1, <1>2, <1>4, <1>5, <1>6, <1>7

(* An instant is in the future if some ticks are left until it; the        *)
(* difference to the clock then is their number.                           *)
LEMMA FutureIs ==
    ASSUME now \in Instants, NEW i \in Instants
    PROVE  /\ Earlier(now, i) <=> Left(i) >= 1
           /\ Left(i) >= 1 => (i - now) % (2 * Half) = Left(i)
<1> DEFINE n == 2 * Half
           x == i - now
<1>1. /\ n \in Nat \ {0} /\ Half \in Nat \ {0} /\ n = 2 * Half
      /\ i \in 0..(n - 1) /\ now \in 0..(n - 1)
  BY ClockFacts DEF Instants
<1>2. x \in Int /\ (x \in 0..(n - 1) \/ x \in (-n)..(-1))
  BY <1>1
<1>3. /\ Left(i) \in (-Half)..(Half - 1)
      /\ Left(i) = x \/ Left(i) = x + n \/ Left(i) = x - n
  BY LeftIs
<1>4. Earlier(now, i) <=> x % n \in 1..(Half - 1)
  BY DEF Earlier
<1>5. /\ x \in 0..(n - 1) => x % n = x
      /\ x \in (-n)..(-1) => x % n = x + n
  BY <1>1, <1>2, ModCases
<1>6. (i - now) % (2 * Half) = x % n
  OBVIOUS
<1> HIDE DEF n, x
<1>7. QED BY <1>1, <1>2, <1>3, <1>4, <1>5, <1>6

(* A tick of the clock. *)
LEMMA TickIs ==
    ASSUME now \in Instants, now' = (now + 1) % (2 * Half)
    PROVE  /\ now' \in Instants
           /\ \A i \in Instants : Left(i) > -Half => Left(i)' = Left(i) - 1
           /\ \A c \in Instants :
                 (c - now) % (2 * Half) # 0 /\ c # now'
                   => (c - now') % (2 * Half) = ((c - now) % (2 * Half)) - 1
           /\ \A c \in Instants : (c - now) % (2 * Half) = 1 => c = now'
<1> DEFINE n == 2 * Half
<1>1. /\ n \in Nat \ {0} /\ Half \in Nat \ {0} /\ n = 2 * Half
      /\ now \in 0..(n - 1) /\ Instants = 0..(n - 1)
  BY ClockFacts DEF Instants
<1>2. now' = IF now = n - 1 THEN 0 ELSE now + 1
  <2>1. now + 1 \in Int /\ (now + 1 \in 0..(n - 1) \/ now + 1 \in n..(2 * n - 1))
    BY <1>1
  <2> DEFINE x == now + 1
  <2>2. now' = x % n /\ x = now + 1
    OBVIOUS
  <2>3. x \in Int /\ (x \in 0..(n - 1) \/ x \in n..(2 * n - 1))
    BY <2>1
  <2> HIDE DEF n, x
  <2>4. (x \in 0..(n - 1) => x % n = x) /\ (x \in n..(2 * n - 1) => x % n = x - n)
    BY <1>1, <2>3, ModCases
  <2>5. QED BY <1>1, <2>2, <2>3, <2>4
<1>3. now' \in 0..(n - 1)
  BY <1>1, <1>2
<1>4. ASSUME NEW i \in Instants, Left(i) > -Half PROVE Left(i)' = Left(i) - 1
  <2>1. /\ Left(i) \in (-Half)..(Half - 1)
        /\ \/ Left(i) = i - now
           \/ Left(i) = i - now + n
           \/ Left(i) = i - now - n
    BY LeftIs
  <2>2. Left(i)' = ((i - now' + Half) % n) - Half
    BY DEF Left
  <2> DEFINE x == i - now' + Half
  <2>3. /\ x \in Int /\ x = i - now' + Half
        /\ x \in 0..(n - 1) \/ x \in (-n)..(-1) \/ x \in n..(2 * n - 1)
    BY <1>1, <1>3
  <2>4. Left(i)' = (x % n) - Half
    BY <2>2
  <2> HIDE DEF n, x
  <2>5. x % n \in 0..(n - 1)
    BY <1>1, <2>3, ModRange
  <2>6. x % n = x \/ x % n = x + n \/ x % n = x - n
    BY <1>1, <2>3, ModCases
  <2> DEFINE before == Left(i)
             after == Left(i)'
  <2>7. /\ before \in (-Half)..(Half - 1) /\ before > -Half
        /\ before = i - now \/ before = i - now + n \/ before = i - now - n
        /\ after = (x % n) - Half
    BY <1>4, <2>1, <2>4
  <2>8. i \in 0..(n - 1)
    BY <1>1
  <2> HIDE DEF before, after
  <2>9. after = before - 1
    BY <1>1, <1>2, <2>3, <2>5, <2>6, <2>7, <2>8
  <2>10. QED BY <2>9 DEF before, after
<1>5. ASSUME NEW c \in Instants
      PROVE  /\ (c - now) % n # 0 /\ c # now' => (c - now') % n = ((c - now) % n) - 1
             /\ (c - now) % n = 1 => c = now'
  <2> DEFINE x == c - now
             y == c - now'
  <2>1. /\ x \in Int /\ x = c - now /\ (x \in 0..(n - 1) \/ x \in (-n)..(-1))
        /\ y \in Int /\ y = c - now' /\ (y \in 0..(n - 1) \/ y \in (-n)..(-1))
        /\ c \in 0..(n - 1)
    BY <1>1, <1>3, <1>5
  <2> HIDE DEF n, x, y
  <2>2. /\ x \in 0..(n - 1) => x % n = x
        /\ x \in (-n)..(-1) => x % n = x + n
        /\ y \in 0..(n - 1) => y % n = y
        /\ y \in (-n)..(-1) => y % n = y + n
    BY <1>1, <2>1, ModCases
  <2>3. (x % n # 0 /\ c # now' => y % n = (x % n) - 1) /\ (x % n = 1 => c = now')
    BY <1>1, <1>2, <2>1, <2>2
  <2>4. QED BY <2>3 DEF x, y
<1>6. QED BY <1>1, <1>3, <1>4, <1>5

-----------------------------------------------------------------------------
(* The order of the entries: by the ticks left until their deadlines, which *)
(* are near enough to one another for the comparison of instants.          *)
Near(e) == Left(e.instant) \in (-Latency)..Ahead
Ordered(q) ==
    /\ q \in Seq(NotReady)
    /\ \A i \in 1..Len(q) : Near(q[i])
    /\ \A i, j \in 1..Len(q) : i < j => Left(q[i].instant) <= Left(q[j].instant)

(* A marker's position is one of the queue's, if it is found. *)
LEMMA PositionIs ==
    ASSUME NEW q \in Seq(NotReady), NEW m
    PROVE  Position(q, m) \in 0..Len(q)
<1> DEFINE I == {i \in 1..Len(q) : q[i].marker = m}
<1>1. Position(q, m) = IF I # {} THEN Min(I) ELSE 0
  BY DEF Position, SelectInSeq
<1>2. Len(q) \in Nat /\ I \in SUBSET (1..Len(q))
  OBVIOUS
<1>3. I \in SUBSET Nat
  BY <1>2
<1> HIDE DEF I
<1>4. CASE I # {}
  <2>1. Min(I) \in I
    BY <1>3, <1>4, Smallest
  <2>2. Position(q, m) = Min(I)
    BY <1>1, <1>4
  <2>3. Min(I) \in 1..Len(q)
    BY <1>2, <2>1, Zenon
  <2>4. Position(q, m) \in 1..Len(q)
    BY <2>2, <2>3, Zenon
  <2>5. QED BY <1>2, <2>4
<1>5. CASE I = {}
  BY <1>1, <1>2, <1>5
<1>6. QED BY <1>4, <1>5

(* A new entry goes in front of the first that is not earlier. *)
LEMMA PlacedIs ==
    ASSUME NEW q \in Seq(NotReady), NEW e \in NotReady
    PROVE  /\ PlaceBy(Earlier, q, e) \in Seq(NotReady)
           /\ Len(PlaceBy(Earlier, q, e)) = Len(q) + 1
           /\ \E k \in 1..(Len(q) + 1) :
                 /\ \A i \in 1..(k - 1) : Earlier(q[i].instant, e.instant)
                 /\ k <= Len(q) => ~Earlier(q[k].instant, e.instant)
                 /\ \A i \in 1..(Len(q) + 1) :
                       PlaceBy(Earlier, q, e)[i] =
                          IF i < k THEN q[i] ELSE IF i = k THEN e ELSE q[i - 1]
<1> DEFINE I == {i \in 1..Len(q) : ~Earlier(q[i].instant, e.instant)}
           before == IF I # {} THEN Min(I) ELSE 0
           r == PlaceBy(Earlier, q, e)
<1>1. r = IF before = 0 THEN Append(q, e) ELSE InsertAt(q, before, e)
  BY DEF PlaceBy, SelectInSeq
<1>2. Len(q) \in Nat /\ I \in SUBSET (1..Len(q)) /\ I \in SUBSET Nat
  <2>1. Len(q) \in Nat /\ I \in SUBSET (1..Len(q))
    OBVIOUS
  <2>2. QED BY <2>1
<1>3. \A i \in 1..Len(q) : i \in I <=> ~Earlier(q[i].instant, e.instant)
  OBVIOUS
<1> HIDE DEF I, r
<1>4. CASE I = {}
  <2>1. r = Append(q, e)
    BY <1>1, <1>4
  <2>2. /\ r \in Seq(NotReady) /\ Len(r) = Len(q) + 1
        /\ \A i \in 1..(Len(q) + 1) : r[i] = IF i = Len(q) + 1 THEN e ELSE q[i]
    BY <2>1, AppendProperties
  <2>3. \A i \in 1..Len(q) : Earlier(q[i].instant, e.instant)
    BY <1>3, <1>4
  <2> DEFINE k == Len(q) + 1
  <2>4. /\ k \in 1..(Len(q) + 1) /\ ~(k <= Len(q))
        /\ \A i \in 1..(k - 1) : Earlier(q[i].instant, e.instant)
        /\ \A i \in 1..(Len(q) + 1) :
              r[i] = IF i < k THEN q[i] ELSE IF i = k THEN e ELSE q[i - 1]
    BY <1>2, <2>2, <2>3
  <2> HIDE DEF k
  <2>5. QED BY <2>2, <2>4 DEF r
<1>5. CASE I # {}
  <2> DEFINE k == Min(I)
  <2>1. k \in I /\ \A i \in I : k <= i
    BY <1>2, <1>5, Smallest
  <2>2. k \in 1..Len(q) /\ before = k
    BY <1>2, <1>5, <2>1
  <2>3. r = InsertAt(q, k, e)
    BY <1>1, <1>2, <2>2
  <2> HIDE DEF k, before
  <2>4. /\ r \in Seq(NotReady) /\ Len(r) = Len(q) + 1
        /\ \A i \in 1..(Len(q) + 1) :
              r[i] = IF i < k THEN q[i] ELSE IF i = k THEN e ELSE q[i - 1]
    BY <2>2, <2>3, Inserted
  <2>5. \A i \in 1..(k - 1) : Earlier(q[i].instant, e.instant)
    BY <1>2, <1>3, <2>1, <2>2
  <2>6. ~Earlier(q[k].instant, e.instant) /\ k \in 1..(Len(q) + 1)
    BY <1>2, <1>3, <2>1, <2>2
  <2>7. QED BY <2>4, <2>5, <2>6 DEF r
<1>6. QED BY <1>4, <1>5

(* What the operations on the queue keep, and what becomes of its head. *)
LEMMA PlaceKeepsOrder ==
    ASSUME now \in Instants, NEW q, Ordered(q), NEW e \in NotReady, Near(e)
    PROVE  /\ Ordered(PlaceBy(Earlier, q, e))
           /\ Len(PlaceBy(Earlier, q, e)) = Len(q) + 1
           /\ PlaceBy(Earlier, q, e) # <<>>
           /\ q # <<>> /\ ~Earlier(e.instant, Head(q).instant)
                => Left(Head(PlaceBy(Earlier, q, e)).instant) = Left(Head(q).instant)
<1> DEFINE r == PlaceBy(Earlier, q, e)
           n == Len(q)
           L(x) == Left(x.instant)
<1>1. q \in Seq(NotReady) /\ n \in Nat /\ e.instant \in Instants
  BY DEF Ordered, NotReady
<1>2. \A i \in 1..n : q[i] \in NotReady /\ q[i].instant \in Instants /\ Near(q[i])
  <2>1. \A x \in NotReady : x.instant \in Instants
    BY DEF NotReady
  <2>2. \A i \in 1..n : q[i] \in NotReady
    BY <1>1
  <2>3. \A i \in 1..n : Near(q[i])
    BY DEF Ordered
  <2>4. QED BY <2>1, <2>2, <2>3
<1>3. /\ L(e) \in Int
      /\ \A i \in 1..n : L(q[i]) \in Int
      /\ \A i, j \in 1..n : i < j => L(q[i]) <= L(q[j])
  BY <1>1, <1>2, LeftIs, ClockFacts DEF Ordered
<1>4. \A i \in 1..n : Earlier(q[i].instant, e.instant) <=> L(q[i]) < L(e)
  <2>1. ASSUME NEW i \in 1..n
        PROVE  Earlier(q[i].instant, e.instant) <=> L(q[i]) < L(e)
    <3>1. q[i].instant \in Instants /\ Near(q[i])
      BY <1>2
    <3>2. QED BY <1>1, <3>1, EarlierIs DEF Near
  <2>2. QED BY <2>1
<1>5. \A i \in 1..n : Earlier(e.instant, q[i].instant) <=> L(e) < L(q[i])
  <2>1. ASSUME NEW i \in 1..n
        PROVE  Earlier(e.instant, q[i].instant) <=> L(e) < L(q[i])
    <3>1. q[i].instant \in Instants /\ Near(q[i])
      BY <1>2
    <3>2. QED BY <1>1, <3>1, EarlierIs DEF Near
  <2>2. QED BY <2>1
<1>6. r \in Seq(NotReady) /\ Len(r) = n + 1
  BY <1>1, PlacedIs
<1>7. PICK k \in 1..(n + 1) :
         /\ \A i \in 1..(k - 1) : Earlier(q[i].instant, e.instant)
         /\ k <= n => ~Earlier(q[k].instant, e.instant)
         /\ \A i \in 1..(n + 1) :
               r[i] = IF i < k THEN q[i] ELSE IF i = k THEN e ELSE q[i - 1]
  BY <1>1, PlacedIs
<1> HIDE DEF r, n
<1>8. /\ \A i \in 1..(k - 1) : L(q[i]) < L(e)
      /\ \A i \in k..n : L(e) <= L(q[i])
  <2>1. \A i \in 1..(k - 1) : i \in 1..n
    BY <1>1
  <2>2. \A i \in 1..(k - 1) : L(q[i]) < L(e)
    BY <1>4, <1>7, <2>1
  <2>3. k <= n => L(e) <= L(q[k])
    BY <1>1, <1>3, <1>4, <1>7
  <2>4. ASSUME NEW i \in k..n PROVE L(e) <= L(q[i])
    <3>1. k <= n /\ i \in 1..n /\ k \in 1..n /\ (i = k \/ k < i)
      BY <1>1
    <3>2. QED BY <1>3, <2>3, <3>1
  <2>5. QED BY <2>2, <2>4
<1>9. \A i \in 1..(n + 1) : Near(r[i])
  <2>1. \A i \in 1..(n + 1) : (i < k => i \in 1..n) /\ (i > k => i - 1 \in 1..n)
    BY <1>1
  <2>2. QED BY <1>2, <1>7, <2>1
<1>10. ASSUME NEW i \in 1..(n + 1), NEW j \in 1..(n + 1), i < j
       PROVE  L(r[i]) <= L(r[j])
  <2>1. CASE j < k
    <3>1. r[i] = q[i] /\ r[j] = q[j] /\ i \in 1..n /\ j \in 1..n
      BY <1>1, <1>7, <1>10, <2>1
    <3>2. QED BY <1>3, <1>10, <3>1
  <2>2. CASE j = k
    <3>1. r[i] = q[i] /\ r[j] = e /\ i \in 1..(k - 1) /\ i \in 1..n
      BY <1>1, <1>7, <1>10, <2>2
    <3>2. QED BY <1>3, <1>8, <3>1
  <2>3. CASE j > k /\ i < k
    <3>1. /\ r[i] = q[i] /\ r[j] = q[j - 1] /\ i \in 1..(k - 1)
          /\ j - 1 \in k..n /\ i \in 1..n /\ j - 1 \in 1..n /\ i < j - 1
      BY <1>1, <1>7, <2>3
    <3>2. QED BY <1>3, <3>1
  <2>4. CASE j > k /\ i = k
    <3>1. r[i] = e /\ r[j] = q[j - 1] /\ j - 1 \in k..n
      BY <1>1, <1>7, <2>4
    <3>2. QED BY <1>8, <3>1
  <2>5. CASE j > k /\ i > k
    <3>1. /\ r[i] = q[i - 1] /\ r[j] = q[j - 1]
          /\ i - 1 \in 1..n /\ j - 1 \in 1..n /\ i - 1 < j - 1
      BY <1>1, <1>7, <1>10, <2>5
    <3>2. QED BY <1>3, <3>1
  <2>6. QED BY <1>1, <2>1, <2>2, <2>3, <2>4, <2>5
<1>11. r # <<>> /\ Head(r) = r[1] /\ (q # <<>> => Head(q) = q[1] /\ n >= 1)
  BY <1>1, <1>6 DEF n
<1>12. ASSUME q # <<>>, ~Earlier(e.instant, Head(q).instant)
       PROVE  L(Head(r)) = L(Head(q))
  <2>1. n >= 1 /\ 1 \in 1..n /\ 1 \in 1..(n + 1) /\ L(q[1]) <= L(e)
    BY <1>1, <1>3, <1>5, <1>11, <1>12
  <2>2. CASE k = 1
    <3>1. r[1] = e /\ L(e) <= L(q[1])
      BY <1>7, <1>8, <2>1, <2>2
    <3>2. QED BY <1>3, <1>11, <1>12, <2>1, <3>1
  <2>3. CASE k > 1
    <3>1. r[1] = q[1]
      BY <1>7, <2>1, <2>3
    <3>2. QED BY <1>11, <1>12, <3>1
  <2>4. QED BY <2>2, <2>3
<1>13. Ordered(r)
  BY <1>6, <1>9, <1>10 DEF Ordered
<1>14. QED BY <1>6, <1>11, <1>12, <1>13 DEF r, n

LEMMA RemoveKeepsOrder ==
    ASSUME now \in Instants, NEW q, Ordered(q), NEW k \in 1..Len(q)
    PROVE  /\ Ordered(RemoveAt(q, k))
           /\ Len(RemoveAt(q, k)) = Len(q) - 1
           /\ q # <<>>
           /\ RemoveAt(q, k) # <<>>
                => Left(Head(q).instant) <= Left(Head(RemoveAt(q, k)).instant)
<1> DEFINE r == RemoveAt(q, k)
           n == Len(q)
           L(x) == Left(x.instant)
<1>1. q \in Seq(NotReady) /\ n \in Nat /\ k \in 1..n
  BY DEF Ordered
<1>2. /\ \A i \in 1..n : Near(q[i]) /\ L(q[i]) \in Int
      /\ \A i, j \in 1..n : i < j => L(q[i]) <= L(q[j])
  <2>1. \A i \in 1..n : Near(q[i])
    BY DEF Ordered
  <2>2. \A i \in 1..n : L(q[i]) \in Int
    BY <2>1, ClockFacts DEF Near
  <2>3. QED BY <2>1, <2>2 DEF Ordered
<1>3. /\ r \in Seq(NotReady) /\ Len(r) = n - 1
      /\ \A i \in 1..(n - 1) : r[i] = IF i < k THEN q[i] ELSE q[i + 1]
  BY <1>1, Removed
<1> HIDE DEF r, n
<1>4. \A i \in 1..(n - 1) : /\ i \in 1..n /\ i + 1 \in 1..n
                            /\ i < k => r[i] = q[i]
                            /\ i >= k => r[i] = q[i + 1]
  <2>1. ASSUME NEW i \in 1..(n - 1)
        PROVE  /\ i \in 1..n /\ i + 1 \in 1..n
               /\ i < k => r[i] = q[i]
               /\ i >= k => r[i] = q[i + 1]
    <3>1. r[i] = IF i < k THEN q[i] ELSE q[i + 1]
      BY <1>3
    <3>2. i \in 1..n /\ i + 1 \in 1..n /\ ~(i < k /\ i >= k)
      BY <1>1
    <3>3. QED BY <3>1, <3>2
  <2>2. QED BY <2>1
<1>5. \A i \in 1..(n - 1) : Near(r[i])
  BY <1>2, <1>4
<1>6. ASSUME NEW i \in 1..(n - 1), NEW j \in 1..(n - 1), i < j
      PROVE  L(r[i]) <= L(r[j])
  <2>1. PICK a \in 1..n, b \in 1..n : r[i] = q[a] /\ r[j] = q[b] /\ a < b
    <3>1. CASE j < k
      <4>1. i < k
        BY <1>1, <1>6, <3>1
      <4>2. r[i] = q[i] /\ r[j] = q[j] /\ i \in 1..n /\ j \in 1..n
        BY <1>4, <3>1, <4>1
      <4>3. QED BY <1>6, <4>2
    <3>2. CASE j >= k /\ i < k
      <4>1. i < j + 1
        BY <1>6
      <4>2. r[i] = q[i] /\ r[j] = q[j + 1] /\ i \in 1..n /\ j + 1 \in 1..n
        BY <1>4, <3>2
      <4>3. QED BY <4>1, <4>2
    <3>3. CASE i >= k
      <4>1. i + 1 < j + 1 /\ j >= k
        BY <1>1, <1>6, <3>3
      <4>2. r[i] = q[i + 1] /\ r[j] = q[j + 1] /\ i + 1 \in 1..n /\ j + 1 \in 1..n
        BY <1>4, <3>3, <4>1
      <4>3. QED BY <4>1, <4>2
    <3>4. QED BY <1>1, <3>1, <3>2, <3>3
  <2>2. QED BY <1>2, <2>1
<1>7. q # <<>> /\ n >= 1 /\ Head(q) = q[1]
  BY <1>1 DEF n
<1>8. ASSUME r # <<>> PROVE L(Head(q)) <= L(Head(r))
  <2>1. Head(r) = r[1] /\ n - 1 >= 1
    BY <1>1, <1>3, <1>8
  <2>2. 1 \in 1..(n - 1) /\ 1 \in 1..n /\ 2 \in 1..n
    BY <1>1, <2>1
  <2>3. r[1] = q[1] \/ r[1] = q[2]
    BY <1>4, <2>2
  <2>4. L(q[1]) <= L(q[1]) /\ L(q[1]) <= L(q[2])
    BY <1>2, <2>2
  <2>5. QED BY <1>7, <2>1, <2>3, <2>4
<1>9. Ordered(r)
  BY <1>3, <1>5, <1>6 DEF Ordered
<1>10. QED BY <1>3, <1>7, <1>8, <1>9 DEF r, n

LEMMA TailKeepsOrder ==
    ASSUME now \in Instants, NEW q, Ordered(q), q # <<>>
    PROVE  /\ Ordered(Tail(q))
           /\ Len(Tail(q)) = Len(q) - 1
           /\ \A e \in Range(Tail(q)) : Left(Head(q).instant) <= Left(e.instant)
<1> DEFINE r == Tail(q)
           n == Len(q)
           L(x) == Left(x.instant)
<1>1. q \in Seq(NotReady) /\ n \in Nat /\ n >= 1 /\ Head(q) = q[1]
  BY DEF Ordered
<1>2. /\ \A i \in 1..n : Near(q[i])
      /\ \A i, j \in 1..n : i < j => L(q[i]) <= L(q[j])
  BY DEF Ordered
<1>3. /\ r \in Seq(NotReady) /\ Len(r) = n - 1
      /\ \A i \in 1..(n - 1) : r[i] = q[i + 1]
  BY <1>1, HeadTailProperties
<1> HIDE DEF r, n
<1>4. \A i \in 1..(n - 1) : r[i] = q[i + 1] /\ i + 1 \in 1..n
  BY <1>1, <1>3
<1>5. \A i \in 1..(n - 1) : Near(r[i])
  BY <1>2, <1>4
<1>6. ASSUME NEW i \in 1..(n - 1), NEW j \in 1..(n - 1), i < j
      PROVE  L(r[i]) <= L(r[j])
  <2>1. i + 1 < j + 1
    BY <1>1, <1>6
  <2>2. QED BY <1>2, <1>4, <2>1
<1>7. ASSUME NEW e \in Range(r) PROVE L(Head(q)) <= L(e)
  <2>1. PICK i \in 1..(n - 1) : e = r[i]
    BY <1>3 DEF Range
  <2>2. 1 \in 1..n /\ 1 < i + 1
    BY <1>1
  <2>3. QED BY <1>1, <1>2, <1>4, <2>1, <2>2
<1>8. Ordered(r)
  BY <1>3, <1>5, <1>6 DEF Ordered
<1>9. QED BY <1>3, <1>7, <1>8 DEF r, n

-----------------------------------------------------------------------------
(* The invariant.  The switches: an entry in the queue has the interrupt   *)
(* enabled, and what enables it keeps the timer counting.                  *)
Switches ==
    /\ ~disable => unmasked
    /\ queue # <<>> => unmasked
    /\ mono /\ unmasked => counting
    /\ ~mono => pc = "idle" /\ compare = None

(* The handler does not lose the entry it arms the timer for. *)
Loop ==
    /\ pc \in {"arm", "recheck"} => queue # <<>>
    /\ pc = "recheck" => compare = Head(queue).instant

(* EntriesAreArmed, of init too, where post_init is still to come. *)
Armed == queue # <<>> /\ pc \in {"idle", "return"} => WillInterrupt

Quiet ==
    disable /\ pc \in {"idle", "return"} => ~unmasked \/ pended \/ compare # None

QueueInv == TypeOK /\ Ordered(queue) /\ Switches /\ Loop /\ Armed /\ Quiet

LEMMA QueueInvSuffices == QueueInv => EntriesAreArmed /\ SilentWhenEmpty
BY DEF QueueInv, Switches, Armed, Quiet, EntriesAreArmed, SilentWhenEmpty

(* While the clock stands still. *)
LEMMA SameInstant ==
    ASSUME now' = now
    PROVE  /\ \A i : Left(i)' = Left(i)
           /\ \A q : Ordered(q)' <=> Ordered(q)
<1>1. \A i : Left(i)' = Left(i)
  BY DEF Left
<1>2. \A e : Near(e)' <=> Near(e)
  BY DEF Near, Left
<1>3. QED BY <1>1, <1>2 DEF Ordered, Left

LEMMA StillInterrupts ==
    ASSUME WillInterrupt, now' = now, compare' = compare, counting' = counting,
           unmasked', pended => pended', now \in Instants,
           Left(Head(queue).instant) \in Int, Left(Head(queue').instant) \in Int,
           Left(Head(queue).instant) <= Left(Head(queue').instant)
    PROVE  WillInterrupt'
<1>1. CASE pended
  BY <1>1 DEF WillInterrupt
<1>2. CASE ~pended
  <2> DEFINE d == (compare - now) % (2 * Half)
  <2>1. /\ counting /\ compare # None
        /\ d \in 1..Left(Head(queue).instant)
    BY <1>2 DEF WillInterrupt
  <2>2. d \in 1..Left(Head(queue').instant)
    <3> HIDE DEF d
    <3>1. QED BY <2>1
  <2>3. ((compare - now) % (2 * Half))' = d
    OBVIOUS
  <2>4. Left(Head(queue).instant)' = Left(Head(queue').instant)
    BY DEF Left
  <2>5. QED BY <2>1, <2>2, <2>3, <2>4 DEF WillInterrupt
<1>3. QED BY <1>1, <1>2

LEMMA InitQueue == Init => QueueInv
<1> SUFFICES ASSUME Init PROVE QueueInv
  OBVIOUS
<1>1. queue = <<>> /\ queue \in Seq(NotReady) /\ Len(queue) = 0
  BY DEF Init
<1>2. TypeOK
  <2>1. 0 \in Instants /\ 0 <= Capacity /\ 0 \in 0..MaxCalls
    BY TimerAssumption, ClockFacts DEF Instants
  <2>2. QED BY <1>1, <2>1 DEF Init, TypeOK
<1>3. Ordered(queue)
  BY <1>1 DEF Ordered
<1>4. Switches /\ Loop /\ Armed /\ Quiet
  BY <1>1 DEF Init, Switches, Loop, Armed, Quiet
<1>5. QED BY <1>2, <1>3, <1>4 DEF QueueInv

-----------------------------------------------------------------------------
(* What is at the head of a queue in order. *)
LEMMA HeadIs ==
    ASSUME NEW q, Ordered(q), q # <<>>
    PROVE  /\ Head(q) \in NotReady /\ Head(q).instant \in Instants
           /\ Near(Head(q)) /\ Left(Head(q).instant) \in Int
           /\ \A i \in 1..Len(q) : Left(Head(q).instant) <= Left(q[i].instant)
           /\ 1 \in 1..Len(q) /\ Head(q) = q[1]
<1>1. q \in Seq(NotReady) /\ 1 \in 1..Len(q) /\ Head(q) = q[1]
  BY DEF Ordered
<1>2. Head(q) \in NotReady /\ Head(q).instant \in Instants
  <2>1. Head(q) \in NotReady
    BY <1>1
  <2>2. QED BY <2>1 DEF NotReady
<1>3. Near(Head(q))
  BY <1>1 DEF Ordered
<1>4. Left(Head(q).instant) \in Int
  BY <1>3, ClockFacts DEF Near
<1>5. ASSUME NEW i \in 1..Len(q)
      PROVE  Left(Head(q).instant) <= Left(q[i].instant)
  <2>1. CASE i = 1
    BY <1>1, <1>4, <2>1
  <2>2. CASE 1 < i
    BY <1>1, <2>2 DEF Ordered
  <2>3. QED BY <2>1, <2>2
<1>6. QED BY <1>1, <1>2, <1>3, <1>4, <1>5

(* The clock only moves on while the handler is in time. *)
LEMMA TickKeeps == QueueInv /\ Tick => QueueInv'
<1> SUFFICES ASSUME QueueInv, Tick PROVE QueueInv'
  OBVIOUS
<1> DEFINE head == Head(queue)
           n == 2 * Half
<1>1. /\ TypeOK /\ Ordered(queue) /\ Switches /\ Loop /\ Armed /\ Quiet
      /\ now \in Instants /\ mono /\ ~Late(Latency)
      /\ now' = (now + 1) % n
      /\ pended' = (pended \/ (counting /\ compare = now'))
      /\ queue' = queue /\ compare' = compare /\ counting' = counting
      /\ unmasked' = unmasked /\ pc' = pc /\ mono' = mono /\ disable' = disable
      /\ calls' = calls
  BY DEF QueueInv, Tick, TypeOK
<1>2. /\ now' \in Instants
      /\ \A i \in Instants : Left(i) > -Half => Left(i)' = Left(i) - 1
      /\ \A c \in Instants :
            (c - now) % n # 0 /\ c # now'
              => (c - now') % n = ((c - now) % n) - 1
      /\ \A c \in Instants : (c - now) % n = 1 => c = now'
  BY <1>1, TickIs
<1>3. \A i \in 1..Len(queue) : /\ queue[i].instant \in Instants
                               /\ Left(queue[i].instant) \in (-Latency)..Ahead
  <2>1. \A e \in NotReady : e.instant \in Instants
    BY DEF NotReady
  <2>2. \A i \in 1..Len(queue) : queue[i] \in NotReady
    BY <1>1 DEF Ordered
  <2>3. \A i \in 1..Len(queue) : Left(queue[i].instant) \in (-Latency)..Ahead
    BY <1>1 DEF Ordered, Near
  <2>4. QED BY <2>1, <2>2, <2>3
<1>4. \A i \in 1..Len(queue) : Left(queue[i].instant) > -Latency
  <2>1. CASE pc # "idle" \/ (pended /\ unmasked)
    <3>1. \A i \in DOMAIN queue : ~(Left(queue[i].instant) <= -Latency)
      BY <1>1, <2>1 DEF Late
    <3>2. DOMAIN queue = 1..Len(queue)
      BY <1>1 DEF Ordered
    <3>3. QED BY <1>3, <3>1, <3>2, ClockFacts
  <2>2. CASE pc = "idle" /\ ~(pended /\ unmasked) /\ queue # <<>>
    <3>1. WillInterrupt /\ ~pended
      BY <1>1, <2>2 DEF Armed, Switches
    <3>2. (compare - now) % n \in 1..Left(head.instant)
      BY <3>1 DEF WillInterrupt
    <3>3. Left(head.instant) >= 1
      <4>1. Left(head.instant) \in Int
        BY <1>1, <2>2, HeadIs
      <4> HIDE DEF head, n
      <4>2. QED BY <3>2, <4>1
    <3>4. \A i \in 1..Len(queue) : Left(head.instant) <= Left(queue[i].instant)
      BY <1>1, <2>2, HeadIs
    <3>5. Left(head.instant) \in Int
      BY <1>1, <2>2, HeadIs
    <3> HIDE DEF head
    <3>6. QED BY <1>3, <3>3, <3>4, <3>5, ClockFacts
  <2>3. CASE queue = <<>>
    BY <2>3
  <2>4. QED BY <2>1, <2>2, <2>3
<1>5. \A i \in 1..Len(queue) :
         /\ Left(queue[i].instant)' = Left(queue[i].instant) - 1
         /\ Left(queue[i].instant) \in Int
  <2>1. ASSUME NEW i \in 1..Len(queue)
        PROVE  /\ Left(queue[i].instant)' = Left(queue[i].instant) - 1
               /\ Left(queue[i].instant) \in Int
    <3>1. queue[i].instant \in Instants /\ Left(queue[i].instant) > -Half
      BY <1>3, ClockFacts
    <3>2. Left(queue[i].instant) \in Int
      BY <1>3, ClockFacts
    <3>3. (Left(queue[i].instant))' = Left(queue[i].instant) - 1
      BY <1>1, <1>2, <3>1 DEF Left
    <3>4. QED BY <3>2, <3>3
  <2>2. QED BY <2>1
<1>6. Ordered(queue)'
  <2>1. \A i \in 1..Len(queue) : Near(queue[i])'
    <3>1. ASSUME NEW i \in 1..Len(queue)
          PROVE  Left(queue[i].instant)' \in (-Latency)..Ahead
      <4> DEFINE before == Left(queue[i].instant)
                 after == Left(queue[i].instant)'
      <4>1. /\ before \in (-Latency)..Ahead /\ before > -Latency
            /\ after = before - 1
        BY <1>3, <1>4, <1>5
      <4> HIDE DEF before, after
      <4>2. after \in (-Latency)..Ahead
        BY <4>1, ClockFacts
      <4>3. QED BY <4>2 DEF after
    <3>2. QED BY <3>1 DEF Near
  <2>2. ASSUME NEW i \in 1..Len(queue), NEW j \in 1..Len(queue), i < j
        PROVE  Left(queue[i].instant)' <= Left(queue[j].instant)'
    <3>1. Left(queue[i].instant) <= Left(queue[j].instant)
      BY <1>1, <2>2 DEF Ordered
    <3>2. QED BY <1>5, <3>1
  <2>3. queue' \in Seq(NotReady)
    BY <1>1 DEF Ordered
  <2>4. QED BY <1>1, <2>1, <2>2, <2>3 DEF Ordered
<1>7. Armed'
  <2>1. SUFFICES ASSUME queue # <<>>, pc \in {"idle", "return"}, ~pended'
                 PROVE  WillInterrupt'
    BY <1>1 DEF Armed, WillInterrupt, Switches
  <2>2. /\ unmasked /\ counting /\ compare # None /\ compare # now'
        /\ (compare - now) % n \in 1..Left(head.instant)
    BY <1>1, <2>1 DEF Armed, WillInterrupt
  <2>3. compare \in Instants
    BY <1>1, <2>2 DEF TypeOK
  <2>4. /\ head = queue[1] /\ 1 \in 1..Len(queue)
        /\ Left(head.instant)' = Left(head.instant) - 1 /\ Left(head.instant) \in Int
    BY <1>1, <1>5, <2>1, HeadIs
  <2> DEFINE d == (compare - now) % n
             e == (compare - now') % n
             before == Left(head.instant)
             after == Left(head.instant)'
  <2>5. /\ d \in 1..before /\ before \in Int /\ after = before - 1
        /\ d # 1 /\ (d # 0 => e = d - 1)
    BY <1>2, <2>2, <2>3, <2>4
  <2> HIDE DEF d, e, before, after
  <2>6. e \in 1..after
    BY <2>5
  <2>7. (compare' - now') % n \in 1..Left(head.instant)'
    BY <1>1, <2>6 DEF e, after
  <2>8. unmasked' /\ counting' /\ compare' # None
    BY <1>1, <2>2
  <2>9. QED BY <2>7, <2>8 DEF WillInterrupt
<1>8. TypeOK' /\ Switches' /\ Loop' /\ Quiet'
  <2>1. pended' \in BOOLEAN
    BY <1>1
  <2>2. TypeOK'
    BY <1>1, <1>2, <2>1 DEF TypeOK
  <2>3. QED BY <1>1, <2>2 DEF Switches, Loop, Quiet
<1>9. QED BY <1>6, <1>7, <1>8 DEF QueueInv

(* spawn_at: an entry that comes to the front pends the handler, and one   *)
(* that does not leaves the first deadline as it was.                      *)
LEMMA EnqueueKeeps ==
    ASSUME QueueInv, NEW nr \in NotReady, Left(nr.instant) \in (-Past)..Ahead,
           enqueue_unchecked(nr)
    PROVE  QueueInv'
<1> DEFINE r == PlaceBy(Earlier, queue, nr)
<1>1. /\ TypeOK /\ Ordered(queue) /\ Switches /\ Loop /\ Armed /\ Quiet
      /\ now \in Instants /\ queue \in Seq(NotReady)
      /\ calls < MaxCalls /\ calls' = calls + 1
      /\ pc \in {"idle", "dequeue", "return"} /\ Len(queue) < Capacity
      /\ queue' = r /\ disable' = disable /\ mono' = mono /\ now' = now
      /\ compare' = compare /\ pc' = pc
  BY DEF QueueInv, TypeOK, enqueue_unchecked, Call
<1>2. IF queue = <<>> \/ Earlier(nr.instant, Head(queue).instant)
      THEN /\ pended' = TRUE
           /\ IF disable /\ queue = <<>>
              THEN unmasked' = TRUE /\ counting' = (counting \/ mono)
              ELSE unmasked' = unmasked /\ counting' = counting
      ELSE pended' = pended /\ unmasked' = unmasked /\ counting' = counting
  BY DEF enqueue_unchecked
<1>3. Near(nr)
  BY ClockFacts DEF Near
<1>4. /\ Ordered(r) /\ Len(r) = Len(queue) + 1 /\ r # <<>>
      /\ queue # <<>> /\ ~Earlier(nr.instant, Head(queue).instant)
           => Left(Head(r).instant) = Left(Head(queue).instant)
  BY <1>1, <1>3, PlaceKeepsOrder
<1> HIDE DEF r
<1>5. Ordered(queue)'
  BY <1>1, <1>4 DEF Ordered, Near, Left
<1>6. unmasked' /\ (mono => counting') /\ pended' \in BOOLEAN /\ counting' \in BOOLEAN
      /\ (pended => pended')
  BY <1>1, <1>2 DEF TypeOK, Switches
<1>7. TypeOK'
  <2>1. r \in Seq(NotReady) /\ Len(r) <= Capacity
    BY <1>1, <1>4, TimerAssumption DEF Ordered
  <2>2. calls' \in 0..MaxCalls
    BY <1>1, TimerAssumption DEF TypeOK
  <2>3. unmasked' \in BOOLEAN
    BY <1>1, <1>2 DEF TypeOK
  <2>4. QED BY <1>1, <1>6, <2>1, <2>2, <2>3 DEF TypeOK
<1>8. Switches' /\ Loop'
  BY <1>1, <1>6 DEF Switches, Loop
<1>9. CASE queue = <<>> \/ Earlier(nr.instant, Head(queue).instant)
  <2>1. pended'
    BY <1>2, <1>9
  <2>2. QED BY <1>5, <1>6, <1>7, <1>8, <2>1 DEF QueueInv, Armed, Quiet, WillInterrupt
<1>10. CASE queue # <<>> /\ ~Earlier(nr.instant, Head(queue).instant)
  <2>1. pended' = pended /\ unmasked' = unmasked /\ counting' = counting
    BY <1>2, <1>10
  <2>2. Armed'
    <3>1. SUFFICES ASSUME pc \in {"idle", "return"} PROVE WillInterrupt'
      BY <1>1 DEF Armed
    <3>2. WillInterrupt
      BY <1>1, <1>10, <3>1 DEF Armed
    <3>3. /\ Left(Head(queue).instant) \in Int
          /\ Left(Head(r).instant) = Left(Head(queue).instant)
      BY <1>1, <1>4, <1>10, HeadIs
    <3>4. /\ Left(Head(queue').instant) \in Int
          /\ Left(Head(queue).instant) <= Left(Head(queue').instant)
      BY <1>1, <3>3
    <3>5. QED BY <1>1, <1>6, <2>1, <3>2, <3>3, <3>4, StillInterrupts
  <2>3. Quiet'
    BY <1>1, <2>1 DEF Quiet
  <2>4. QED BY <1>5, <1>7, <1>8, <2>2, <2>3 DEF QueueInv
<1>11. QED BY <1>9, <1>10

(* cancel: what comes to the front has a later deadline, and the interrupt *)
(* that is on its way is in time for it.                                   *)
LEMMA CancelKeeps ==
    ASSUME QueueInv, NEW m \in Markers, cancel_marker(m)
    PROVE  QueueInv'
<1> DEFINE r == RemoveAt(queue, Position(queue, m))
<1>1. /\ TypeOK /\ Ordered(queue) /\ Switches /\ Loop /\ Armed /\ Quiet
      /\ now \in Instants /\ queue \in Seq(NotReady)
      /\ calls < MaxCalls /\ calls' = calls + 1
      /\ pc \in {"idle", "dequeue", "return"} /\ Position(queue, m) # 0
      /\ queue' = r /\ disable' = disable /\ mono' = mono /\ now' = now
      /\ compare' = compare /\ pc' = pc /\ counting' = counting
      /\ unmasked' = unmasked /\ pended' = pended
  BY DEF QueueInv, TypeOK, cancel_marker, Call
<1>2. Position(queue, m) \in 1..Len(queue)
  <2>1. Position(queue, m) \in 0..Len(queue) /\ Len(queue) \in Nat
    BY <1>1, PositionIs
  <2>2. QED BY <1>1, <2>1
<1>3. /\ Ordered(r) /\ Len(r) = Len(queue) - 1 /\ queue # <<>>
      /\ r # <<>> => Left(Head(queue).instant) <= Left(Head(r).instant)
  BY <1>1, <1>2, RemoveKeepsOrder
<1> HIDE DEF r
<1>4. Ordered(queue)'
  BY <1>1, <1>3 DEF Ordered, Near, Left
<1>5. TypeOK'
  <2>1. r \in Seq(NotReady) /\ Len(r) <= Capacity
    BY <1>1, <1>3, TimerAssumption DEF Ordered, TypeOK
  <2>2. calls' \in 0..MaxCalls
    BY <1>1, TimerAssumption DEF TypeOK
  <2>3. QED BY <1>1, <2>1, <2>2 DEF TypeOK
<1>6. Switches' /\ Loop' /\ Quiet'
  BY <1>1, <1>3 DEF Switches, Loop, Quiet
<1>7. Armed'
  <2>1. SUFFICES ASSUME r # <<>>, pc \in {"idle", "return"} PROVE WillInterrupt'
    BY <1>1 DEF Armed
  <2>2. WillInterrupt /\ unmasked
    BY <1>1, <1>3, <2>1 DEF Armed, Switches
  <2>3. Left(Head(queue).instant) \in Int /\ Left(Head(r).instant) \in Int
    BY <1>1, <1>3, <2>1, HeadIs
  <2>4. /\ Left(Head(queue').instant) \in Int
        /\ Left(Head(queue).instant) <= Left(Head(queue').instant)
    BY <1>1, <1>3, <2>1, <2>3
  <2>5. QED BY <1>1, <2>2, <2>3, <2>4, StillInterrupts
<1>8. QED BY <1>4, <1>5, <1>6, <1>7 DEF QueueInv

(* reschedule_at always pends the handler. *)
LEMMA UpdateKeeps ==
    ASSUME QueueInv, NEW nr \in NotReady, Left(nr.instant) \in (-Past)..Ahead,
           NEW m \in Markers, update_marker(m, nr)
    PROVE  QueueInv'
<1> DEFINE q == RemoveAt(queue, Position(queue, m))
           r == PlaceBy(Earlier, q, nr)
<1>1. /\ TypeOK /\ Ordered(queue) /\ Switches /\ Loop /\ Armed /\ Quiet
      /\ now \in Instants /\ queue \in Seq(NotReady)
      /\ calls < MaxCalls /\ calls' = calls + 1
      /\ pc \in {"idle", "dequeue", "return"} /\ Position(queue, m) # 0
      /\ queue' = r /\ disable' = disable /\ mono' = mono /\ now' = now
      /\ compare' = compare /\ pc' = pc /\ counting' = counting
      /\ unmasked' = unmasked /\ pended' = TRUE
  BY DEF QueueInv, TypeOK, update_marker, Call
<1>2. Position(queue, m) \in 1..Len(queue)
  <2>1. Position(queue, m) \in 0..Len(queue) /\ Len(queue) \in Nat
    BY <1>1, PositionIs
  <2>2. QED BY <1>1, <2>1
<1>3. Ordered(q) /\ Len(q) = Len(queue) - 1 /\ queue # <<>>
  BY <1>1, <1>2, RemoveKeepsOrder
<1>4. Near(nr)
  BY ClockFacts DEF Near
<1> HIDE DEF q
<1>5. Ordered(r) /\ Len(r) = Len(q) + 1 /\ r # <<>>
  BY <1>1, <1>3, <1>4, PlaceKeepsOrder
<1> HIDE DEF r
<1>6. Ordered(queue)'
  BY <1>1, <1>5 DEF Ordered, Near, Left
<1>7. TypeOK'
  <2>1. r \in Seq(NotReady) /\ Len(r) <= Capacity
    BY <1>1, <1>3, <1>5, TimerAssumption DEF Ordered, TypeOK
  <2>2. calls' \in 0..MaxCalls
    BY <1>1, TimerAssumption DEF TypeOK
  <2>3. QED BY <1>1, <2>1, <2>2 DEF TypeOK
<1>8. unmasked'
  BY <1>1, <1>3 DEF Switches
<1>9. Switches' /\ Loop' /\ Quiet' /\ Armed'
  BY <1>1, <1>3, <1>8 DEF Switches, Loop, Quiet, Armed, WillInterrupt
<1>10. QED BY <1>6, <1>7, <1>9 DEF QueueInv

(* The handler.  Only its last step depends on what it has armed: either   *)
(* the first entry is still in the future, and the compare value is its    *)
(* instant, or the second reading of the clock finds it due.               *)
LEMMA HandlerKeeps == QueueInv /\ Handler => QueueInv'
<1> SUFFICES ASSUME QueueInv, Handler PROVE QueueInv'
  OBVIOUS
<1>1. /\ TypeOK /\ Ordered(queue) /\ Switches /\ Loop /\ Armed /\ Quiet
      /\ now \in Instants /\ queue \in Seq(NotReady)
  BY DEF QueueInv, TypeOK
<1>2. CASE HandlerStart
  BY <1>1, <1>2 DEF HandlerStart, QueueInv, TypeOK, Ordered, Near, Left, Switches, Loop,
                    Armed, Quiet
<1>3. CASE DequeueEmpty
  <2>1. /\ queue = <<>> /\ queue' = queue /\ now' = now /\ pc' = "return"
        /\ disable' = disable /\ mono' = mono /\ compare' = compare
        /\ pended' = pended /\ calls' = calls /\ pc = "dequeue"
        /\ disable => ~unmasked' /\ ~counting'
        /\ ~disable => unmasked' = unmasked /\ counting' = counting
        /\ unmasked' \in BOOLEAN /\ counting' \in BOOLEAN
    BY <1>1, <1>3 DEF DequeueEmpty, TypeOK
  <2>2. TypeOK'
    BY <1>1, <2>1 DEF TypeOK
  <2>3. Ordered(queue)'
    BY <1>1, <2>1 DEF Ordered
  <2>4. Switches' /\ Loop' /\ Armed' /\ Quiet'
    BY <1>1, <2>1 DEF Switches, Loop, Armed, Quiet
  <2>5. QED BY <2>2, <2>3, <2>4 DEF QueueInv
<1>4. CASE DequeueDue
  <2>1. /\ queue # <<>> /\ queue' = Tail(queue) /\ now' = now /\ pc' = "dequeue"
        /\ disable' = disable /\ mono' = mono /\ compare' = compare
        /\ pended' = pended /\ calls' = calls /\ unmasked' = unmasked
        /\ counting' = counting /\ pc \in {"dequeue", "recheck"}
    BY <1>4 DEF DequeueDue
  <2>2. Ordered(Tail(queue)) /\ Len(Tail(queue)) = Len(queue) - 1
    BY <1>1, <2>1, TailKeepsOrder
  <2>3. Ordered(queue)'
    BY <2>1, <2>2 DEF Ordered, Near, Left
  <2>4. TypeOK'
    <3>1. Tail(queue) \in Seq(NotReady) /\ Len(Tail(queue)) <= Capacity
      BY <1>1, <2>2, TimerAssumption DEF Ordered, TypeOK
    <3>2. QED BY <1>1, <2>1, <3>1 DEF TypeOK
  <2>5. Switches' /\ Loop' /\ Armed' /\ Quiet'
    BY <1>1, <2>1 DEF Switches, Loop, Armed, Quiet
  <2>6. QED BY <2>3, <2>4, <2>5 DEF QueueInv
<1>5. CASE DequeueNotDue
  BY <1>1, <1>5 DEF DequeueNotDue, QueueInv, TypeOK, Ordered, Near, Left, Switches, Loop,
                    Armed, Quiet
<1>6. CASE SetCompare
  <2>1. /\ queue # <<>> /\ queue' = queue /\ now' = now /\ pc' = "recheck"
        /\ disable' = disable /\ mono' = mono /\ compare' = Head(queue).instant
        /\ pended' = pended /\ calls' = calls /\ unmasked' = unmasked
        /\ counting' = counting /\ pc = "arm" /\ mono
    BY <1>1, <1>6 DEF SetCompare, Loop, Switches
  <2>2. Head(queue).instant \in Instants
    BY <1>1, <2>1, HeadIs
  <2>3. TypeOK'
    BY <1>1, <2>1, <2>2 DEF TypeOK
  <2>4. Ordered(queue)'
    BY <1>1, <2>1 DEF Ordered, Near, Left
  <2>5. Switches' /\ Loop' /\ Armed' /\ Quiet'
    BY <1>1, <2>1 DEF Switches, Loop, Armed, Quiet
  <2>6. QED BY <2>3, <2>4, <2>5 DEF QueueInv
<1>7. CASE Rechecked
  <2> DEFINE head == Head(queue)
  <2>1. /\ queue # <<>> /\ queue' = queue /\ now' = now /\ pc' = "return"
        /\ disable' = disable /\ mono' = mono /\ compare' = compare
        /\ pended' = pended /\ calls' = calls /\ unmasked' = unmasked
        /\ counting' = counting /\ pc = "recheck" /\ mono
        /\ compare = head.instant /\ Earlier(now, head.instant)
    BY <1>1, <1>7 DEF Rechecked, Due, Loop, Switches
  <2>2. head.instant \in Instants /\ Left(head.instant) \in Int
    BY <1>1, <2>1, HeadIs
  <2>3. /\ Left(head.instant) >= 1
        /\ (head.instant - now) % (2 * Half) = Left(head.instant)
    BY <1>1, <2>1, <2>2, FutureIs
  <2>4. (compare - now) % (2 * Half) \in 1..Left(head.instant)
    <3> DEFINE L == Left(head.instant)
               d == (compare - now) % (2 * Half)
    <3>1. d = L /\ L >= 1 /\ L \in Int
      BY <2>1, <2>2, <2>3
    <3> HIDE DEF L, d
    <3>2. d \in 1..L
      BY <3>1
    <3>3. QED BY <3>2 DEF L, d
  <2>5. compare # None /\ unmasked /\ counting
    BY <1>1, <2>1, <2>2, ClockFacts DEF Switches
  <2>6. WillInterrupt'
    BY <2>1, <2>4, <2>5 DEF WillInterrupt, Left
  <2>7. TypeOK'
    BY <1>1, <2>1 DEF TypeOK
  <2>8. Ordered(queue)'
    BY <1>1, <2>1 DEF Ordered, Near, Left
  <2>9. Switches' /\ Loop' /\ Armed' /\ Quiet'
    BY <1>1, <2>1, <2>5, <2>6 DEF Switches, Loop, Armed, Quiet
  <2>10. QED BY <2>7, <2>8, <2>9 DEF QueueInv
<1>8. CASE HandlerReturn
  <2>1. /\ queue' = queue /\ now' = now /\ pc' = "idle" /\ pc = "return"
        /\ disable' = disable /\ mono' = mono /\ compare' = compare
        /\ pended' = pended /\ calls' = calls /\ unmasked' = unmasked
        /\ counting' = counting
    BY <1>8 DEF HandlerReturn
  <2>2. TypeOK'
    BY <1>1, <2>1 DEF TypeOK
  <2>3. Ordered(queue)'
    BY <1>1, <2>1 DEF Ordered, Near, Left
  <2>4. WillInterrupt' = WillInterrupt
    BY <2>1 DEF WillInterrupt, Left
  <2>5. Switches' /\ Loop' /\ Armed' /\ Quiet'
    BY <1>1, <2>1, <2>4 DEF Switches, Loop, Armed, Quiet
  <2>6. QED BY <2>2, <2>3, <2>5 DEF QueueInv
<1>9. QED BY <1>2, <1>3, <1>4, <1>5, <1>6, <1>7, <1>8 DEF Handler

LEMMA NextQueue == QueueInv /\ [Next]_vars => QueueInv'
<1> SUFFICES ASSUME QueueInv, [Next]_vars PROVE QueueInv'
  OBVIOUS
<1>1. CASE UNCHANGED vars
  BY <1>1 DEF vars, QueueInv, TypeOK, Ordered, Near, Left, Switches, Loop, Armed,
              WillInterrupt, Quiet
<1>2. CASE post_init
  <2>1. /\ ~mono /\ mono' /\ counting' /\ mono' \in BOOLEAN /\ counting' \in BOOLEAN
        /\ queue' = queue /\ now' = now /\ pc' = pc
        /\ disable' = disable /\ compare' = compare
        /\ pended' = pended /\ calls' = calls /\ unmasked' = unmasked
    BY <1>2 DEF post_init
  <2>2. TypeOK'
    BY <2>1 DEF QueueInv, TypeOK
  <2>3. Ordered(queue)'
    BY <2>1 DEF QueueInv, Ordered, Near, Left
  <2>4. Switches' /\ Loop' /\ Quiet'
    BY <2>1 DEF QueueInv, Switches, Loop, Quiet
  <2>5. Armed'
    BY <2>1 DEF QueueInv, Armed, Switches, WillInterrupt
  <2>6. QED BY <2>2, <2>3, <2>4, <2>5 DEF QueueInv
<1>3. ASSUME NEW nr \in NotReady, Left(nr.instant) \in (-Past)..Ahead,
             enqueue_unchecked(nr) \/ \E m \in Markers : update_marker(m, nr)
      PROVE  QueueInv'
  BY <1>3, EnqueueKeeps, UpdateKeeps
<1>4. ASSUME NEW m \in Markers, cancel_marker(m) PROVE QueueInv'
  BY <1>4, CancelKeeps
<1>5. QED BY <1>1, <1>2, <1>3, <1>4, TickKeeps, HandlerKeeps DEF Next

(* The invariant holds in every state: order, nearness, switches, arming. *)
THEOREM Invariance == Spec => []QueueInv
BY InitQueue, NextQueue, PTL DEF Spec

-----------------------------------------------------------------------------
(* The queue keeps its type and never holds more entries than it has nodes. *)
THEOREM TypeCorrectness == Spec => []TypeOK
<1>1. QueueInv => TypeOK
  BY DEF QueueInv
<1>2. QED BY <1>1, Invariance, PTL

(* No entry is forgotten: outside its loop the handler is on its way, or   *)
(* the timer will raise it in time for the first deadline.                 *)
THEOREM EntriesAreArmedHolds == Spec => []EntriesAreArmed
BY Invariance, QueueInvSuffices, PTL

(* The interrupt of a queue that has run empty is switched off, if the     *)
(* monotonic asks for it, or about to come once more to be switched off.   *)
THEOREM SilentWhenEmptyHolds == Spec => []SilentWhenEmpty
BY Invariance, QueueInvSuffices, PTL

(* What the handler releases is due and has the earliest deadline, also    *)
(* while the clock wraps around between the deadlines.                     *)
THEOREM ReleasedInOrderHolds == Spec => ReleasedInOrder
<1>1. QueueInv /\ [Next]_vars
        => [Release => /\ Left(Head(queue).instant) <= 0
                       /\ \A e \in Range(queue') :
                             Left(Head(queue).instant) <= Left(e.instant)]_vars
  <2> SUFFICES ASSUME QueueInv, Next, Release
               PROVE  /\ Left(Head(queue).instant) <= 0
                      /\ \A e \in Range(queue') :
                            Left(Head(queue).instant) <= Left(e.instant)
    OBVIOUS
  <2>1. DequeueDue
    <3>1. calls' = calls /\ queue' # queue /\ calls \in Int
      BY TimerAssumption DEF Release, QueueInv, TypeOK
    <3>2. calls' # calls + 1
      BY <3>1
    <3>3. QED
      BY <3>1, <3>2 DEF Next, Tick, post_init, enqueue_unchecked, update_marker,
                        cancel_marker, Call, Handler, HandlerStart, DequeueEmpty,
                        DequeueNotDue, SetCompare, Rechecked, HandlerReturn
  <2>2. /\ queue # <<>> /\ queue' = Tail(queue) /\ ~Earlier(now, Head(queue).instant)
        /\ Ordered(queue) /\ now \in Instants
    BY <2>1 DEF DequeueDue, Due, QueueInv, TypeOK
  <2>3. Head(queue).instant \in Instants /\ Left(Head(queue).instant) \in Int
    BY <2>2, HeadIs
  <2>4. Left(Head(queue).instant) <= 0
    BY <2>2, <2>3, FutureIs
  <2>5. QED BY <2>2, <2>4, TailKeepsOrder
<1>2. QED BY <1>1, Invariance, PTL DEF Spec, ReleasedInOrder
=============================================================================
