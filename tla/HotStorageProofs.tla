--------------------------- MODULE HotStorageProofs ---------------------------
(***************************************************************************)
(* Proofs about HotStorage, for any series, points, limits and ages.       *)
(***************************************************************************)
EXTENDS HotStorage, FiniteSetTheorems, SequenceTheorems, TLAPS

(***************************************************************************)
(* What sort.Search returns on a series in timestamp order.                *)
(***************************************************************************)

\* Positions that are closed downwards are the first so many.
LEMMA InitialSegment ==
    ASSUME NEW n \in Nat, NEW D \in SUBSET (1 .. n),
           \A i \in D : \A j \in 1 .. i : j \in D
    PROVE  Cardinality(D) \in 0 .. n /\ D = 1 .. Cardinality(D)
<1>1. IsFiniteSet(D) /\ Cardinality(D) \in Nat /\ Cardinality(D) <= n
  <2>1. IsFiniteSet(1 .. n) /\ Cardinality(1 .. n) = n
    BY FS_Interval
  <2>2. IsFiniteSet(D) /\ Cardinality(D) <= n
    BY <2>1, FS_Subset, ZenonT(60)
  <2> QED
    BY <2>2, FS_CardinalityType
<1>2. ASSUME NEW i \in D PROVE i <= Cardinality(D)
  <2>1. 1 .. i \subseteq D
    OBVIOUS
  <2>2. Cardinality(1 .. i) = i
    BY FS_Interval
  <2> QED
    BY <1>1, <2>1, <2>2, FS_Subset
<1>3. D \subseteq 1 .. Cardinality(D)
  BY <1>1, <1>2
<1>4. IsFiniteSet(1 .. Cardinality(D)) /\ Cardinality(1 .. Cardinality(D)) = Cardinality(D)
  BY <1>1, FS_Interval
<1>5. 1 .. Cardinality(D) = D
  BY <1>3, <1>4, FS_Subset
<1> QED
  BY <1>1, <1>5

\* The first search of AddPoint: a position exists and splits the series.
LEMMA NotAfterSplits ==
    ASSUME NEW s \in Seq(Points), Chronological(s), NEW t \in Int
    PROVE  /\ NotAfter(s, t) \in 0 .. Len(s)
           /\ \A i \in 1 .. NotAfter(s, t) : s[i].ts <= t
           /\ \A i \in NotAfter(s, t) + 1 .. Len(s) : s[i].ts > t
<1> DEFINE D == {i \in 1 .. Len(s) : s[i].ts <= t}
           n == Cardinality(D)
<1>1. Len(s) \in Nat /\ DOMAIN s = 1 .. Len(s) /\ \A i \in 1 .. Len(s) : s[i].ts \in Int
  <2>1. \A p \in Points : p.ts \in Int
    BY DEF Points, Times
  <2> QED
    BY <2>1
<1>2. t \in Int
  OBVIOUS
<1>3. \A i \in D : \A j \in 1 .. i : j \in D
  BY <1>1, <1>2 DEF Chronological
<1>4. n \in 0 .. Len(s) /\ D = 1 .. n
  BY <1>1, <1>3, InitialSegment
<1> HIDE DEF n
<1>5. \E m \in 0 .. Len(s) : /\ \A i \in 1 .. m : s[i].ts <= t
                             /\ m < Len(s) => s[m + 1].ts > t
  <2>1. \A i \in 1 .. n : s[i].ts <= t
    BY <1>4
  <2>2. n < Len(s) => s[n + 1].ts > t
    BY <1>1, <1>2, <1>4
  <2> QED
    BY <1>4, <2>1, <2>2
<1> DEFINE m == NotAfter(s, t)
<1>6. /\ m \in 0 .. Len(s)
      /\ \A i \in 1 .. m : s[i].ts <= t
      /\ m < Len(s) => s[m + 1].ts > t
  BY <1>5 DEF NotAfter
<1> HIDE DEF m
<1>7. ASSUME NEW i \in m + 1 .. Len(s) PROVE s[i].ts > t
  <2>1. m + 1 \in DOMAIN s /\ i \in DOMAIN s /\ s[m + 1].ts > t
    BY <1>1, <1>6
  <2>2. CASE i = m + 1
    BY <2>1, <2>2
  <2>3. CASE m + 1 < i
    BY <1>1, <1>2, <2>1, <2>3 DEF Chronological
  <2> QED
    BY <1>1, <1>6, <2>2, <2>3
<1> QED
  BY <1>6, <1>7 DEF m

\* The search for the start of a range.
LEMMA BeforeSplits ==
    ASSUME NEW s \in Seq(Points), Chronological(s), NEW t \in Int
    PROVE  /\ Before(s, t) \in 0 .. Len(s)
           /\ \A i \in 1 .. Before(s, t) : s[i].ts < t
           /\ \A i \in Before(s, t) + 1 .. Len(s) : s[i].ts >= t
<1> DEFINE D == {i \in 1 .. Len(s) : s[i].ts < t}
           n == Cardinality(D)
<1>1. Len(s) \in Nat /\ DOMAIN s = 1 .. Len(s) /\ \A i \in 1 .. Len(s) : s[i].ts \in Int
  <2>1. \A p \in Points : p.ts \in Int
    BY DEF Points, Times
  <2> QED
    BY <2>1
<1>2. t \in Int
  OBVIOUS
<1>3. \A i \in D : \A j \in 1 .. i : j \in D
  BY <1>1, <1>2 DEF Chronological
<1>4. n \in 0 .. Len(s) /\ D = 1 .. n
  BY <1>1, <1>3, InitialSegment
<1> HIDE DEF n
<1>5. \E m \in 0 .. Len(s) : /\ \A i \in 1 .. m : s[i].ts < t
                             /\ m < Len(s) => s[m + 1].ts >= t
  <2>1. \A i \in 1 .. n : s[i].ts < t
    BY <1>4
  <2>2. n < Len(s) => s[n + 1].ts >= t
    BY <1>1, <1>2, <1>4
  <2> QED
    BY <1>4, <2>1, <2>2
<1> DEFINE m == Before(s, t)
<1>6. /\ m \in 0 .. Len(s)
      /\ \A i \in 1 .. m : s[i].ts < t
      /\ m < Len(s) => s[m + 1].ts >= t
  BY <1>5 DEF Before
<1> HIDE DEF m
<1>7. ASSUME NEW i \in m + 1 .. Len(s) PROVE s[i].ts >= t
  <2>1. m + 1 \in DOMAIN s /\ i \in DOMAIN s /\ s[m + 1].ts >= t
    BY <1>1, <1>6
  <2>2. CASE i = m + 1
    BY <2>1, <2>2
  <2>3. CASE m + 1 < i
    BY <1>1, <1>2, <2>1, <2>3 DEF Chronological
  <2> QED
    BY <1>1, <1>6, <2>2, <2>3
<1> QED
  BY <1>6, <1>7 DEF m

\* Series.GetRange of a series in timestamp order.
LEMMA RangeOfSeries ==
    ASSUME NEW s \in Seq(Points), Chronological(s), NEW start \in Int, NEW end \in Int
    PROVE  LET r == GetRange(s, start, end)
           IN  Chronological(r) /\ ToSet(r) = {p \in ToSet(s) : start <= p.ts /\ p.ts <= end}
<1> DEFINE r == GetRange(s, start, end)
           b == Before(s, start)
           n == NotAfter(s, end)
           l == Len(s)
           m == Len(r)
<1>1. l \in Nat /\ DOMAIN s = 1 .. l /\ \A i \in 1 .. l : s[i] \in Points
  OBVIOUS
<1>2. start \in Int /\ end \in Int /\ \A p \in Points : p.ts \in Int
  BY DEF Points, Times
<1>3. b \in 0 .. l /\ (\A i \in 1 .. b : s[i].ts < start) /\ \A i \in b + 1 .. l : s[i].ts >= start
  BY BeforeSplits
<1>4. n \in 0 .. l /\ (\A i \in 1 .. n : s[i].ts <= end) /\ \A i \in n + 1 .. l : s[i].ts > end
  BY NotAfterSplits
<1>5. r = SubSeq(s, b + 1, n)
  BY DEF GetRange
<1>6. \A i, j \in 1 .. l : i < j => s[i].ts < s[j].ts
  BY <1>1 DEF Chronological
<1> HIDE DEF r, b, n, l
<1>7. /\ r \in Seq(Points)
      /\ Len(r) = IF b + 1 <= n THEN n - (b + 1) + 1 ELSE 0
      /\ \A i \in 1 .. n - (b + 1) + 1 : r[i] = s[b + 1 + i - 1]
  <2>1. b + 1 \in Int /\ n \in Int /\ \A i \in b + 1 .. n : s[i] \in Points
    BY <1>1, <1>3, <1>4
  <2> QED
    BY <1>5, <2>1, SubSeqProperties
<1>8. m \in Nat /\ DOMAIN r = 1 .. m /\ m = IF b + 1 <= n THEN n - b ELSE 0
  BY <1>3, <1>4, <1>7
<1> HIDE DEF m
<1>9. ASSUME NEW i \in 1 .. m PROVE r[i] = s[b + i] /\ b + i \in b + 1 .. n /\ b + i \in 1 .. l
  <2>1. i \in 1 .. n - (b + 1) + 1 /\ b + 1 + i - 1 = b + i /\ b + i \in b + 1 .. n /\ b + i \in 1 .. l
    BY <1>1, <1>3, <1>4, <1>8
  <2> QED
    BY <1>7, <2>1
<1>10. Chronological(r)
  <2> SUFFICES ASSUME NEW i \in 1 .. m, NEW j \in 1 .. m, i < j PROVE r[i].ts < r[j].ts
    BY <1>8 DEF Chronological
  <2>1. b + i < b + j
    BY <1>3, <1>8
  <2> QED
    BY <1>6, <1>9, <2>1
<1>11. ASSUME NEW i \in 1 .. m
       PROVE  r[i] \in ToSet(s) /\ start <= r[i].ts /\ r[i].ts <= end
  <2>1. b + i \in b + 1 .. l /\ b + i \in 1 .. n
    BY <1>1, <1>3, <1>4, <1>8, <1>9
  <2> QED
    BY <1>1, <1>2, <1>3, <1>4, <1>9, <2>1 DEF ToSet
<1>12. ASSUME NEW p \in ToSet(s), start <= p.ts, p.ts <= end
       PROVE  p \in ToSet(r)
  <2>1. PICK i \in 1 .. l : p = s[i]
    BY <1>1 DEF ToSet
  <2>2. i > b /\ i <= n
    <3>1. ~(p.ts < start) /\ ~(p.ts > end)
      BY <1>1, <1>2, <1>12, <2>1
    <3> QED
      BY <1>1, <1>3, <1>4, <2>1, <3>1
  <2>3. i - b \in 1 .. m /\ b + (i - b) = i
    BY <1>1, <1>3, <1>4, <1>8, <2>2
  <2>4. r[i - b] = s[i]
    BY <1>9, <2>3
  <2> QED
    BY <1>8, <2>1, <2>3, <2>4 DEF ToSet
<1>13. ToSet(r) = {p \in ToSet(s) : start <= p.ts /\ p.ts <= end}
  BY <1>8, <1>11, <1>12 DEF ToSet
<1> QED
  BY <1>10, <1>13 DEF r

(***************************************************************************)
(* What Series.AddPoint makes of a series in timestamp order.              *)
(***************************************************************************)
LEMMA InsertAtElements ==
    ASSUME NEW S, NEW s \in Seq(S), NEW k \in 1 .. Len(s) + 1, NEW e \in S
    PROVE  /\ InsertAt(s, k, e) \in Seq(S)
           /\ Len(InsertAt(s, k, e)) = Len(s) + 1
           /\ \A i \in 1 .. k - 1 : InsertAt(s, k, e)[i] = s[i]
           /\ InsertAt(s, k, e)[k] = e
           /\ \A i \in k + 1 .. Len(s) + 1 : InsertAt(s, k, e)[i] = s[i - 1]
<1> DEFINE a == SubSeq(s, 1, k - 1)
           b == SubSeq(s, k, Len(s))
           c == a \o <<e>>
           r == c \o b
<1>1. r = InsertAt(s, k, e)
  BY DEF InsertAt
<1>2. /\ a \in Seq(S) /\ Len(a) = k - 1 /\ \A i \in 1 .. k - 1 : a[i] = s[i]
      /\ b \in Seq(S) /\ Len(b) = Len(s) - k + 1
      /\ \A i \in 1 .. Len(s) - k + 1 : b[i] = s[k + i - 1]
  OBVIOUS
<1> HIDE DEF a, b
<1>3. c \in Seq(S) /\ Len(c) = k /\ c[k] = e /\ \A i \in 1 .. k - 1 : c[i] = a[i]
  BY <1>2, SMTT(30)
<1> HIDE DEF c
<1>4. /\ r \in Seq(S) /\ Len(r) = Len(c) + Len(b)
      /\ \A i \in 1 .. Len(c) + Len(b) : r[i] = IF i <= Len(c) THEN c[i] ELSE b[i - Len(c)]
  BY <1>2, <1>3, ConcatProperties
<1> HIDE DEF r
<1>5. Len(r) = Len(s) + 1 /\ r[k] = e /\ \A i \in 1 .. k - 1 : r[i] = s[i]
  BY <1>2, <1>3, <1>4
<1>6. ASSUME NEW i \in k + 1 .. Len(s) + 1 PROVE r[i] = s[i - 1]
  <2>1. r[i] = b[i - k]
    BY <1>2, <1>3, <1>4
  <2>2. i - k \in 1 .. Len(s) - k + 1 /\ k + (i - k) - 1 = i - 1
    OBVIOUS
  <2> QED
    BY <1>2, <2>1, <2>2
<1> QED
  BY <1>1, <1>4, <1>5, <1>6

\* Series.AddPoint keeps strict timestamp order, holds the point it was given,
\* changes nothing else, and cannot move the newest timestamp backwards.
LEMMA InsertedKeepsOrder ==
    ASSUME NEW s \in Seq(Points), Chronological(s), NEW p \in Points
    PROVE  LET r == Inserted(s, p)
           IN  /\ r \in Seq(Points) /\ Chronological(r)
               /\ Len(r) = IF IsDuplicate(s, p.ts) THEN Len(s) ELSE Len(s) + 1
               /\ \A i \in DOMAIN r :
                     \/ r[i] = p
                     \/ r[i].ts # p.ts /\ \E j \in DOMAIN s : r[i] = s[j]
               /\ r # <<>> /\ p.ts <= r[Len(r)].ts
               /\ s # <<>> => s[Len(s)].ts <= r[Len(r)].ts
<1> DEFINE n == NotAfter(s, p.ts)
           r == Inserted(s, p)
<1>1. /\ Len(s) \in Nat /\ DOMAIN s = 1 .. Len(s)
      /\ \A i \in 1 .. Len(s) : s[i] \in Points
  OBVIOUS
<1>2. p.ts \in Times /\ \A q \in Points : q.ts \in Int
  BY DEF Points, Times
<1>3. /\ n \in 0 .. Len(s)
      /\ \A i \in 1 .. n : s[i].ts <= p.ts
      /\ \A i \in n + 1 .. Len(s) : s[i].ts > p.ts
  BY <1>2, NotAfterSplits
<1>4. \A i, j \in 1 .. Len(s) : i < j => s[i].ts < s[j].ts
  BY <1>1 DEF Chronological
<1>5. CASE IsDuplicate(s, p.ts)
  <2>1. n > 0 /\ s[n].ts = p.ts /\ r = [s EXCEPT ![n] = p]
    BY <1>5 DEF IsDuplicate, Inserted
  <2> HIDE DEF n, r
  <2>2. /\ r \in Seq(Points) /\ Len(r) = Len(s) /\ DOMAIN r = 1 .. Len(s)
        /\ r[n] = p /\ \A i \in 1 .. Len(s) : i # n => r[i] = s[i]
    BY <1>1, <1>3, <2>1
  <2>3. \A i \in 1 .. Len(s) : r[i].ts = s[i].ts
    BY <2>1, <2>2
  <2>4. Chronological(r)
    BY <1>4, <2>2, <2>3 DEF Chronological
  <2>5. ASSUME NEW i \in 1 .. Len(s), i # n PROVE r[i].ts # p.ts
    BY <1>1, <1>2, <1>3, <1>4, <2>1, <2>3, <2>5
  <2>6. \A i \in DOMAIN r : r[i] = p \/ (r[i].ts # p.ts /\ \E j \in DOMAIN s : r[i] = s[j])
    BY <1>1, <2>2, <2>5
  <2>7. Len(s) \in 1 .. Len(s) /\ p.ts <= s[Len(s)].ts
    BY <1>1, <1>2, <1>3, <1>4, <2>1
  <2> QED
    BY <1>1, <1>2, <1>5, <2>2, <2>3, <2>4, <2>6, <2>7 DEF r
<1>6. CASE ~IsDuplicate(s, p.ts)
  <2>1. r = InsertAt(s, n + 1, p) /\ ~(n > 0 /\ s[n].ts = p.ts)
    BY <1>6 DEF IsDuplicate, Inserted
  <2> HIDE DEF n, r
  <2>2. /\ r \in Seq(Points) /\ Len(r) = Len(s) + 1 /\ DOMAIN r = 1 .. Len(s) + 1
        /\ \A i \in 1 .. n : r[i] = s[i]
        /\ r[n + 1] = p
        /\ \A i \in n + 2 .. Len(s) + 1 : r[i] = s[i - 1]
    <3>1. /\ r \in Seq(Points) /\ Len(r) = Len(s) + 1
          /\ \A i \in 1 .. n : r[i] = s[i]
          /\ r[n + 1] = p
          /\ \A i \in n + 2 .. Len(s) + 1 : r[i] = s[i - 1]
      <4>1. PICK k \in 1 .. Len(s) + 1 : k = n + 1
        BY <1>1, <1>3
      <4>2. r = InsertAt(s, k, p) /\ k - 1 = n /\ k + 1 = n + 2
        BY <1>1, <1>3, <2>1, <4>1
      <4>3. /\ InsertAt(s, k, p) \in Seq(Points)
            /\ Len(InsertAt(s, k, p)) = Len(s) + 1
            /\ \A i \in 1 .. k - 1 : InsertAt(s, k, p)[i] = s[i]
            /\ InsertAt(s, k, p)[k] = p
            /\ \A i \in k + 1 .. Len(s) + 1 : InsertAt(s, k, p)[i] = s[i - 1]
        BY InsertAtElements
      <4> QED
        BY <4>1, <4>2, <4>3
    <3> QED
      BY <3>1
  <2>3. ASSUME NEW i \in 1 .. n PROVE s[i].ts < p.ts
    <3>1. CASE i = n
      BY <1>1, <1>2, <1>3, <2>1, <3>1
    <3>2. CASE i # n
      BY <1>1, <1>2, <1>3, <1>4, <3>2
    <3> QED
      BY <3>1, <3>2
  <2>4. ASSUME NEW i \in 1 .. Len(s) + 1, NEW j \in 1 .. Len(s) + 1, i < j
        PROVE  r[i].ts < r[j].ts
    <3>1. CASE j <= n
      <4>1. i \in 1 .. n /\ j \in 1 .. n /\ i \in 1 .. Len(s) /\ j \in 1 .. Len(s)
        BY <1>1, <1>3, <2>4, <3>1
      <4> QED
        BY <1>4, <2>2, <2>4, <4>1
    <3>2. CASE j = n + 1
      <4>1. i \in 1 .. n /\ r[j] = p
        BY <1>1, <1>3, <2>2, <2>4, <3>2
      <4> QED
        BY <2>2, <2>3, <4>1
    <3>3. CASE j > n + 1 /\ i = n + 1
      <4>1. /\ r[i] = p /\ r[j] = s[j - 1]
            /\ j - 1 \in n + 1 .. Len(s)
        BY <1>1, <1>3, <2>2, <3>3, SMTT(30)
      <4>2. s[j - 1].ts > p.ts /\ s[j - 1] \in Points
        BY <1>1, <1>3, <4>1
      <4> QED
        BY <1>2, <4>1, <4>2
    <3>4. CASE j > n + 1 /\ i > n + 1
      <4>1. r[i] = s[i - 1] /\ r[j] = s[j - 1] /\ i - 1 \in 1 .. Len(s) /\ j - 1 \in 1 .. Len(s)
        BY <1>1, <1>3, <2>2, <3>4
      <4> QED
        BY <1>4, <2>4, <4>1
    <3>5. CASE j > n + 1 /\ i < n + 1
      <4>1. r[i] = s[i] /\ r[j] = s[j - 1] /\ i \in 1 .. Len(s) /\ j - 1 \in 1 .. Len(s)
            /\ i < j - 1
        BY <1>1, <1>3, <2>2, <3>5
      <4> QED
        BY <1>4, <4>1
    <3> QED
      BY <1>1, <1>3, <3>1, <3>2, <3>3, <3>4, <3>5
  <2>5. Chronological(r)
    BY <2>2, <2>4 DEF Chronological
  <2>6. ASSUME NEW i \in DOMAIN r
        PROVE  r[i] = p \/ (r[i].ts # p.ts /\ \E j \in DOMAIN s : r[i] = s[j])
    <3>1. CASE i \in 1 .. n
      BY <1>1, <1>2, <1>3, <2>2, <2>3, <3>1
    <3>2. CASE i \in n + 2 .. Len(s) + 1
      <4>1. i - 1 \in n + 1 .. Len(s) /\ i - 1 \in DOMAIN s
        BY <1>1, <1>3, <3>2
      <4> QED
        BY <1>1, <1>2, <1>3, <2>2, <3>2, <4>1
    <3> QED
      BY <1>1, <1>3, <2>2, <3>1, <3>2
  <2>7. p.ts <= r[Len(r)].ts /\ (s # <<>> => s[Len(s)].ts <= r[Len(r)].ts)
    <3>1. CASE n = Len(s)
      <4>1. r[Len(r)] = p
        BY <2>2, <3>1
      <4>2. s # <<>> => Len(s) \in 1 .. n
        BY <1>1, <3>1
      <4> QED
        BY <1>1, <1>2, <1>3, <4>1, <4>2
    <3>2. CASE n # Len(s)
      <4>1. Len(s) \in n + 1 .. Len(s) /\ Len(s) + 1 \in n + 2 .. Len(s) + 1
        BY <1>1, <1>3, <3>2
      <4>2. r[Len(r)] = s[Len(s)]
        BY <2>2, <4>1
      <4> QED
        BY <1>1, <1>2, <1>3, <4>1, <4>2
    <3> QED
      BY <3>1, <3>2
  <2>8. r # <<>>
    BY <1>1, <2>2
  <2>9. Len(r) = IF IsDuplicate(s, p.ts) THEN Len(s) ELSE Len(s) + 1
    BY <1>6, <2>2
  <2> QED
    BY <2>2, <2>5, <2>6, <2>7, <2>8, <2>9 DEF r
<1> QED
  BY <1>5, <1>6

(***************************************************************************)
(* The invariant.                                                          *)
(***************************************************************************)
HotInv == /\ SeriesTyped /\ PointsSorted /\ LimitsHold /\ RoomToInsert
          /\ LastWriteWins /\ NewestKept

LEMMA WithValues ==
    ASSUME NEW f, NEW x, NEW v
    PROVE  /\ DOMAIN With(f, x, v) = DOMAIN f \cup {x}
           /\ With(f, x, v)[x] = v
           /\ \A y \in DOMAIN f : y # x => With(f, x, v)[y] = f[y]
  BY DEF With

LEMMA TailOrder ==
    ASSUME NEW s \in Seq(Points), Chronological(s), s # <<>>
    PROVE  /\ Tail(s) \in Seq(Points) /\ Chronological(Tail(s))
           /\ Len(Tail(s)) = Len(s) - 1
           /\ \A i \in DOMAIN Tail(s) : \E j \in DOMAIN s : Tail(s)[i] = s[j]
           /\ Len(s) > 1 => Tail(s) # <<>> /\ Tail(s)[Len(Tail(s))] = s[Len(s)]
<1>1. /\ Tail(s) \in Seq(Points) /\ Len(Tail(s)) = Len(s) - 1
      /\ Len(s) \in Nat \ {0} /\ DOMAIN s = 1 .. Len(s) /\ DOMAIN Tail(s) = 1 .. Len(s) - 1
      /\ \A i \in 1 .. Len(s) - 1 : Tail(s)[i] = s[i + 1] /\ i + 1 \in 1 .. Len(s)
  OBVIOUS
<1>2. Chronological(Tail(s))
  BY <1>1 DEF Chronological
<1>3. \A i \in DOMAIN Tail(s) : \E j \in DOMAIN s : Tail(s)[i] = s[j]
  BY <1>1
<1>4. Len(s) > 1 => Tail(s) # <<>> /\ Tail(s)[Len(Tail(s))] = s[Len(s)]
  <2> SUFFICES ASSUME Len(s) > 1 PROVE Tail(s) # <<>> /\ Tail(s)[Len(Tail(s))] = s[Len(s)]
    OBVIOUS
  <2>1. Len(s) - 1 \in 1 .. Len(s) - 1 /\ Len(s) - 1 + 1 = Len(s)
    BY <1>1
  <2> QED
    BY <1>1, <2>1, SMTT(30)
<1> QED
  BY <1>1, <1>2, <1>3, <1>4

\* What the invariant says of one series: its points s, its history h.
Sound(s, h) ==
    /\ s \in Seq(Points) /\ Chronological(s) /\ Len(s) <= MaxPoints
    /\ DOMAIN h \subseteq Times
    /\ \A i \in DOMAIN s : s[i].ts \in DOMAIN h /\ h[s[i].ts] = s[i].val
    /\ MaxPoints > 1 => \A t \in DOMAIN h : s # <<>> /\ t <= s[Len(s)].ts

\* The invariant again, series by series: the form that is carried over a step.
SeriesInv ==
    /\ Ids \subseteq SeriesIds /\ now \in Nat
    /\ Cardinality(Ids) <= MaxSeries
    /\ adding \subseteq Ids \X Points /\ \A a, b \in adding : a = b
    /\ DOMAIN written = Ids /\ RoomToInsert
    /\ \A id \in Ids : /\ Sound(series[id].points, written[id].val)
                       /\ series[id].lastSeen \in 0 .. now
                       /\ written[id].at \in 0 .. now

LEMMA SeriesBySeries == SeriesInv => HotInv
  BY DEF HotInv, SeriesInv, SeriesTyped, PointsSorted, LimitsHold, LastWriteWins, NewestKept, Sound

\* Dropping the oldest point of a full series.
LEMMA SoundTail ==
    ASSUME NEW s, NEW h, Sound(s, h), Len(s) >= MaxPoints
    PROVE  Sound(Tail(s), h) /\ Len(Tail(s)) < MaxPoints
<1> USE HotAssumption
<1>1. s \in Seq(Points) /\ Chronological(s) /\ Len(s) = MaxPoints /\ s # <<>>
  BY DEF Sound
<1>2. /\ Tail(s) \in Seq(Points) /\ Chronological(Tail(s))
      /\ Len(Tail(s)) = Len(s) - 1
      /\ \A i \in DOMAIN Tail(s) : \E j \in DOMAIN s : Tail(s)[i] = s[j]
      /\ Len(s) > 1 => Tail(s) # <<>> /\ Tail(s)[Len(Tail(s))] = s[Len(s)]
  BY <1>1, TailOrder
<1>3. ASSUME NEW i \in DOMAIN Tail(s)
      PROVE  Tail(s)[i].ts \in DOMAIN h /\ h[Tail(s)[i].ts] = Tail(s)[i].val
  BY <1>2 DEF Sound
<1>4. ASSUME MaxPoints > 1, NEW t \in DOMAIN h
      PROVE  Tail(s) # <<>> /\ t <= Tail(s)[Len(Tail(s))].ts
  BY <1>1, <1>2, <1>4 DEF Sound
<1>5. Len(Tail(s)) < MaxPoints
  BY <1>1, <1>2
<1> QED
  BY <1>1, <1>2, <1>3, <1>4, <1>5 DEF Sound

\* Inserting or updating a point, and recording it in the history.
LEMMA SoundInserted ==
    ASSUME NEW s, NEW h, Sound(s, h), Len(s) < MaxPoints, NEW p \in Points
    PROVE  Sound(Inserted(s, p), With(h, p.ts, p.val))
<1> DEFINE r == Inserted(s, p)
           g == With(h, p.ts, p.val)
<1>1. s \in Seq(Points) /\ Chronological(s) /\ Len(s) \in Nat
  BY DEF Sound
<1>2. /\ r \in Seq(Points) /\ Chronological(r)
      /\ Len(r) = IF IsDuplicate(s, p.ts) THEN Len(s) ELSE Len(s) + 1
      /\ \A i \in DOMAIN r : \/ r[i] = p
                             \/ r[i].ts # p.ts /\ \E j \in DOMAIN s : r[i] = s[j]
      /\ r # <<>> /\ p.ts <= r[Len(r)].ts
      /\ s # <<>> => s[Len(s)].ts <= r[Len(r)].ts
  BY <1>1, InsertedKeepsOrder
<1>3. /\ DOMAIN g = DOMAIN h \cup {p.ts} /\ g[p.ts] = p.val
      /\ \A t \in DOMAIN h : t # p.ts => g[t] = h[t]
  BY DEF g, With
<1>4. p.ts \in Times /\ \A q \in Points : q.ts \in Int
  BY DEF Points, Times
<1> HIDE DEF r, g
<1>5. Len(r) <= MaxPoints
  BY <1>1, <1>2, HotAssumption
<1>6. ASSUME NEW i \in DOMAIN r PROVE r[i].ts \in DOMAIN g /\ g[r[i].ts] = r[i].val
  <2>1. CASE r[i] = p
    BY <1>3, <2>1
  <2>2. CASE r[i] # p
    <3>1. PICK j \in DOMAIN s : r[i] = s[j] /\ r[i].ts # p.ts
      BY <1>2, <2>2
    <3>2. s[j].ts \in DOMAIN h /\ h[s[j].ts] = s[j].val
      BY DEF Sound
    <3> QED
      BY <1>3, <3>1, <3>2
  <2> QED
    BY <2>1, <2>2
<1>7. ASSUME MaxPoints > 1, NEW t \in DOMAIN g PROVE r # <<>> /\ t <= r[Len(r)].ts
  <2>1. Len(r) \in DOMAIN r /\ r[Len(r)] \in Points
    BY <1>2
  <2>2. CASE t = p.ts
    BY <1>2, <2>2
  <2>3. CASE t \in DOMAIN h
    <3>1. s # <<>> /\ t <= s[Len(s)].ts /\ t \in Int
      BY <1>7, <2>3 DEF Sound, Times
    <3>2. s[Len(s)] \in Points
      BY <1>1, <3>1
    <3> QED
      BY <1>2, <1>4, <2>1, <3>1, <3>2
  <2> QED
    BY <1>3, <2>2, <2>3
<1>8. DOMAIN g \subseteq Times
  BY <1>3, <1>4 DEF Sound
<1>9. Sound(r, g)
  BY <1>2, <1>5, <1>6, <1>7, <1>8 DEF Sound
<1> QED
  BY <1>9 DEF r, g

\* A series that is created has no points and no history.
LEMMA SoundEmpty == Sound(<<>>, <<>>) /\ Len(<<>>) < MaxPoints
<1>1. <<>> \in Seq(Points) /\ Len(<<>>) = 0 /\ DOMAIN <<>> = {}
  OBVIOUS
<1> QED
  BY <1>1, HotAssumption DEF Sound, Chronological

(***************************************************************************)
(* The invariant holds initially and is preserved by every action.         *)
(***************************************************************************)
LEMMA HotInit == Init => SeriesInv
<1> SUFFICES ASSUME Init PROVE SeriesInv
  OBVIOUS
<1>1. Ids = {} /\ DOMAIN written = {} /\ adding = {} /\ now = 0
  BY DEF Init, Ids
<1>2. Cardinality({}) = 0
  BY FS_EmptySet
<1> QED
  BY <1>1, <1>2, HotAssumption DEF SeriesInv, RoomToInsert

\* Creating a series keeps their number within the limit.
LEMMA OneMore ==
    ASSUME SeriesInv, NEW id \in SeriesIds, id \in Ids \/ Cardinality(Ids) < MaxSeries
    PROVE  Cardinality(Ids \cup {id}) <= MaxSeries
<1>1. IsFiniteSet(Ids)
  BY HotAssumption, FS_Subset DEF SeriesInv
<1>2. Cardinality(Ids) \in Nat
  BY <1>1, FS_CardinalityType
<1>3. CASE id \in Ids
  <2>1. Ids \cup {id} = Ids
    BY <1>3
  <2> QED
    BY <2>1 DEF SeriesInv
<1>4. CASE id \notin Ids
  <2>1. Cardinality(Ids \cup {id}) = Cardinality(Ids) + 1
    BY <1>1, <1>4, FS_AddElement
  <2> QED
    BY <1>2, <1>4, <2>1, HotAssumption
<1> QED
  BY <1>3, <1>4

LEMMA BeginAddKeeps ==
    ASSUME SeriesInv, NEW id \in SeriesIds, NEW p \in Points, BeginAdd(id, p)
    PROVE  SeriesInv'
<1> DEFINE old == IF id \in Ids THEN series[id] ELSE [points |-> <<>>, lastSeen |-> now]
           h == IF id \in Ids THEN written[id].val ELSE <<>>
<1>1. PICK s, hist, new :
        /\ s = old /\ hist = h
        /\ new = IF Len(s.points) >= MaxPoints THEN [s EXCEPT !.points = Tail(@)] ELSE s
  OBVIOUS
<1>2. /\ series' = With(series, id, new)
      /\ written' = IF id \in Ids THEN written ELSE With(written, id, [val |-> <<>>, at |-> now])
      /\ adding' = {<<id, p>>} /\ now' = now
  BY <1>1 DEF BeginAdd, IsFull, Evicted
<1>3. Sound(s.points, hist) /\ s.lastSeen \in 0 .. now
  BY <1>1, SoundEmpty DEF SeriesInv
<1>4. Sound(new.points, hist) /\ Len(new.points) < MaxPoints /\ new.lastSeen \in 0 .. now
  <2>1. CASE Len(s.points) >= MaxPoints
    <3>1. Sound(Tail(s.points), hist) /\ Len(Tail(s.points)) < MaxPoints
      BY <1>3, <2>1, SoundTail
    <3>2. new.points = Tail(s.points) /\ new.lastSeen = s.lastSeen
      BY <1>1, <2>1
    <3> QED
      BY <1>3, <3>1, <3>2
  <2>2. CASE ~(Len(s.points) >= MaxPoints)
    <3>1. new = s
      BY <1>1, <2>2
    <3>2. Len(s.points) \in Nat /\ MaxPoints \in Nat
      BY <1>3, HotAssumption DEF Sound
    <3> QED
      BY <1>3, <2>2, <3>1, <3>2
  <2> QED
    BY <2>1, <2>2
<1>5. Ids' = Ids \cup {id} /\ series'[id] = new /\ \A x \in Ids : x # id => series'[x] = series[x]
  BY <1>2 DEF With, Ids
<1>6. /\ DOMAIN written' = Ids' /\ written'[id].val = hist /\ written'[id].at \in 0 .. now
      /\ \A x \in Ids : written'[x].at = written[x].at /\ written'[x].val = written[x].val
  BY <1>1, <1>2, <1>5 DEF With, SeriesInv
<1>7. Cardinality(Ids') <= MaxSeries
  BY <1>5, OneMore DEF BeginAdd, IsFull, Evicted
<1>8. RoomToInsert'
  BY <1>2, <1>4, <1>5 DEF RoomToInsert
<1>9. ASSUME NEW x \in Ids'
      PROVE  /\ Sound(series'[x].points, written'[x].val)
             /\ series'[x].lastSeen \in 0 .. now'
             /\ written'[x].at \in 0 .. now'
  <2>1. CASE x = id
    BY <1>2, <1>4, <1>5, <1>6, <2>1
  <2>2. CASE x # id
    BY <1>2, <1>5, <1>6, <2>2 DEF SeriesInv
  <2> QED
    BY <2>1, <2>2
<1> QED
  BY <1>2, <1>5, <1>6, <1>7, <1>8, <1>9 DEF SeriesInv

LEMMA EndAddKeeps ==
    ASSUME SeriesInv, NEW id \in SeriesIds, NEW p \in Points, EndAdd(id, p)
    PROVE  SeriesInv'
<1>1. PICK s, w : s = series[id] /\ w = written[id]
  OBVIOUS
<1>2. /\ id \in Ids /\ Sound(s.points, w.val) /\ Len(s.points) < MaxPoints
      /\ s.lastSeen \in 0 .. now
  <2>1. <<id, p>> \in adding /\ <<id, p>>[1] = id
    BY DEF EndAdd
  <2> QED
    BY <1>1, <2>1 DEF SeriesInv, RoomToInsert
<1>3. PICK last : last = IF IsDuplicate(s.points, p.ts) THEN s.lastSeen ELSE now
  OBVIOUS
<1>4. /\ series' = [series EXCEPT ![id] = [points |-> Inserted(s.points, p), lastSeen |-> last]]
      /\ written' = [written EXCEPT ![id] = [val |-> With(w.val, p.ts, p.val), at |-> now]]
      /\ adding' = {} /\ now' = now
  BY <1>1, <1>3 DEF EndAdd
<1>5. Sound(Inserted(s.points, p), With(w.val, p.ts, p.val))
  BY <1>2, SoundInserted
<1>6. /\ Ids' = Ids /\ DOMAIN written' = Ids
      /\ series'[id] = [points |-> Inserted(s.points, p), lastSeen |-> last]
      /\ written'[id] = [val |-> With(w.val, p.ts, p.val), at |-> now]
      /\ \A x \in Ids : x # id => series'[x] = series[x] /\ written'[x] = written[x]
  BY <1>2, <1>4 DEF Ids, SeriesInv
<1>7. now \in Nat /\ last \in 0 .. now
  BY <1>2, <1>3 DEF SeriesInv
<1>8. ASSUME NEW x \in Ids'
      PROVE  /\ Sound(series'[x].points, written'[x].val)
             /\ series'[x].lastSeen \in 0 .. now'
             /\ written'[x].at \in 0 .. now'
  <2>1. CASE x = id
    BY <1>4, <1>5, <1>6, <1>7, <2>1
  <2>2. CASE x # id
    BY <1>4, <1>6, <2>2 DEF SeriesInv
  <2> QED
    BY <2>1, <2>2
<1> QED
  BY <1>4, <1>6, <1>8 DEF SeriesInv, RoomToInsert

LEMMA CleanupKeeps ==
    ASSUME SeriesInv, CleanupStale
    PROVE  SeriesInv'
<1>1. /\ Ids' = Ids \ Stale /\ DOMAIN written' = Ids \ Stale
      /\ adding = {} /\ adding' = {} /\ now' = now
      /\ \A x \in Ids' : series'[x] = series[x] /\ written'[x] = written[x]
  BY DEF CleanupStale, RemoveStale, Ids
<1>2. IsFiniteSet(Ids)
  BY HotAssumption, FS_Subset DEF SeriesInv
<1>3. Cardinality(Ids') <= Cardinality(Ids) /\ IsFiniteSet(Ids')
  BY <1>1, <1>2, FS_Subset
<1>4. Cardinality(Ids') <= MaxSeries
  BY <1>2, <1>3, FS_CardinalityType, HotAssumption DEF SeriesInv
<1> QED
  BY <1>1, <1>4 DEF SeriesInv, RoomToInsert

LEMMA HotStep == SeriesInv /\ [Next]_vars => SeriesInv'
<1> SUFFICES ASSUME SeriesInv, [Next]_vars PROVE SeriesInv'
  OBVIOUS
<1>1. ASSUME NEW id \in SeriesIds, NEW p \in Points, BeginAdd(id, p) PROVE SeriesInv'
  BY <1>1, BeginAddKeeps
<1>2. ASSUME NEW id \in SeriesIds, NEW p \in Points, EndAdd(id, p) PROVE SeriesInv'
  BY <1>2, EndAddKeeps
<1>3. CASE CleanupStale
  BY <1>3, CleanupKeeps
<1>4. CASE Tick
  BY <1>4 DEF Tick, SeriesInv, RoomToInsert, Ids
<1>5. CASE UNCHANGED vars
  BY <1>5 DEF vars, SeriesInv, RoomToInsert, Ids
<1> QED
  BY <1>1, <1>2, <1>3, <1>4, <1>5 DEF Next

LEMMA HotInvariant == Spec => []HotInv
  BY HotInit, HotStep, SeriesBySeries, PTL DEF Spec

(***************************************************************************)
(* The counter of points.                                                  *)
(***************************************************************************)

\* Places, of any map of series.
PlacesIn(f, S) == UNION {{id} \X DOMAIN f[id].points : id \in S}

LEMMA PlaceIn ==
    ASSUME NEW f, NEW S, NEW h
    PROVE  h \in PlacesIn(f, S) <=> \E id \in S : \E i \in DOMAIN f[id].points : h = <<id, i>>
BY DEF PlacesIn

LEMMA PlacesFinite ==
    ASSUME SeriesInv, NEW S \in SUBSET Ids
    PROVE  IsFiniteSet(PlacesIn(series, S)) /\ Cardinality(PlacesIn(series, S)) \in Nat
<1> DEFINE all == SeriesIds \X (1 .. MaxPoints)
<1>1. IsFiniteSet(all)
  <2>1. IsFiniteSet(1 .. MaxPoints)
    BY FS_Interval, HotAssumption
  <2> QED
    BY <2>1, FS_Product, HotAssumption
<1>2. ASSUME NEW h \in PlacesIn(series, S) PROVE h \in all
  <2>1. PICK id \in S : \E i \in DOMAIN series[id].points : h = <<id, i>>
    BY PlaceIn
  <2>2. PICK i \in DOMAIN series[id].points : h = <<id, i>>
    BY <2>1
  <2>3. series[id].points \in Seq(Points) /\ Len(series[id].points) <= MaxPoints /\ id \in SeriesIds
    BY DEF SeriesInv, Sound
  <2>4. i \in 1 .. MaxPoints
    BY <2>3, HotAssumption
  <2> QED
    BY <2>2, <2>3, <2>4
<1>3. PlacesIn(series, S) \in SUBSET all
  BY <1>2
<1> HIDE DEF all
<1>4. IsFiniteSet(PlacesIn(series, S))
  BY <1>1, <1>3, FS_Subset
<1> QED
  BY <1>4, FS_CardinalityType

LEMMA CountInit == Init => CountedAhead
<1> SUFFICES ASSUME Init PROVE CountedAhead
  OBVIOUS
<1>1. Ids = {} /\ adding = {} /\ totalPoints = 0
  BY DEF Init, Ids
<1>2. Places(Ids) = {}
  BY <1>1 DEF Places
<1> QED
  BY <1>1, <1>2, FS_EmptySet DEF CountedAhead, PointCount

LEMMA CountBegin ==
    ASSUME SeriesInv, CountedAhead, NEW id \in SeriesIds, NEW p \in Points, BeginAdd(id, p)
    PROVE  CountedAhead'
<1> DEFINE s == IF id \in Ids THEN series[id] ELSE [points |-> <<>>, lastSeen |-> now]
           P == PlacesIn(series, Ids)
           Q == PlacesIn(series', Ids')
<1>1. IsFiniteSet(P) /\ Cardinality(P) \in Nat
  BY PlacesFinite
<1>2. totalPoints \in Nat /\ totalPoints >= Cardinality(P) + Cardinality(adding) /\ adding = {}
  BY DEF CountedAhead, PointCount, Places, PlacesIn, BeginAdd
<1>3. Cardinality({}) = 0 /\ Cardinality({<<id, p>>}) = 1
  BY FS_EmptySet, FS_Singleton
<1>4. adding' = {<<id, p>>}
  BY DEF BeginAdd
<1>5. s.points \in Seq(Points) /\ Len(s.points) \in Nat /\ Len(<<>>) = 0 /\ DOMAIN <<>> = {}
  BY DEF SeriesInv, Sound
<1>6. CASE IsFull(s.points)
  <2> DEFINE last == <<id, Len(s.points)>>
             new  == [s EXCEPT !.points = Tail(@)]
  <2>1. series' = With(series, id, new) /\ totalPoints' = totalPoints
    BY <1>6 DEF BeginAdd, Evicted
  <2>2. id \in Ids /\ s = series[id] /\ Len(s.points) \in Nat \ {0}
    BY <1>5, <1>6, HotAssumption DEF IsFull
  <2>3. Ids' = Ids /\ series'[id] = new /\ \A x \in Ids : x # id => series'[x] = series[x]
    BY <2>1, <2>2 DEF With, Ids
  <2>4. new.points = Tail(s.points)
    BY <2>2 DEF SeriesInv
  <2>5. DOMAIN s.points = 1 .. Len(s.points) /\ DOMAIN new.points = 1 .. Len(s.points) - 1
    BY <1>5, <2>2, <2>4
  <2>6. last \in P
    BY <2>2, <2>5, PlaceIn
  <2> HIDE DEF s, new, P, Q
  <2>7. ASSUME NEW x \in Ids, NEW i
        PROVE  i \in DOMAIN series'[x].points <=> i \in DOMAIN series[x].points /\ <<x, i>> # last
    <3>1. CASE x = id
      BY <2>2, <2>3, <2>5, <3>1
    <3>2. CASE x # id
      BY <2>3, <3>2
    <3> QED
      BY <3>1, <3>2
  <2> HIDE DEF last
  <2>8. Q = P \ {last}
    <3>1. ASSUME NEW h PROVE h \in Q <=> h \in P /\ h # last
      <4>1. h \in Q <=> \E x \in Ids : \E i \in DOMAIN series'[x].points : h = <<x, i>>
        BY <2>3, PlaceIn DEF Q
      <4>2. h \in P <=> \E x \in Ids : \E i \in DOMAIN series[x].points : h = <<x, i>>
        BY PlaceIn DEF P
      <4> QED
        BY <2>7, <4>1, <4>2
    <3> QED
      BY <3>1
  <2>9. Cardinality(Q) = Cardinality(P) - 1
    BY <1>1, <2>6, <2>8, FS_RemoveElement
  <2>10. totalPoints' >= Cardinality(Q) + Cardinality(adding')
    BY <1>1, <1>2, <1>3, <1>4, <2>1, <2>9
  <2> QED
    BY <1>2, <2>1, <2>10 DEF CountedAhead, PointCount, Places, PlacesIn, Q
<1>7. CASE ~IsFull(s.points)
  <2>1. series' = With(series, id, s) /\ totalPoints' = totalPoints + 1
    BY <1>7 DEF BeginAdd
  <2>2. Ids' = Ids \cup {id} /\ series'[id] = s /\ \A x \in Ids : series'[x] = series[x]
    BY <2>1 DEF With, Ids
  <2>3. id \notin Ids => DOMAIN s.points = {}
    BY <1>5
  <2> HIDE DEF s, P, Q
  <2>4. Q = P
    <3>1. ASSUME NEW h PROVE h \in Q <=> h \in P
      <4>1. h \in Q <=> \E x \in Ids' : \E i \in DOMAIN series'[x].points : h = <<x, i>>
        BY PlaceIn DEF Q
      <4>2. h \in P <=> \E x \in Ids : \E i \in DOMAIN series[x].points : h = <<x, i>>
        BY PlaceIn DEF P
      <4> QED
        BY <2>2, <2>3, <4>1, <4>2
    <3> QED
      BY <3>1
  <2>5. totalPoints' >= Cardinality(Q) + Cardinality(adding') /\ totalPoints' \in Nat
    BY <1>1, <1>2, <1>3, <1>4, <2>1, <2>4
  <2> QED
    BY <2>5 DEF CountedAhead, PointCount, Places, PlacesIn, Q
<1> QED
  BY <1>6, <1>7

LEMMA CountEnd ==
    ASSUME SeriesInv, CountedAhead, NEW id \in SeriesIds, NEW p \in Points, EndAdd(id, p)
    PROVE  CountedAhead'
<1> DEFINE s == series[id].points
           r == Inserted(s, p)
           P == PlacesIn(series, Ids)
           Q == PlacesIn(series', Ids')
           next == <<id, Len(s) + 1>>
<1>1. IsFiniteSet(P) /\ Cardinality(P) \in Nat
  BY PlacesFinite
<1>2. /\ totalPoints \in Nat /\ totalPoints >= Cardinality(P) + Cardinality(adding)
      /\ adding = {<<id, p>>} /\ adding' = {} /\ totalPoints' = totalPoints
  BY DEF CountedAhead, PointCount, Places, PlacesIn, EndAdd
<1>3. Cardinality({}) = 0 /\ Cardinality({<<id, p>>}) = 1
  BY FS_EmptySet, FS_Singleton
<1>4. id \in Ids
  BY <1>2 DEF SeriesInv
<1>5. s \in Seq(Points) /\ Chronological(s) /\ Len(s) \in Nat /\ DOMAIN s = 1 .. Len(s)
  BY <1>4 DEF SeriesInv, Sound
<1>6. r \in Seq(Points) /\ Len(r) = IF IsDuplicate(s, p.ts) THEN Len(s) ELSE Len(s) + 1
  BY <1>5, InsertedKeepsOrder
<1>7. /\ Ids' = Ids /\ series'[id].points = r
      /\ \A x \in Ids : x # id => series'[x] = series[x]
  BY <1>4 DEF EndAdd, Ids
<1> HIDE DEF s, r, P, Q
<1>8. ASSUME NEW i \in DOMAIN r PROVE i \in DOMAIN s \/ i = Len(s) + 1
  BY <1>5, <1>6
<1>9. Q \subseteq P \cup {next}
  <2>1. ASSUME NEW h \in Q PROVE h \in P \cup {next}
    <3>1. PICK x \in Ids : \E i \in DOMAIN series'[x].points : h = <<x, i>>
      BY <1>7, PlaceIn DEF Q
    <3>2. PICK i \in DOMAIN series'[x].points : h = <<x, i>>
      BY <3>1
    <3>3. i \in DOMAIN series[x].points \/ h = next
      BY <1>7, <1>8, <3>2 DEF s
    <3> QED
      BY <3>2, <3>3, PlaceIn DEF P
  <2> QED
    BY <2>1
<1> HIDE DEF next
<1>10. /\ IsFiniteSet(P \cup {next})
       /\ Cardinality(P \cup {next}) <= Cardinality(P) + 1
       /\ Cardinality(P \cup {next}) \in Nat
  <2>1. IsFiniteSet(P)
    BY <1>1
  <2>2. /\ IsFiniteSet(P \cup {next})
        /\ Cardinality(P \cup {next}) = IF next \in P THEN Cardinality(P) ELSE Cardinality(P) + 1
    BY <2>1, FS_AddElement, Zenon
  <2> QED
    BY <1>1, <2>2
<1>11. Cardinality(Q) <= Cardinality(P) + 1 /\ Cardinality(Q) \in Nat
  <2>1. IsFiniteSet(Q) /\ Cardinality(Q) <= Cardinality(P \cup {next})
    BY <1>9, <1>10, FS_Subset
  <2>2. Cardinality(Q) \in Nat
    BY <2>1, FS_CardinalityType
  <2> QED
    BY <1>1, <1>10, <2>1, <2>2
<1>12. totalPoints' >= Cardinality(Q) + Cardinality(adding') /\ totalPoints' \in Nat
  BY <1>1, <1>2, <1>3, <1>11
<1> QED
  BY <1>12 DEF CountedAhead, PointCount, Places, PlacesIn, Q

LEMMA CountCleanup ==
    ASSUME SeriesInv, CountedAhead, CleanupStale
    PROVE  CountedAhead'
<1> DEFINE P == PlacesIn(series, Ids)
           T == PlacesIn(series, Stale)
           Q == PlacesIn(series', Ids')
<1>1. Stale \in SUBSET Ids
  BY DEF Stale
<1>2. /\ IsFiniteSet(P) /\ Cardinality(P) \in Nat /\ IsFiniteSet(T) /\ Cardinality(T) \in Nat
  BY <1>1, PlacesFinite
<1>3. /\ totalPoints \in Nat /\ totalPoints >= Cardinality(P) + Cardinality(adding)
      /\ totalPoints' = totalPoints - Cardinality(T)
      /\ adding = {} /\ adding' = {}
  BY DEF CountedAhead, PointCount, StalePoints, Places, PlacesIn, CleanupStale, RemoveStale
<1>4. Ids' = Ids \ Stale /\ \A x \in Ids' : series'[x] = series[x]
  BY DEF CleanupStale, RemoveStale, Ids
<1> HIDE DEF P, T, Q
<1>5. T \subseteq P /\ Q = P \ T
  <2>1. ASSUME NEW h PROVE (h \in T => h \in P) /\ (h \in Q <=> h \in P /\ h \notin T)
    <3>1. h \in Q <=> \E x \in Ids' : \E i \in DOMAIN series'[x].points : h = <<x, i>>
      BY PlaceIn DEF Q
    <3>2. h \in P <=> \E x \in Ids : \E i \in DOMAIN series[x].points : h = <<x, i>>
      BY PlaceIn DEF P
    <3>3. h \in T <=> \E x \in Stale : \E i \in DOMAIN series[x].points : h = <<x, i>>
      BY PlaceIn DEF T
    <3>4. \A x, y, i, j : <<x, i>> = <<y, j>> => x = y
      OBVIOUS
    <3>5. h \in T => h \in P
      BY <1>1, <3>2, <3>3
    <3>6. h \in Q => h \in P /\ h \notin T
      BY <1>4, <3>1, <3>2, <3>3, <3>4
    <3>7. h \in P /\ h \notin T => h \in Q
      BY <1>4, <3>1, <3>2, <3>3
    <3> QED
      BY <3>5, <3>6, <3>7
  <2> QED
    BY <2>1
<1>6. Cardinality(Q) = Cardinality(P) - Cardinality(T) /\ Cardinality(Q) \in Nat
  <2>1. P \cap T = T
    BY <1>5
  <2>2. IsFiniteSet(Q) /\ Cardinality(Q) = Cardinality(P) - Cardinality(T)
    <3>1. IsFiniteSet(P)
      BY <1>2
    <3>2. IsFiniteSet(P \ T) /\ Cardinality(P \ T) = Cardinality(P) - Cardinality(P \cap T)
      BY <3>1, FS_Difference, Zenon
    <3> QED
      BY <1>5, <2>1, <3>2
  <2> QED
    BY <2>2, FS_CardinalityType
<1>7. Cardinality({}) = 0
  BY FS_EmptySet
<1>8. totalPoints' \in Nat /\ totalPoints' >= Cardinality(Q) + Cardinality(adding')
  BY <1>2, <1>3, <1>6, <1>7
<1> QED
  BY <1>8 DEF CountedAhead, PointCount, Places, PlacesIn, Q

LEMMA CountStep == SeriesInv /\ CountedAhead /\ [Next]_vars => CountedAhead'
<1> SUFFICES ASSUME SeriesInv, CountedAhead, [Next]_vars PROVE CountedAhead'
  OBVIOUS
<1>1. ASSUME NEW id \in SeriesIds, NEW p \in Points, BeginAdd(id, p) PROVE CountedAhead'
  BY <1>1, CountBegin
<1>2. ASSUME NEW id \in SeriesIds, NEW p \in Points, EndAdd(id, p) PROVE CountedAhead'
  BY <1>2, CountEnd
<1>3. CASE CleanupStale
  BY <1>3, CountCleanup
<1>4. CASE Tick
  BY <1>4 DEF Tick, CountedAhead, PointCount, Places, Ids
<1>5. CASE UNCHANGED vars
  BY <1>5 DEF vars, CountedAhead, PointCount, Places, Ids
<1> QED
  BY <1>1, <1>2, <1>3, <1>4, <1>5 DEF Next

(***************************************************************************)
(* The theorems.                                                           *)
(***************************************************************************)
\* The map, the series and the pending insertion are always well formed, and the
\* drift of totalPoints is one-sided: it never runs below the number of points
\* held, so it cannot go negative.
THEOREM SeriesWellTyped == Spec => []TypeOK
<1>1. Init => SeriesInv /\ CountedAhead
  BY HotInit, CountInit
<1>2. SeriesInv /\ CountedAhead /\ [Next]_vars => (SeriesInv /\ CountedAhead)'
  BY HotStep, CountStep
<1>3. SeriesInv /\ CountedAhead => TypeOK
  <2> SUFFICES ASSUME SeriesInv, CountedAhead PROVE TypeOK
    OBVIOUS
  <2>1. SeriesTyped
    BY SeriesBySeries DEF HotInv
  <2>2. adding \in SUBSET (Ids \X Points) /\ IsFiniteSet(adding)
    <3>1. CASE adding = {}
      BY <3>1, FS_EmptySet
    <3>2. CASE adding # {}
      <4>1. PICK a : adding = {a}
        BY <3>2 DEF SeriesInv
      <4>2. IsFiniteSet({a})
        BY FS_Singleton
      <4> QED
        BY <4>1, <4>2 DEF SeriesInv
    <3> QED
      BY <3>1, <3>2 DEF SeriesInv
  <2>3. Cardinality(adding) \in Nat
    BY <2>2, FS_CardinalityType
  <2>4. PointCount \in Nat
    BY PlacesFinite DEF PointCount, Places, PlacesIn
  <2>5. totalPoints >= PointCount
    BY <2>3, <2>4 DEF CountedAhead
  <2> QED
    BY <2>1, <2>5 DEF CountedAhead, TypeOK
<1> QED
  BY <1>1, <1>2, <1>3, PTL DEF Spec

\* Every series is in strict timestamp order whenever its lock is free: what
\* the binary searches of AddPoint and GetRange rely on.
THEOREM AlwaysSorted == Spec => []PointsSorted
<1>1. HotInv => PointsSorted
  BY DEF HotInv
<1> QED
  BY <1>1, HotInvariant, PTL

\* maxSeries and maxPointsPerSeries are never exceeded, between the steps of
\* AddPoint included.
THEOREM LimitsAlwaysHold == Spec => []LimitsHold
<1>1. HotInv => LimitsHold
  BY DEF HotInv
<1> QED
  BY <1>1, HotInvariant, PTL

\* Whatever is updated, evicted or inserted late, a point still held has the
\* value written last at its timestamp.
THEOREM LatestData == Spec => []LastWriteWins
<1>1. HotInv => LastWriteWins
  BY DEF HotInv
<1> QED
  BY <1>1, HotInvariant, PTL

\* With room for two points, the eviction that comes before an insertion never
\* takes the newest point, nor does a late point.
THEOREM NewestNeverEvicted == Spec => []NewestKept
<1>1. HotInv => NewestKept
  BY DEF HotInv
<1> QED
  BY <1>1, HotInvariant, PTL

\* GetRange returns exactly the points between its bounds, in order, also
\* between the two steps of AddPoint.
THEOREM RangesExact == Spec => []RangeExact
<1>1. HotInv => RangeExact
  <2> SUFFICES ASSUME HotInv, NEW id \in Ids, NEW start \in Times, NEW end \in Times
               PROVE  LET s == series[id].points
                          r == GetRange(s, start, end)
                      IN  /\ Chronological(r)
                          /\ ToSet(r) = {p \in ToSet(s) : start <= p.ts /\ p.ts <= end}
    BY DEF RangeExact
  <2>1. start \in Int /\ end \in Int
    BY DEF Times
  <2>2. series[id].points \in Seq(Points) /\ Chronological(series[id].points)
    BY DEF HotInv, SeriesTyped, PointsSorted
  <2> QED
    BY <2>1, <2>2, RangeOfSeries
<1> QED
  BY <1>1, HotInvariant, PTL
=============================================================================
