--------------------------- MODULE AnalyticsProofs ---------------------------
(***************************************************************************)
(* Proofs about AnomalyEngine, for any callers, values, windows, kinds of  *)
(* detector and trainings, and about MLService, for any requests, sizes    *)
(* and ways to combine forecasts; and about both side by side, as they run *)
(* in MCAnalytics.                                                         *)
(***************************************************************************)
EXTENDS MCAnalytics, SequenceTheorems, WellFoundedInduction, TLAPS

(***************************************************************************)
(* The last so many of a sequence.                                         *)
(***************************************************************************)

\* As many as there are, n at the most, counted from the end.
LEMMA LastOfElements ==
    ASSUME NEW S, NEW s \in Seq(S), NEW n \in Nat
    PROVE  /\ LastOf(s, n) \in Seq(S)
           /\ Len(LastOf(s, n)) <= Len(s) /\ Len(LastOf(s, n)) <= n
           /\ Len(LastOf(s, n)) = Len(s) \/ Len(LastOf(s, n)) = n
           /\ \A i \in 1..Len(LastOf(s, n)) :
                 LastOf(s, n)[i] = s[Len(s) - Len(LastOf(s, n)) + i]
<1> DEFINE l == Len(s)
           w == LastOf(s, n)
<1>1. l \in Nat
  BY LenProperties
<1>2. CASE l <= n
  <2>1. w = s
    BY <1>2 DEF LastOf
  <2>2. \A i \in 1..l : i = l - l + i
    BY <1>1
  <2> HIDE DEF w, l
  <2>3. w \in Seq(S) /\ Len(w) = l /\ \A i \in 1..l : w[i] = s[l - l + i]
    BY <2>1, <2>2 DEF l
  <2> QED
    BY <1>1, <1>2, <2>3 DEF w, l
<1>3. CASE ~(l <= n)
  <2> DEFINE a == l - n + 1
  <2>1. w = SubSeq(s, a, l)
    BY <1>3 DEF LastOf
  <2>2. a \in Int /\ l \in Int /\ a \in 1..(l + 1) /\ l - a + 1 = n
    BY <1>1, <1>3
  <2>3. \A i \in a..l : s[i] \in S
    BY <2>2, ElementOfSeq
  <2> HIDE DEF a, w
  <2>4. /\ SubSeq(s, a, l) \in Seq(S)
        /\ Len(SubSeq(s, a, l)) = IF a <= l THEN l - a + 1 ELSE 0
        /\ \A i \in 1..(l - a + 1) : SubSeq(s, a, l)[i] = s[a + i - 1]
    BY <2>2, <2>3, SubSeqProperties
  <2>5. Len(w) = n
    BY <2>1, <2>2, <2>4
  <2>6. \A i \in 1..n : w[i] = s[l - n + i]
    <3> SUFFICES ASSUME NEW i \in 1..n PROVE w[i] = s[l - n + i]
      OBVIOUS
    <3>1. w[i] = s[a + i - 1]
      BY <2>1, <2>2, <2>4
    <3>2. a + i - 1 = l - n + i
      BY <1>1 DEF a
    <3> QED
      BY <3>1, <3>2
  <2>7. w \in Seq(S)
    BY <2>1, <2>4
  <2> HIDE DEF l
  <2>8. n <= l /\ n <= n
    BY <1>1, <1>3
  <2> QED
    BY <2>5, <2>6, <2>7, <2>8 DEF w, l
<1> QED
  BY <1>2, <1>3

\* To slide over the window is to slide over all there was.
LEMMA LastOfAppend ==
    ASSUME NEW S, NEW s \in Seq(S), NEW v \in S, NEW n \in Nat \ {0}
    PROVE  LastOf(Append(LastOf(s, n), v), n) = LastOf(Append(s, v), n)
<1> DEFINE w  == LastOf(s, n)
           sv == Append(s, v)
           wv == Append(w, v)
           a  == LastOf(wv, n)
           b  == LastOf(sv, n)
           l  == Len(s)
           m  == Len(w)
           j  == Len(a)
           k  == Len(b)
<1>1. l \in Nat /\ n \in Nat
  BY LenProperties
<1>2. /\ w \in Seq(S) /\ m <= l /\ m <= n /\ (m = l \/ m = n)
      /\ \A i \in 1..m : w[i] = s[l - m + i]
  BY <1>1, LastOfElements, Zenon
<1>3. m \in Nat
  BY <1>2, LenProperties, Zenon
<1>4. /\ sv \in Seq(S) /\ Len(sv) = l + 1
      /\ \A i \in 1..l : sv[i] = s[i]
      /\ sv[l + 1] = v
  BY AppendProperties
<1>5. /\ wv \in Seq(S) /\ Len(wv) = m + 1
      /\ \A i \in 1..m : wv[i] = w[i]
      /\ wv[m + 1] = v
  BY <1>2, AppendProperties
<1> HIDE DEF w, sv, wv, l, m
<1>6. /\ b \in Seq(S) /\ k <= l + 1 /\ k <= n /\ (k = l + 1 \/ k = n)
      /\ \A i \in 1..k : b[i] = sv[l + 1 - k + i]
  <2>1. /\ b \in Seq(S) /\ k <= Len(sv) /\ k <= n /\ (k = Len(sv) \/ k = n)
        /\ \A i \in 1..k : b[i] = sv[Len(sv) - k + i]
    <3>1. sv \in Seq(S) /\ n \in Nat
      BY <1>1, <1>4
    <3> QED
      BY <3>1, LastOfElements, Zenon
  <2> HIDE DEF b, k
  <2> QED
    BY <1>1, <1>4, <2>1
<1>7. /\ a \in Seq(S) /\ j <= m + 1 /\ j <= n /\ (j = m + 1 \/ j = n)
      /\ \A i \in 1..j : a[i] = wv[m + 1 - j + i]
  <2>1. /\ a \in Seq(S) /\ j <= Len(wv) /\ j <= n /\ (j = Len(wv) \/ j = n)
        /\ \A i \in 1..j : a[i] = wv[Len(wv) - j + i]
    <3>1. wv \in Seq(S) /\ n \in Nat
      BY <1>1, <1>5
    <3> QED
      BY <3>1, LastOfElements, Zenon
  <2> HIDE DEF a, j
  <2> QED
    BY <1>3, <1>5, <2>1
<1>8. j \in Nat /\ k \in Nat
  BY <1>6, <1>7, LenProperties, Zenon
<1> HIDE DEF a, b, j, k
<1>9. j = k /\ k \in 1..(m + 1)
  BY <1>1, <1>2, <1>3, <1>6, <1>7, <1>8
<1>10. ASSUME NEW i \in 1..k PROVE a[i] = b[i]
  <2>1. CASE i = k
    <3>1. m + 1 - k + i = m + 1 /\ l + 1 - k + i = l + 1
      BY <1>1, <1>3, <1>9, <2>1
    <3> QED
      BY <1>4, <1>5, <1>6, <1>7, <1>9, <3>1
  <2>2. CASE i < k
    <3>1. m + 1 - k + i \in 1..m /\ l + 1 - k + i \in 1..l
      <4>1. m \in Nat /\ l \in Nat /\ m <= l
        BY <1>1, <1>2, <1>3
      <4> QED
        BY <1>9, <2>2, <4>1
    <3>2. a[i] = s[l - m + (m + 1 - k + i)]
      BY <1>2, <1>5, <1>7, <1>9, <3>1
    <3>3. l - m + (m + 1 - k + i) = l + 1 - k + i
      BY <1>1, <1>3, <1>9, <2>2
    <3> QED
      BY <1>4, <1>6, <3>1, <3>2, <3>3
  <2> QED
    BY <1>9, <2>1, <2>2
<1>11. Len(a) = Len(b) /\ \A i \in 1..Len(a) : a[i] = b[i]
  BY <1>9, <1>10 DEF j, k
<1>12. a = b
  BY <1>6, <1>7, <1>11, SeqEqual, Zenon
<1> QED
  BY <1>12 DEF a, b, wv, sv, w

LEMMA ConcatAppend ==
    ASSUME NEW S, NEW s \in Seq(S), NEW t \in Seq(S), NEW v \in S
    PROVE  s \o Append(t, v) = Append(s \o t, v)
<1> DEFINE tv == Append(t, v)
           st == s \o t
           a == s \o tv
           b == Append(st, v)
           m == Len(s)
           n == Len(t)
<1>1. m \in Nat /\ n \in Nat
  BY LenProperties
<1>2. tv \in Seq(S) /\ Len(tv) = n + 1 /\ (\A i \in 1..n : tv[i] = t[i]) /\ tv[n + 1] = v
  BY AppendProperties
<1>3. /\ st \in Seq(S) /\ Len(st) = m + n
      /\ \A i \in 1..(m + n) : st[i] = IF i <= m THEN s[i] ELSE t[i - m]
  BY ConcatProperties
<1> HIDE DEF tv, st
<1>4. /\ a \in Seq(S) /\ Len(a) = m + Len(tv)
      /\ \A i \in 1..(m + Len(tv)) : a[i] = IF i <= m THEN s[i] ELSE tv[i - m]
  BY <1>2, ConcatProperties
<1>5. /\ b \in Seq(S) /\ Len(b) = Len(st) + 1
      /\ (\A i \in 1..Len(st) : b[i] = st[i]) /\ b[Len(st) + 1] = v
  <2>1. st \in Seq(S)
    BY <1>3
  <2> QED
    BY <2>1, AppendProperties, SMT
<1> HIDE DEF a, b, m, n
<1>6. Len(a) = m + n + 1 /\ Len(b) = m + n + 1
  BY <1>1, <1>2, <1>3, <1>4, <1>5
<1>7. ASSUME NEW i \in 1..(m + n + 1) PROVE a[i] = b[i]
  <2>1. CASE i <= m
    <3>1. i \in 1..(m + n) /\ i \in 1..(m + Len(tv))
      BY <1>1, <1>2, <2>1
    <3> QED
      BY <1>3, <1>4, <1>5, <2>1, <3>1
  <2>2. CASE i > m /\ i <= m + n
    <3>1. i \in 1..(m + n) /\ i \in 1..(m + Len(tv)) /\ i - m \in 1..n /\ ~(i <= m)
      BY <1>1, <1>2, <2>2
    <3> QED
      BY <1>2, <1>3, <1>4, <1>5, <3>1
  <2>3. CASE i = m + n + 1
    <3>1. i \in 1..(m + Len(tv)) /\ i - m = n + 1 /\ ~(i <= m)
      BY <1>1, <1>2, <2>3
    <3> QED
      BY <1>2, <1>3, <1>4, <1>5, <2>3, <3>1
  <2> QED
    BY <1>1, <2>1, <2>2, <2>3
<1>8. Len(a) = Len(b) /\ \A i \in 1..Len(a) : a[i] = b[i]
  BY <1>6, <1>7
<1>9. a = b
  BY <1>4, <1>5, <1>8, SeqEqual, Zenon
<1> QED
  BY <1>9 DEF a, b, tv, st

(***************************************************************************)
(* Sums.                                                                   *)
(***************************************************************************)

\* < on the numbers, as a relation.
Lesser == {p \in Nat \X Nat : p[1] < p[2]}

\* What fails for some number fails for a least one: by well-founded induction,
\* and in place of induction over the places of a sequence.
LEMMA LeastPlace ==
    ASSUME NEW T, T \subseteq Nat, T # {}
    PROVE  \E x \in T : \A y \in T : x <= y
<1>1. OpToRel(<, Nat) = Lesser
  BY DEF OpToRel, Lesser
<1>2. IsWellFoundedOn(Lesser, Nat)
  BY <1>1, NatLessThanWellFounded
<1>3. PICK x \in T : \A y \in T : ~ (<<y, x>> \in Lesser)
  BY <1>2, WFMin, Zenon
<1>4. ASSUME NEW y \in T PROVE x <= y
  <2>1. x \in Nat /\ y \in Nat /\ <<y, x>> \notin Lesser
    BY <1>3
  <2>2. <<y, x>> \in Lesser <=> y < x
    BY <2>1 DEF Lesser
  <2> QED
    BY <2>1, <2>2
<1> QED
  BY <1>4

\* The sums of the first so many of x.
PartialSums(g, x) ==
    /\ g \in [0..Len(x) -> Int] /\ g[0] = 0
    /\ \A k \in 1..Len(x) : g[k] = g[k - 1] + x[k]

\* The recursive function in Sum exists, and holds the partial sums.
LEMMA SumIsPartialSum ==
    ASSUME NEW x \in Seq(Int)
    PROVE  \E g : PartialSums(g, x) /\ Sum(x) = g[Len(x)]
<1> DEFINE l == Len(x)
           Upto(g, n) == g = [k \in 0..n |-> IF k = 0 THEN 0 ELSE g[k - 1] + x[k]]
           T == {n \in 0..l : ~ \E g : Upto(g, n)}
           f == CHOOSE g : Upto(g, l)
           U == {k \in 0..l : f[k] \notin Int}
<1>1. l \in Nat /\ \A k \in 1..l : x[k] \in Int
  BY LenProperties, ElementOfSeq
<1>2. Sum(x) = f[l]
  BY DEF Sum
<1> HIDE DEF l, f
<1>3. T = {}
  <2> SUFFICES ASSUME T # {} PROVE FALSE
    OBVIOUS
  <2>1. T \subseteq Nat
    BY <1>1
  <2> HIDE DEF T
  <2>2. PICK n \in T : \A m \in T : n <= m
    BY <2>1, LeastPlace
  <2> USE DEF T
  <2>3. n \in 0..l /\ ~ \E g : Upto(g, n)
    OBVIOUS
  <2>4. n # 0
    <3>1. Upto([k \in {0} |-> 0], 0)
      OBVIOUS
    <3> QED
      BY <2>3, <3>1
  <2>5. PICK g : Upto(g, n - 1)
    <3>1. n - 1 \in 0..l /\ n - 1 \notin T
      BY <1>1, <2>2, <2>3, <2>4
    <3> QED
      BY <3>1
  <2> DEFINE h == [k \in 0..n |-> IF k = n THEN g[n - 1] + x[n] ELSE g[k]]
  <2>6. ASSUME NEW k \in 0..n PROVE h[k] = IF k = 0 THEN 0 ELSE h[k - 1] + x[k]
    <3>1. n \in Nat /\ k \in Nat
      BY <1>1, <2>3
    <3>2. CASE k = n
      BY <2>4, <3>1, <3>2
    <3>3. CASE k # n
      <4>1. k \in 0..(n - 1)
        BY <3>1, <3>3
      <4>2. g[k] = IF k = 0 THEN 0 ELSE g[k - 1] + x[k]
        BY <2>5, <4>1
      <4>3. h[k] = g[k] /\ (k # 0 => h[k - 1] = g[k - 1])
        BY <3>1, <3>3
      <4> QED
        BY <4>2, <4>3
    <3> QED
      BY <3>2, <3>3
  <2>7. h = [k \in 0..n |-> h[k]]
    OBVIOUS
  <2> HIDE DEF h
  <2>8. Upto(h, n)
    BY <2>6, <2>7
  <2> QED
    BY <2>3, <2>8
<1>4. Upto(f, l)
  <2>1. l \in 0..l /\ l \notin T
    <3> HIDE DEF T
    <3> QED
      BY <1>1, <1>3
  <2>2. \E g : Upto(g, l)
    BY <2>1
  <2> QED
    BY <2>2 DEF f
<1>5. DOMAIN f = 0..l /\ f[0] = 0 /\ (\A k \in 1..l : f[k] = f[k - 1] + x[k])
  BY <1>1, <1>4
<1>6. U = {}
  <2> SUFFICES ASSUME U # {} PROVE FALSE
    OBVIOUS
  <2>1. U \subseteq Nat
    BY <1>1
  <2> HIDE DEF U
  <2>2. PICK n \in U : \A m \in U : n <= m
    BY <2>1, LeastPlace
  <2> USE DEF U
  <2>3. n \in 1..l
    BY <1>1, <1>5
  <2>4. n - 1 \in 0..l /\ n - 1 \notin U
    BY <1>1, <2>2, <2>3
  <2>5. f[n - 1] \in Int /\ x[n] \in Int /\ f[n] = f[n - 1] + x[n]
    BY <1>1, <1>5, <2>3, <2>4
  <2> QED
    BY <2>5
<1>7. f \in [0..l -> Int]
  <2>1. f = [k \in 0..l |-> f[k]]
    BY <1>4
  <2>2. \A k \in 0..l : f[k] \in Int
    BY <1>6
  <2> QED
    BY <2>1, <2>2
<1>8. PartialSums(f, x)
  BY <1>5, <1>7 DEF PartialSums, l
<1> QED
  BY <1>2, <1>8 DEF l

LEMMA SquareOfOneMore ==
    ASSUME NEW k \in Nat \ {0}, NEW s \in Int, NEW p \in Int, NEW x \in Int, s * s <= k * p
    PROVE  (s + x) * (s + x) <= (k + 1) * (p + x * x)
OBVIOUS

\* The square of a sum is at most so many times the sum of the squares.
LEMMA SquareOfSum ==
    ASSUME NEW w \in Seq(Int), NEW S, PartialSums(S, w), NEW P, PartialSums(P, Each(Square, w))
    PROVE  \A k \in 0..Len(w) : S[k] * S[k] <= k * P[k]
<1> DEFINE l == Len(w)
           T == {k \in 0..l : ~ (S[k] * S[k] <= k * P[k])}
<1>1. l \in Nat /\ \A k \in 1..l : w[k] \in Int
  BY LenProperties, ElementOfSeq
<1>2. /\ S[0] = 0 /\ P[0] = 0
      /\ \A k \in 0..l : S[k] \in Int /\ P[k] \in Int
      /\ \A k \in 1..l : S[k] = S[k - 1] + w[k] /\ P[k] = P[k - 1] + w[k] * w[k]
  <2>1. Len(Each(Square, w)) = l /\ \A k \in 1..l : Each(Square, w)[k] = w[k] * w[k]
    BY <1>1 DEF Each, Square
  <2> HIDE DEF l
  <2> QED
    BY <2>1 DEF PartialSums, l
<1> HIDE DEF l
<1>3. T = {}
  <2> SUFFICES ASSUME T # {} PROVE FALSE
    OBVIOUS
  <2>1. T \subseteq Nat
    BY <1>1
  <2> HIDE DEF T
  <2>2. PICK n \in T : \A m \in T : n <= m
    BY <2>1, LeastPlace
  <2>3. n \in 0..l /\ ~ (S[n] * S[n] <= n * P[n])
    BY DEF T
  <2>4. n \in Nat /\ n # 0
    <3>1. S[0] * S[0] <= 0 * P[0]
      BY <1>2
    <3> QED
      BY <1>1, <2>3, <3>1
  <2> DEFINE k == n - 1  s == S[k]  p == P[k]  x == w[n]
  <2>5. k \in 0..l /\ k \in Nat /\ s * s <= k * p
    BY <1>1, <2>2, <2>3, <2>4 DEF T
  <2>6. /\ s \in Int /\ p \in Int /\ x \in Int /\ n = k + 1
        /\ S[n] = s + x /\ P[n] = p + x * x
    BY <1>1, <1>2, <2>3, <2>4, <2>5
  <2>7. CASE k = 0
    <3>1. s = 0 /\ p = 0
      BY <1>2, <2>7
    <3>2. S[n] = x /\ P[n] = x * x /\ n = 1
      BY <2>6, <2>7, <3>1
    <3>3. x * x \in Int
      BY <2>6
    <3> QED
      BY <2>3, <3>2, <3>3
  <2>8. CASE k # 0
    <3> HIDE DEF k, s, p, x
    <3>1. (s + x) * (s + x) <= (k + 1) * (p + x * x)
      BY <2>5, <2>6, <2>8, SquareOfOneMore
    <3> QED
      BY <2>3, <2>6, <3>1
  <2> QED
    BY <2>7, <2>8
<1> QED
  BY <1>3 DEF l

\* The last of n numbers is within T deviations of their mean, if (n-1)^2 <= T^2 n.
LEMMA LastIsNear ==
    ASSUME NEW w \in Seq(Int), w # <<>>, NEW v \in Int, w[Len(w)] = v, Threshold \in Int,
           Square(Len(w) - 1) <= Square(Threshold) * Len(w)
    PROVE  ~ FarInDeviations(w, v)
<1> DEFINE n == Len(w)
<1>1. n \in Nat /\ n # 0
  BY LenProperties, EmptySeq
<1>2. Each(Square, w) \in Seq(Int) /\ Len(Each(Square, w)) = n /\ Each(Square, w)[n] = v * v
  BY <1>1 DEF Each, Square
<1>3. PICK S : PartialSums(S, w) /\ Sum(w) = S[n]
  BY SumIsPartialSum
<1>4. PICK P : PartialSums(P, Each(Square, w)) /\ Sum(Each(Square, w)) = P[n]
  BY <1>2, SumIsPartialSum, Zenon
<1> DEFINE m == n - 1  a == S[m]  b == P[m]  s == a + v  q == b + v * v
           D == n * q - s * s
           X == (n * v - s) * (n * v - s)
           t == Threshold * Threshold
<1>5. a \in Int /\ b \in Int /\ S[n] = s /\ P[n] = q
  <2> m \in 0..n /\ n \in 1..n
    BY <1>1
  <2>1. S[m] \in Int /\ S[n] = S[m] + w[n]
    BY <1>3 DEF PartialSums
  <2>2. P[m] \in Int /\ P[n] = P[m] + Each(Square, w)[n]
    BY <1>2, <1>4 DEF PartialSums
  <2> QED
    BY <1>2, <2>1, <2>2
<1>6. a * a <= m * b /\ s * s <= n * q
  <2>1. \A k \in 0..n : S[k] * S[k] <= k * P[k]
    BY <1>3, <1>4, SquareOfSum
  <2>2. m \in 0..n /\ n \in 0..n
    BY <1>1
  <2> QED
    BY <1>5, <2>1, <2>2
<1>7. m * m <= t * n
  BY DEF Square
<1>8. FarInDeviations(w, v) <=> X * m > t * n * D
  BY <1>3, <1>4, <1>5 DEF FarInDeviations, Square
<1>9. Threshold \in Int /\ n \in Int /\ m \in Nat /\ n > 0 /\ m = n - 1
  BY <1>1
<1> HIDE DEF n, m, a, b
<1>10. s \in Int /\ q \in Int /\ v \in Int
  BY <1>5
<1>11. D \in Int /\ X \in Int /\ t \in Int /\ D >= 0
  BY <1>6, <1>9, <1>10
<1>12. m * D - X = n * (m * b - a * a)
  BY <1>5, <1>9
<1>13. X <= m * D
  <2>1. m * b - a * a \in Nat
    BY <1>5, <1>6, <1>9
  <2>2. n * (m * b - a * a) >= 0
    BY <1>9, <2>1
  <2> HIDE DEF D, X
  <2> QED
    BY <1>9, <1>11, <1>12, <2>2
<1> HIDE DEF s, q, D, X, t
<1>14. X * m <= (m * D) * m
  BY <1>9, <1>11, <1>13
<1>15. (m * D) * m = (m * m) * D
  BY <1>9, <1>11
<1>16. (m * m) * D <= (t * n) * D
  BY <1>7, <1>9, <1>11
<1>17. X * m <= (t * n) * D
  BY <1>9, <1>11, <1>14, <1>15, <1>16
<1> QED
  BY <1>8, <1>9, <1>11, <1>17
(***************************************************************************)
(* One detector.                                                           *)
(***************************************************************************)

Detector == [kind : Kinds, values : Seq(Values), taught : Seq(Values), learned : Seq(Values),
             alarm : BOOLEAN]

\* Its window is what WindowRecent says, and one that has learned or reported a
\* point was trained with enough.
SoundDetectors ==
    {d \in Detector :
       /\ d.values = LastOf(d.taught \o d.learned, WindowSize)
       /\ d.learned # <<>> \/ d.alarm
            => Len(LastOf(d.taught, WindowSize)) >= MinValues(d.kind)}

LEMMA MinValuesType == \A kind \in Kinds : MinValues(kind) \in Nat
BY DEF MinValues, Kinds

LEMMA LastOfType ==
    ASSUME NEW S, NEW s \in Seq(S), NEW n \in Nat
    PROVE  LastOf(s, n) \in Seq(S) /\ Len(LastOf(s, n)) \in Nat /\ Len(LastOf(s, n)) <= n
<1>1. LastOf(s, n) \in Seq(S) /\ Len(LastOf(s, n)) <= n
  BY LastOfElements, Zenon
<1> QED
  BY <1>1, LenProperties, Zenon

LEMMA MadeSound == \A kind \in Kinds : Made(kind) \in SoundDetectors
<1> SUFFICES ASSUME NEW kind \in Kinds PROVE Made(kind) \in SoundDetectors
  OBVIOUS
<1>1. Made(kind) \in Detector
  BY DEF Made, Detector
<1>2. LastOf(<<>> \o <<>>, WindowSize) = <<>>
  <2>1. <<>> \o <<>> = <<>>
    BY ConcatEmptySeq, EmptySeq
  <2>2. WindowSize \in Nat /\ Len(<<>>) = 0
    BY AnomalyAssumption
  <2>3. LastOf(<<>>, WindowSize) = <<>>
    BY <2>2 DEF LastOf
  <2> QED
    BY <2>1, <2>3
<1> QED
  BY <1>1, <1>2 DEF Made, SoundDetectors

LEMMA TrainSound ==
    ASSUME NEW d \in SoundDetectors, NEW ps \in Seq(Values)
    PROVE  [d EXCEPT !.values = LastOf(ps, WindowSize), !.taught = ps, !.learned = <<>>,
                     !.alarm = FALSE] \in SoundDetectors
<1> DEFINE w == LastOf(ps, WindowSize)
           e == [d EXCEPT !.values = w, !.taught = ps, !.learned = <<>>, !.alarm = FALSE]
<1>1. w \in Seq(Values)
  BY LastOfType, AnomalyAssumption
<1>2. ps \o <<>> = ps
  BY ConcatEmptySeq
<1> HIDE DEF w
<1>3. e \in Detector /\ e.values = w /\ e.taught = ps /\ e.learned = <<>> /\ e.alarm = FALSE
  <2>1. d \in Detector /\ <<>> \in Seq(Values)
    BY EmptySeq DEF SoundDetectors
  <2> QED
    BY <1>1, <2>1 DEF Detector
<1> HIDE DEF e
<1>4. e \in SoundDetectors
  BY <1>2, <1>3 DEF SoundDetectors, w
<1> QED
  BY <1>4 DEF e, w

LEMMA DetectSound ==
    ASSUME NEW d \in SoundDetectors, NEW v \in Values, NEW unusual \in BOOLEAN,
           Len(d.values) >= MinValues(d.kind)
    PROVE  [d EXCEPT !.values = Slide(@, v), !.learned = Append(@, v),
                     !.alarm = @ \/ unusual] \in SoundDetectors
<1> DEFINE t == d.taught
           l == d.learned
           e == [d EXCEPT !.values = Slide(@, v), !.learned = Append(@, v), !.alarm = @ \/ unusual]
<1>1. /\ d \in Detector /\ t \in Seq(Values) /\ l \in Seq(Values) /\ d.values \in Seq(Values)
      /\ d.values = LastOf(t \o l, WindowSize) /\ d.kind \in Kinds
      /\ l # <<>> \/ d.alarm => Len(LastOf(t, WindowSize)) >= MinValues(d.kind)
  BY DEF SoundDetectors, Detector
<1>2. WindowSize \in Nat \ {0} /\ WindowSize \in Nat
  BY AnomalyAssumption
<1>3. t \o Append(l, v) = Append(t \o l, v)
  <2>1. t \in Seq(Values) /\ l \in Seq(Values)
    BY <1>1
  <2> HIDE DEF t, l
  <2> QED
    BY <2>1, ConcatAppend, SMT
<1>4. t \o l \in Seq(Values)
  BY <1>1, ConcatProperties, Zenon
<1>5. Slide(d.values, v) = LastOf(t \o Append(l, v), WindowSize)
  <2>1. LastOf(Append(LastOf(t \o l, WindowSize), v), WindowSize) = LastOf(Append(t \o l, v), WindowSize)
    BY <1>2, <1>4, LastOfAppend, Zenon
  <2> QED
    BY <1>1, <1>3, <2>1, Zenon DEF Slide
<1>6. Append(l, v) \in Seq(Values) /\ Slide(d.values, v) \in Seq(Values)
  <2>1. Append(l, v) \in Seq(Values) /\ Append(d.values, v) \in Seq(Values)
    BY <1>1
  <2> QED
    BY <1>2, <2>1, LastOfType DEF Slide
<1>7. Len(LastOf(t, WindowSize)) >= MinValues(d.kind)
  <2>1. CASE l = <<>>
    <3>1. t \o l = t
      BY <1>1, <2>1, ConcatEmptySeq
    <3> QED
      BY <1>1, <3>1
  <2> QED
    BY <1>1, <2>1
<1>8. /\ e \in Detector /\ e.values = Slide(d.values, v) /\ e.taught = t
      /\ e.learned = Append(l, v) /\ e.kind = d.kind
  <2>1. (d.alarm \/ unusual) \in BOOLEAN
    OBVIOUS
  <2> QED
    BY <1>1, <1>6, <2>1 DEF Detector
<1> HIDE DEF e, t, l
<1>9. e \in SoundDetectors
  BY <1>5, <1>7, <1>8 DEF SoundDetectors
<1> QED
  BY <1>9 DEF e

LEMMA UnusualType == \A kind, w, v : Unusual(kind, w, v) \in BOOLEAN
<1> SUFFICES ASSUME NEW kind, NEW w, NEW v PROVE Unusual(kind, w, v) \in BOOLEAN
  OBVIOUS
<1>1. FarInDeviations(w, v) \in BOOLEAN
  <2>1. \A a, b : (a > b) \in BOOLEAN
    OBVIOUS
  <2> QED
    BY <2>1, Zenon DEF FarInDeviations
<1>2. OutOfBounds(w, v) \in BOOLEAN
  BY Zenon DEF OutOfBounds
<1>3. FarFromAverage(w, v) \in BOOLEAN
  BY SMT DEF FarFromAverage
<1> QED
  BY <1>1, <1>2, <1>3, Zenon DEF Unusual

(***************************************************************************)
(* The engine.                                                             *)
(***************************************************************************)

\* A result is what some window of values had to say of a value.
Result == {Undecided(kind) : kind \in Kinds}
            \cup {Judged(kind, w, v) : kind \in Kinds, w \in Seq(Values), v \in Values}

\* The range of a z-score agrees as well as RangeAgrees says: v is the last of the
\* window that it is judged by.
LEMMA ScoreInRange ==
    ASSUME NEW w \in Seq(Values), NEW v \in Values,
           Square(Len(Slide(w, v)) - 1) <= Square(Threshold) * Len(Slide(w, v))
    PROVE  ~ FarInDeviations(Slide(w, v), v)
<1> DEFINE wv == Append(w, v)
           x  == Slide(w, v)
<1>1. Values \subseteq Int /\ WindowSize \in Nat \ {0} /\ Threshold \in Int
  BY AnomalyAssumption
<1>2. wv \in Seq(Values) /\ Len(wv) = Len(w) + 1 /\ wv[Len(wv)] = v /\ Len(w) \in Nat
  BY AppendProperties, LenProperties
<1> HIDE DEF wv
<1>3. /\ x \in Seq(Values) /\ (Len(x) = Len(wv) \/ Len(x) = WindowSize)
      /\ \A i \in 1..Len(x) : x[i] = wv[Len(wv) - Len(x) + i]
  <2>1. x = LastOf(wv, WindowSize) /\ WindowSize \in Nat
    BY <1>1 DEF Slide, wv
  <2> HIDE DEF x
  <2> QED
    BY <1>2, <2>1, LastOfElements, Zenon
<1>4. Len(x) \in Nat /\ Len(x) # 0
  BY <1>1, <1>2, <1>3
<1>5. x[Len(x)] = v
  <2>1. Len(wv) - Len(x) + Len(x) = Len(wv) /\ Len(x) \in 1..Len(x)
    BY <1>2, <1>4
  <2> HIDE DEF x
  <2> QED
    BY <1>2, <1>3, <2>1
<1>6. x \in Seq(Int) /\ x # <<>> /\ v \in Int
  <2>1. x \in Seq(Values) /\ Values \subseteq Int
    BY <1>1, <1>3
  <2> HIDE DEF x
  <2>2. x \in Seq(Int)
    BY <2>1, SeqMonotonic, Zenon
  <2>3. Len(<<>>) = 0
    OBVIOUS
  <2> QED
    BY <1>1, <1>4, <2>2, <2>3
<1> HIDE DEF x
<1>7. Square(Len(x) - 1) <= Square(Threshold) * Len(x)
  BY DEF x
<1>8. ~ FarInDeviations(x, v)
  BY <1>1, <1>5, <1>6, <1>7, LastIsNear
<1> QED
  BY <1>8 DEF x

\* A call has in hand a detector that exists, whether or not it is still the current one.
Call(made) == {Idle}
                \cup [pc : {"detect"}, with : 1..made, value : Values]
                \cup [pc : {"train"}, with : 1..made, points : Trainings]
                \cup [pc : {"store"}, result : Result]

EngineInv ==
    /\ detectors \in Seq(SoundDetectors) /\ Len(detectors) <= MaxDetectors
    /\ current \in 0..Len(detectors)
    /\ results \in Seq(Result) /\ (MaxResults = 0 \/ Len(results) <= MaxResults)
    /\ caller \in [Callers -> Call(Len(detectors))]

LEMMA EngineStart == AnomalyInit => EngineInv
<1> SUFFICES ASSUME AnomalyInit PROVE EngineInv
  OBVIOUS
<1>1. <<>> \in Seq(SoundDetectors) /\ <<>> \in Seq(Result) /\ Len(<<>>) = 0
  BY EmptySeq
<1>2. 0 \in 0..0 /\ 0 <= MaxDetectors /\ 0 <= MaxResults
  BY AnomalyAssumption
<1> QED
  BY <1>1, <1>2 DEF AnomalyInit, EngineInv, Call

LEMMA MoreDetectors ==
    ASSUME EngineInv, NEW kind \in Kinds, Len(detectors) < MaxDetectors,
           detectors' = Append(detectors, Made(kind)), current' = Len(detectors')
    PROVE  /\ detectors' \in Seq(SoundDetectors) /\ Len(detectors') <= MaxDetectors
           /\ current' \in 0..Len(detectors') /\ current' \in 1..Len(detectors')
           /\ Len(detectors) \in Nat /\ Len(detectors') = Len(detectors) + 1
<1>1. detectors \in Seq(SoundDetectors) /\ Made(kind) \in SoundDetectors
  BY MadeSound DEF EngineInv
<1>2. Len(detectors) \in Nat
  BY <1>1, LenProperties
<1>3. detectors' \in Seq(SoundDetectors) /\ Len(detectors') = Len(detectors) + 1
  BY <1>1, AppendProperties, Zenon
<1> QED
  BY <1>2, <1>3, AnomalyAssumption

LEMMA FoundDetector ==
    ASSUME EngineInv, GetOrCreateDetector
    PROVE  /\ detectors' \in Seq(SoundDetectors) /\ Len(detectors') <= MaxDetectors
           /\ current' \in 0..Len(detectors') /\ current' \in 1..Len(detectors')
           /\ Len(detectors) \in Nat /\ Len(detectors') \in Nat /\ Len(detectors) <= Len(detectors')
<1>1. CASE current # 0 /\ UNCHANGED <<detectors, current>>
  <2>1. Len(detectors) \in Nat
    BY LenProperties DEF EngineInv
  <2> QED
    BY <1>1, <2>1 DEF EngineInv
<1>2. CASE /\ Len(detectors) < MaxDetectors
           /\ detectors' = Append(detectors, Made(DefaultKind)) /\ current' = Len(detectors')
  <2>1. DefaultKind \in Kinds
    BY AnomalyAssumption
  <2> QED
    BY <1>2, <2>1, MoreDetectors
<1> QED
  BY <1>1, <1>2 DEF GetOrCreateDetector

\* What a call may have in hand, it may have when there are more.
LEMMA CallGrows == \A m, n \in Nat : m <= n => Call(m) \subseteq Call(n)
<1> SUFFICES ASSUME NEW m \in Nat, NEW n \in Nat, m <= n PROVE Call(m) \subseteq Call(n)
  OBVIOUS
<1>1. 1..m \subseteq 1..n
  OBVIOUS
<1> QED
  BY <1>1 DEF Call

LEMMA AddKeeps ==
    ASSUME EngineInv, NEW kind \in Kinds, AddDetector(kind)
    PROVE  EngineInv'
<1>1. /\ detectors' \in Seq(SoundDetectors) /\ Len(detectors') <= MaxDetectors
      /\ current' \in 0..Len(detectors')
      /\ Len(detectors) \in Nat /\ Len(detectors') = Len(detectors) + 1
  BY MoreDetectors DEF AddDetector
<1>2. Call(Len(detectors)) \subseteq Call(Len(detectors'))
  BY <1>1, CallGrows
<1>3. results' = results /\ caller' = caller
  BY DEF AddDetector
<1>4. caller' \in [Callers -> Call(Len(detectors'))]
  BY <1>2, <1>3 DEF EngineInv
<1> QED
  BY <1>1, <1>3, <1>4 DEF EngineInv

LEMMA BeginKeeps ==
    ASSUME EngineInv, NEW c \in Callers, GetOrCreateDetector, UNCHANGED results,
           NEW call, call \in Call(Len(detectors')), caller' = [caller EXCEPT ![c] = call]
    PROVE  EngineInv'
<1>1. /\ detectors' \in Seq(SoundDetectors) /\ Len(detectors') <= MaxDetectors
      /\ current' \in 0..Len(detectors')
      /\ Len(detectors) \in Nat /\ Len(detectors') \in Nat /\ Len(detectors) <= Len(detectors')
  BY FoundDetector
<1>2. Call(Len(detectors)) \subseteq Call(Len(detectors'))
  BY <1>1, CallGrows
<1>3. caller' \in [Callers -> Call(Len(detectors'))]
  BY <1>2 DEF EngineInv
<1> QED
  BY <1>1, <1>3 DEF EngineInv

LEMMA BeginDetectKeeps ==
    ASSUME EngineInv, NEW c \in Callers, NEW v \in Values, BeginDetect(c, v)
    PROVE  EngineInv'
<1>1. [pc |-> "detect", with |-> current', value |-> v] \in Call(Len(detectors'))
  <2>1. current' \in 1..Len(detectors')
    BY FoundDetector DEF BeginDetect
  <2> QED
    BY <2>1 DEF Call
<1> QED
  BY <1>1, BeginKeeps DEF BeginDetect

LEMMA BeginTrainKeeps ==
    ASSUME EngineInv, NEW c \in Callers, NEW ps \in Trainings, BeginTrain(c, ps)
    PROVE  EngineInv'
<1>1. [pc |-> "train", with |-> current', points |-> ps] \in Call(Len(detectors'))
  <2>1. current' \in 1..Len(detectors')
    BY FoundDetector DEF BeginTrain
  <2> QED
    BY <2>1 DEF Call
<1> QED
  BY <1>1, BeginKeeps DEF BeginTrain

\* To put a sound detector in the place of one, and go on with a call.
LEMMA ReplaceKeeps ==
    ASSUME EngineInv, NEW c \in Callers, UNCHANGED <<current, results>>,
           NEW k \in 1..Len(detectors), NEW e \in SoundDetectors,
           detectors' = [detectors EXCEPT ![k] = e],
           NEW call \in Call(Len(detectors)), caller' = [caller EXCEPT ![c] = call]
    PROVE  EngineInv'
<1>1. detectors \in Seq(SoundDetectors)
  BY DEF EngineInv
<1>2. detectors' \in Seq(SoundDetectors) /\ Len(detectors') = Len(detectors)
  BY <1>1, ExceptSeq
<1>3. caller' \in [Callers -> Call(Len(detectors'))]
  BY <1>2 DEF EngineInv
<1> QED
  BY <1>2, <1>3 DEF EngineInv

LEMMA TrainKeeps ==
    ASSUME EngineInv, NEW c \in Callers, Train(c)
    PROVE  EngineInv'
<1> DEFINE k  == caller[c].with
           ps == caller[c].points
           d  == detectors[k]
           e  == [d EXCEPT !.values = LastOf(ps, WindowSize), !.taught = ps, !.learned = <<>>,
                           !.alarm = FALSE]
<1>1. caller[c] \in Call(Len(detectors)) /\ caller[c].pc = "train"
  BY DEF EngineInv, Train
<1>2. k \in 1..Len(detectors) /\ ps \in Seq(Values)
  BY <1>1, AnomalyAssumption DEF Call, Idle
<1>3. d \in SoundDetectors
  BY <1>2, ElementOfSeq DEF EngineInv
<1>4. e \in SoundDetectors
  BY <1>2, <1>3, TrainSound
<1>5. Idle \in Call(Len(detectors))
  BY DEF Call
<1>6. /\ UNCHANGED <<current, results>> /\ caller' = [caller EXCEPT ![c] = Idle]
      /\ detectors' = IF ps = <<>> THEN detectors ELSE [detectors EXCEPT ![k] = e]
  BY DEF Train
<1>7. CASE ps = <<>>
  <2>1. detectors' = detectors
    BY <1>6, <1>7
  <2> QED
    BY <1>5, <1>6, <2>1 DEF EngineInv
<1>8. CASE ps # <<>>
  <2>1. detectors' = [detectors EXCEPT ![k] = e]
    BY <1>6, <1>8
  <2> HIDE DEF e, k
  <2> QED
    BY <1>2, <1>4, <1>5, <1>6, <2>1, ReplaceKeeps
<1> QED
  BY <1>7, <1>8

LEMMA DetectBlindKeeps ==
    ASSUME EngineInv, NEW c \in Callers, DetectBlind(c)
    PROVE  EngineInv'
<1> DEFINE d == detectors[caller[c].with]
<1>1. caller[c] \in Call(Len(detectors)) /\ caller[c].pc = "detect"
  BY DEF EngineInv, DetectBlind
<1>2. caller[c].with \in 1..Len(detectors)
  BY <1>1 DEF Call, Idle
<1>3. d.kind \in Kinds
  BY <1>2, ElementOfSeq DEF EngineInv, SoundDetectors, Detector
<1>4. [pc |-> "store", result |-> Undecided(d.kind)] \in Call(Len(detectors))
  BY <1>3 DEF Call, Result
<1>5. /\ caller' = [caller EXCEPT ![c] = [pc |-> "store", result |-> Undecided(d.kind)]]
      /\ UNCHANGED <<detectors, current, results>>
  BY DEF DetectBlind, Deliver
<1> QED
  BY <1>4, <1>5 DEF EngineInv

LEMMA DetectKeeps ==
    ASSUME EngineInv, NEW c \in Callers, Detect(c)
    PROVE  EngineInv'
<1> DEFINE k == caller[c].with
           v == caller[c].value
           d == detectors[k]
           unusual == Unusual(d.kind, d.values, v)
           result == Judged(d.kind, d.values, v)
           e == [d EXCEPT !.values = Slide(@, v), !.learned = Append(@, v), !.alarm = @ \/ unusual]
           call == [pc |-> "store", result |-> result]
<1>1. caller[c] \in Call(Len(detectors)) /\ caller[c].pc = "detect"
  BY DEF EngineInv, Detect
<1>2. k \in 1..Len(detectors) /\ v \in Values
  BY <1>1 DEF Call, Idle
<1>3. d \in SoundDetectors
  BY <1>2, ElementOfSeq DEF EngineInv
<1>4. d.kind \in Kinds /\ d.values \in Seq(Values)
  BY <1>3 DEF SoundDetectors, Detector
<1>5. unusual \in BOOLEAN
  BY UnusualType
<1>6. /\ Len(d.values) >= MinValues(d.kind)
      /\ detectors' = [detectors EXCEPT ![k] = e]
      /\ caller' = [caller EXCEPT ![c] = call]
      /\ UNCHANGED <<current, results>>
  BY DEF Detect, Deliver
<1>7. e \in SoundDetectors
  <2> HIDE DEF d, v, unusual
  <2> QED
    BY <1>2, <1>3, <1>5, <1>6, DetectSound
<1>8. result \in Result
  <2> HIDE DEF d, v
  <2> QED
    BY <1>2, <1>4 DEF Result
<1>9. call \in Call(Len(detectors))
  BY <1>8 DEF Call
<1> HIDE DEF e, k, call
<1> QED
  BY <1>2, <1>6, <1>7, <1>9, ReplaceKeeps

LEMMA StoreKeeps ==
    ASSUME EngineInv, NEW c \in Callers, StoreResult(c)
    PROVE  EngineInv'
<1> DEFINE r == Append(results, caller[c].result)
<1>1. caller[c] \in Call(Len(detectors)) /\ caller[c].pc = "store"
  BY DEF EngineInv, StoreResult
<1>2. caller[c].result \in Result
  BY <1>1 DEF Call, Idle
<1>3. r \in Seq(Result)
  BY <1>2 DEF EngineInv
<1>4. LastOf(r, MaxResults) \in Seq(Result) /\ Len(LastOf(r, MaxResults)) <= MaxResults
  BY <1>3, LastOfType, AnomalyAssumption
<1>5. results' \in Seq(Result) /\ (MaxResults = 0 \/ Len(results') <= MaxResults)
  <2>1. results' = IF MaxResults = 0 THEN r ELSE LastOf(r, MaxResults)
    BY DEF StoreResult
  <2> HIDE DEF r
  <2> QED
    BY <1>3, <1>4, <2>1
<1>6. caller' = [caller EXCEPT ![c] = Idle] /\ UNCHANGED <<detectors, current>>
  BY DEF StoreResult
<1>7. caller' \in [Callers -> Call(Len(detectors'))]
  BY <1>6 DEF EngineInv, Call
<1> QED
  BY <1>5, <1>6, <1>7 DEF EngineInv

LEMMA EngineGoesOn == EngineInv /\ [AnomalyNext]_anomalyVars => EngineInv'
<1> SUFFICES ASSUME EngineInv, [AnomalyNext]_anomalyVars PROVE EngineInv'
  OBVIOUS
<1>1. CASE UNCHANGED anomalyVars
  BY <1>1 DEF anomalyVars, EngineInv
<1>2. CASE AnomalyNext
  <2>1. CASE \E kind \in Kinds : AddDetector(kind)
    BY <2>1, AddKeeps
  <2>2. ASSUME NEW c \in Callers, NEW v \in Values, BeginDetect(c, v) PROVE EngineInv'
    BY <2>2, BeginDetectKeeps
  <2>3. ASSUME NEW c \in Callers, NEW ps \in Trainings, BeginTrain(c, ps) PROVE EngineInv'
    BY <2>3, BeginTrainKeeps
  <2>4. ASSUME NEW c \in Callers, Train(c) PROVE EngineInv'
    BY <2>4, TrainKeeps
  <2>5. ASSUME NEW c \in Callers, DetectBlind(c) \/ Detect(c) PROVE EngineInv'
    BY <2>5, DetectBlindKeeps, DetectKeeps
  <2>6. ASSUME NEW c \in Callers, StoreResult(c) PROVE EngineInv'
    BY <2>6, StoreKeeps
  <2> QED
    BY <1>2, <2>1, <2>2, <2>3, <2>4, <2>5, <2>6 DEF AnomalyNext
<1> QED
  BY <1>1, <1>2

LEMMA EngineInvariant == AnomalySpec => []EngineInv
BY EngineStart, EngineGoesOn, PTL DEF AnomalySpec

(***************************************************************************)
(* The theorems.                                                           *)
(***************************************************************************)

\* Every variable keeps its type: windows and stored results keep their bounds.
THEOREM EngineWellTyped == AnomalySpec => []AnomalyTypeOK
<1>1. EngineInv => AnomalyTypeOK
  <2> SUFFICES ASSUME EngineInv PROVE AnomalyTypeOK
    OBVIOUS
  <2>1. ASSUME NEW i \in DOMAIN detectors
        PROVE  detectors[i].kind \in Kinds /\ Len(detectors[i].values) <= WindowSize
    <3> DEFINE d == detectors[i]
               s == d.taught \o d.learned
    <3>1. d \in SoundDetectors
      BY <2>1, ElementOfSeq DEF EngineInv
    <3>2. d \in Detector /\ d.values = LastOf(s, WindowSize)
      BY <3>1 DEF SoundDetectors
    <3>3. s \in Seq(Values)
      BY <3>2, ConcatProperties DEF Detector
    <3> HIDE DEF s
    <3>4. Len(LastOf(s, WindowSize)) <= WindowSize
      BY <3>3, LastOfType, AnomalyAssumption
    <3> QED
      BY <3>2, <3>4 DEF Detector
  <2>2. ASSUME NEW c \in Callers
        PROVE  caller[c] = Idle \/ caller[c].pc \in {"detect", "train", "store"}
    BY <2>2 DEF EngineInv, Call
  <2> QED
    BY <2>1, <2>2 DEF EngineInv, AnomalyTypeOK
<1> QED
  BY <1>1, EngineInvariant, PTL

\* A detector judges by the last values of its training and of what it judged
\* since, each once and in the order its callers had the lock, also when
\* AddDetector replaced it between two steps of a call.
THEOREM WindowAlwaysRecent == AnomalySpec => []WindowRecent
<1>1. EngineInv => WindowRecent
  BY ElementOfSeq DEF EngineInv, SoundDetectors, WindowRecent
<1> QED
  BY <1>1, EngineInvariant, PTL

\* A detector that was not trained with enough values never reports an anomaly,
\* however many points it is shown.
THEOREM UntrainedStaysMute == AnomalySpec => []MuteUntilTrained
<1>1. EngineInv => MuteUntilTrained
  BY ElementOfSeq DEF EngineInv, SoundDetectors, MuteUntilTrained
<1> QED
  BY <1>1, EngineInvariant, PTL

\* The ExpectedRange in the result of an IQR or a moving average holds a value
\* exactly when it is no anomaly; that of a z-score, which was widened by the value
\* itself, holds every value while the window is short for the threshold.
THEOREM RangeAlwaysAgrees == AnomalySpec => []RangeAgrees
<1>1. EngineInv => RangeAgrees
  <2> SUFFICES ASSUME EngineInv, NEW c \in Callers,
                      caller[c].pc = "store", "inRange" \in DOMAIN caller[c].result
               PROVE  LET r == caller[c].result IN
                      IF r.kind = "zscore"
                      THEN Square(r.seen - 1) <= Square(Threshold) * r.seen => r.inRange
                      ELSE r.inRange = ~r.anomaly
    BY DEF RangeAgrees
  <2> DEFINE r == caller[c].result
  <2>1. r \in Result
    BY DEF EngineInv, Call, Idle
  <2>2. \A kind \in Kinds : r # Undecided(kind)
    BY DEF Undecided
  <2>3. PICK kind \in Kinds, w \in Seq(Values), v \in Values : r = Judged(kind, w, v)
    BY <2>1, <2>2 DEF Result
  <2>4. /\ r.kind = kind /\ r.seen = Len(Slide(w, v)) /\ r.anomaly = Unusual(kind, w, v)
        /\ r.inRange = ~Unusual(kind, IF kind = "zscore" THEN Slide(w, v) ELSE w, v)
    BY <2>3 DEF Judged
  <2> HIDE DEF r
  <2>5. CASE kind = "zscore"
    <3>1. Unusual(kind, Slide(w, v), v) = FarInDeviations(Slide(w, v), v)
      BY <2>5 DEF Unusual
    <3>2. r.inRange = ~FarInDeviations(Slide(w, v), v)
      BY <2>4, <2>5, <3>1
    <3>3. Square(r.seen - 1) <= Square(Threshold) * r.seen => r.inRange
      BY <2>4, <3>2, ScoreInRange
    <3> QED
      BY <2>4, <2>5, <3>3 DEF r
  <2>6. CASE kind # "zscore"
    <3>1. r.inRange = ~r.anomaly /\ r.kind # "zscore"
      BY <2>4, <2>6
    <3> QED
      BY <3>1 DEF r
  <2> QED
    BY <2>5, <2>6
<1> QED
  BY <1>1, EngineInvariant, PTL

-----------------------------------------------------------------------------
(* MLService: whose points an answer rests on.                             *)

Names     == Forecasters \cup Detectors
Sharing   == [of : SUBSET Requests, inside : SUBSET Requests, writers : SUBSET Requests]
Inquiries == [pc : {"refused", "train", "inside", "failed", "cache", "ask", "aborted", "store", "done"},
              kind : {"forecast", "detect"}, size : Nat, left : SUBSET Names, alone : BOOLEAN,
              of : SUBSET Requests, cached : BOOLEAN]

ServiceTyped ==
    /\ models \in [Names -> Sharing]
    /\ cache = <<>> \/ \E S \in SUBSET Requests : cache = <<S>>
    /\ request \in [Requests -> {New, [pc |-> "refused"]} \cup Inquiries]
    /\ dead \in BOOLEAN

\* A request is inside one model at a time, one of those it was to train.
InsideInv ==
    /\ \A m \in Names : \A c \in models[m].inside :
          At(c, "inside") /\ m \in Models(request[c].kind) \ request[c].left
    /\ \A m, k \in Names : models[m].inside \cap models[k].inside # {} => m = k

\* A request that has begun to train, and has met no rival, is nowhere met by
\* one, and what it has trained with enough points rests on them.
Undisturbed(c, kind, left, size) ==
    \A m \in Models(kind) :
        /\ models[m].inside \subseteq {c}
        /\ m \notin left /\ size >= Profile[m].takes =>
              IF models[m].inside = {} THEN models[m].of = {c} ELSE models[m].writers = {c}

SoundRequest(c) ==
    LET q == request[c] IN
    q.pc \notin {"new", "refused"} =>
        /\ q.left \subseteq Models(q.kind)
        /\ \A m \in Models(q.kind) \ q.left : q.size >= Profile[m].min
        /\ q.pc \in {"cache", "ask", "store", "done"} => q.left = {}
        /\ q.pc = "store" => q.kind = "forecast"
        /\ q.pc \in {"store", "done"} =>
              /\ q.of \subseteq {c} \/ q.cached \/ ~q.alone \/ (q.kind = "detect" /\ q.size < 4)
              /\ q.kind = "forecast" => ensemble # "weighted"
        /\ q.pc \in {"train", "inside", "cache", "ask", "store"} /\ q.alone
             /\ q.left # Models(q.kind) => Undisturbed(c, q.kind, q.left, q.size)

\* The invariant behind OwnAnswers.
ServiceInv ==
    /\ ServiceTyped /\ InsideInv
    /\ ensemble = "weighted" => cache = <<>>
    /\ \A c \in Requests : SoundRequest(c)

\* What the models ask for: the most that any takes is no more than a request has
\* that has trained them all, or a detection with four points.
LEMMA ProfileFacts ==
    /\ \A m \in Names : Profile[m].min \in Nat /\ Profile[m].takes \in Nat
    /\ \A m \in Forecasters : Profile[m].takes <= Profile["holt_winters"].min
    /\ \A m \in Detectors : Profile[m].takes <= 4
<1> USE DEF Profile, LinearTrend, HoltWinters, SeasonalETS, ARIMA, ZScore, IQR, Seasonal, Forest
<1>1. \A m \in Forecasters : /\ Profile[m].min \in Nat /\ Profile[m].takes \in Nat
                             /\ Profile[m].takes <= Profile["holt_winters"].min
  BY DEF Forecasters
<1>2. \A m \in Detectors : Profile[m].min \in Nat /\ Profile[m].takes \in Nat /\ Profile[m].takes <= 4
  BY DEF Detectors
<1> QED
  BY <1>1, <1>2 DEF Names

LEMMA KindsApart ==
    /\ \A kind, m : m \in Models(kind) => m \in Names
    /\ \A j, k \in {"forecast", "detect"} : \A m : m \in Models(j) /\ m \in Models(k) => j = k
    /\ \A kind : Models(kind) # {}
BY DEF Models, Names, Forecasters, Detectors

LEMMA ServiceStart == ServiceInit => ServiceInv
<1> SUFFICES ASSUME ServiceInit PROVE ServiceInv
  OBVIOUS
<1>1. DOMAIN Profile = Names
  BY DEF Profile, Names, Forecasters, Detectors
<1>2. ServiceTyped
  BY <1>1 DEF ServiceInit, ServiceTyped, Sharing, New
<1>3. \A m \in Names : models[m].inside = {}
  BY <1>1 DEF ServiceInit
<1>4. \A c \in Requests : request[c].pc = "new"
  BY DEF ServiceInit, New
<1> QED
  BY <1>2, <1>3, <1>4 DEF ServiceInit, ServiceInv, InsideInv, SoundRequest

LEMMA InquiryType ==
    ASSUME ServiceTyped, NEW c \in Requests, request[c].pc \notin {"new", "refused"}
    PROVE  request[c] \in Inquiries
BY DEF ServiceTyped, New

\* A request that does not move, and whose models are not touched, stays sound.
LEMMA UnmovedSound ==
    ASSUME NEW c \in Requests, SoundRequest(c), models' = models, ensemble' = ensemble,
           request'[c] = request[c]
    PROVE  SoundRequest(c)'
BY DEF SoundRequest, Undisturbed

\* One request moves, outside the models.
LEMMA OwnStep ==
    ASSUME ServiceInv, NEW c \in Requests, request[c].pc # "inside",
           NEW v \in {[pc |-> "refused"]} \cup Inquiries, request' = [request EXCEPT ![c] = v],
           UNCHANGED <<models, ensemble, dead>>,
           cache' = <<>> \/ \E S \in SUBSET Requests : cache' = <<S>>,
           ensemble = "weighted" => cache' = <<>>,
           SoundRequest(c)'
    PROVE  ServiceInv'
<1>1. \A d \in Requests \ {c} : request'[d] = request[d]
  BY DEF ServiceInv, ServiceTyped
<1>2. ServiceTyped'
  BY DEF ServiceInv, ServiceTyped
<1>3. \A m \in Names : c \notin models[m].inside /\ models[m].inside \subseteq Requests
  BY DEF ServiceInv, ServiceTyped, InsideInv, At, Sharing
<1>4. InsideInv'
  BY <1>1, <1>3 DEF ServiceInv, InsideInv, At
<1>5. \A d \in Requests : SoundRequest(d)'
  BY <1>1, UnmovedSound DEF ServiceInv
<1> QED
  BY <1>2, <1>4, <1>5 DEF ServiceInv

LEMMA FetchSound ==
    ASSUME ServiceInv, NEW c \in Requests, NEW kind \in {"forecast", "detect"}, NEW size \in Nat,
           NEW least, Fetch(c, kind, size, least)
    PROVE  ServiceInv'
<1> DEFINE v == [pc |-> IF size < least THEN "refused" ELSE "train",
                 kind |-> kind, size |-> size, left |-> Models(kind), alone |-> TRUE,
                 of |-> {}, cached |-> FALSE]
<1>1. request' = [request EXCEPT ![c] = v] /\ request[c].pc # "inside"
      /\ UNCHANGED <<ensemble, models, cache, dead>>
  BY DEF Fetch, At
<1>2. v.pc \in {"refused", "train"} /\ v.kind = kind /\ v.left = Models(kind)
  OBVIOUS
<1>3. v \in Inquiries
  BY KindsApart DEF Inquiries
<1>4. request'[c] = v
  BY <1>1 DEF ServiceInv, ServiceTyped
<1> HIDE DEF v
<1>5. SoundRequest(c)'
  BY <1>2, <1>4 DEF SoundRequest
<1> QED
  BY <1>1, <1>3, <1>5, OwnStep DEF ServiceInv, ServiceTyped

\* A request ends without an answer.
LEMMA EndSound ==
    ASSUME ServiceInv, NEW c \in Requests,
           NEW pc \in {"refused", "failed", "aborted"}, Goto(c, pc),
           IF pc = "refused" THEN At(c, "new") ELSE request[c].pc \in {"train", "ask"},
           UNCHANGED <<ensemble, models, cache, dead>>
    PROVE  ServiceInv'
<1> DEFINE v == [request[c] EXCEPT !.pc = pc]
<1>1. request' = [request EXCEPT ![c] = v] /\ request'[c] = v
  BY DEF Goto, ServiceInv, ServiceTyped
<1>2. CASE pc = "refused"
  <2>1. request[c] = New
    BY <1>2 DEF At, ServiceInv, ServiceTyped, Inquiries
  <2>2. v = [pc |-> "refused"] /\ request[c].pc # "inside"
    BY <1>2, <2>1 DEF New
  <2> HIDE DEF v
  <2>3. SoundRequest(c)'
    BY <1>1, <2>2 DEF SoundRequest
  <2> QED
    BY <1>1, <2>2, <2>3, OwnStep DEF ServiceInv, ServiceTyped
<1>3. CASE pc # "refused"
  <2>1. request[c] \in Inquiries /\ request[c].pc \in {"train", "ask"}
    BY <1>3, InquiryType DEF ServiceInv
  <2>2. v \in Inquiries /\ v.pc \in {"failed", "aborted"} /\ v.left = request[c].left
        /\ v.kind = request[c].kind /\ v.size = request[c].size
    BY <1>3, <2>1 DEF Inquiries
  <2> HIDE DEF v
  <2>3. SoundRequest(c)
    BY DEF ServiceInv
  <2>4. SoundRequest(c)'
    BY <1>1, <2>1, <2>2, <2>3 DEF SoundRequest
  <2> QED
    BY <1>1, <2>1, <2>2, <2>4, OwnStep DEF ServiceInv, ServiceTyped
<1> QED
  BY <1>2, <1>3

LEMMA CacheSound ==
    ASSUME ServiceInv, NEW c \in Requests, CheckCache(c)
    PROVE  ServiceInv'
<1> DEFINE q == request[c]
<1>1. q \in Inquiries /\ q.pc = "cache" /\ SoundRequest(c)
  BY InquiryType DEF CheckCache, At, ServiceInv
<1>2. UNCHANGED <<ensemble, models, cache, dead>>
  BY DEF CheckCache
<1>3. ASSUME cache = <<>> PROVE ServiceInv'
  <2> DEFINE v == [q EXCEPT !.pc = "ask"]
  <2>1. request' = [request EXCEPT ![c] = v] /\ request'[c] = v
    BY <1>3 DEF CheckCache, Goto, ServiceInv, ServiceTyped
  <2>2. v \in Inquiries /\ v.pc = "ask" /\ v.left = q.left /\ v.kind = q.kind /\ v.size = q.size
        /\ v.alone = q.alone
    BY <1>1 DEF Inquiries
  <2> HIDE DEF v
  <2>3. SoundRequest(c)'
    BY <1>1, <1>2, <2>1, <2>2 DEF SoundRequest, Undisturbed
  <2> QED
    BY <1>1, <1>2, <2>1, <2>2, <2>3, OwnStep DEF ServiceInv, ServiceTyped
<1>4. ASSUME cache # <<>> PROVE ServiceInv'
  <2>1. PICK S \in SUBSET Requests : cache = <<S>>
    BY <1>4 DEF ServiceInv, ServiceTyped
  <2> DEFINE v == [q EXCEPT !.pc = "done", !.of = S, !.cached = TRUE]
  <2>2. request' = [request EXCEPT ![c] = v] /\ request'[c] = v
    BY <1>4, <2>1 DEF CheckCache, ServiceInv, ServiceTyped
  <2>3. v \in Inquiries /\ v.pc = "done" /\ v.left = q.left /\ v.kind = q.kind /\ v.size = q.size
        /\ v.cached = TRUE
    BY <1>1, <2>1 DEF Inquiries
  <2>4. ensemble # "weighted"
    BY <1>4 DEF ServiceInv
  <2> HIDE DEF v
  <2>5. SoundRequest(c)'
    BY <1>1, <1>2, <2>2, <2>3, <2>4 DEF SoundRequest
  <2> QED
    BY <1>1, <1>2, <2>2, <2>3, <2>5, OwnStep DEF ServiceInv, ServiceTyped
<1> QED
  BY <1>3, <1>4

\* What a request is shown of a model that nobody else has touched.
LEMMA ShownOwn ==
    ASSUME ServiceInv, NEW c \in Requests, At(c, "ask"), request[c].alone,
           request[c].kind = "forecast" \/ request[c].size >= 4,
           NEW m \in Informed(request[c].kind)
    PROVE  Shown(m) \subseteq {c}
<1> DEFINE q == request[c]
<1>1. q \in Inquiries /\ q.left = {} /\ q.pc = "ask"
      /\ (\A k \in Models(q.kind) \ q.left : q.size >= Profile[k].min)
  BY InquiryType DEF ServiceInv, SoundRequest, At
<1>2. Undisturbed(c, q.kind, q.left, q.size)
  BY <1>1, KindsApart DEF ServiceInv, SoundRequest
<1>3. m \in Models(q.kind) /\ m \in Names
  BY <1>1, KindsApart DEF Informed, Combined, Best, Models, Inquiries
<1>4. q.size >= Profile[m].takes
  <2>1. Profile[m].takes \in Nat /\ q.size \in Nat
    BY <1>1, <1>3, ProfileFacts DEF Inquiries
  <2>2. CASE q.kind = "forecast"
    <3>1. "holt_winters" \in Models(q.kind) /\ m \in Forecasters /\ "holt_winters" \in Names
      BY <1>3, <2>2 DEF Models, Forecasters, Names
    <3>2. q.size >= Profile["holt_winters"].min
      BY <1>1, <3>1
    <3>3. Profile[m].takes <= Profile["holt_winters"].min /\ Profile["holt_winters"].min \in Nat
      BY <3>1, ProfileFacts
    <3> QED
      BY <2>1, <3>2, <3>3
  <2>3. CASE q.kind # "forecast"
    <3>1. m \in Detectors
      BY <1>3, <2>3 DEF Models
    <3>2. Profile[m].takes <= 4 /\ q.size >= 4
      BY <2>3, <3>1, ProfileFacts
    <3> QED
      BY <2>1, <3>2
  <2> QED
    BY <2>2, <2>3
<1>5. c \notin models[m].inside
  BY <1>1, <1>3 DEF ServiceInv, InsideInv, At
<1>6. models[m].inside = {} /\ models[m].of = {c}
  BY <1>1, <1>2, <1>3, <1>4, <1>5 DEF Undisturbed
<1> QED
  BY <1>6 DEF Shown

LEMMA AskSound ==
    ASSUME ServiceInv, NEW c \in Requests, Ask(c)
    PROVE  ServiceInv'
<1> DEFINE q == request[c]  of == UNION {Shown(m) : m \in Informed(q.kind)}
<1>1. q \in Inquiries /\ q.pc = "ask" /\ SoundRequest(c) /\ UNCHANGED <<ensemble, models, cache, dead>>
  BY InquiryType DEF Ask, At, ServiceInv
<1>2. CASE q.kind = "forecast" /\ WeightsPanic
  <2>1. Goto(c, "aborted")
    BY <1>2 DEF Ask
  <2> QED
    BY <1>1, <2>1, EndSound
<1>3. CASE ~(q.kind = "forecast" /\ WeightsPanic)
  <2> DEFINE pc == IF q.kind = "forecast" THEN "store" ELSE "done"
             v == [q EXCEPT !.pc = pc, !.of = of]
  <2>1. request' = [request EXCEPT ![c] = v] /\ request'[c] = v
    BY <1>3 DEF Ask, ServiceInv, ServiceTyped
  <2>2. of \in SUBSET Requests
    <3>1. \A m \in Names : Shown(m) \subseteq Requests
      BY DEF Shown, ServiceInv, ServiceTyped, Sharing
    <3>2. Informed(q.kind) \subseteq Names
      BY DEF Informed, Combined, Best, Names
    <3> QED
      BY <3>1, <3>2
  <2>3. of \subseteq {c} \/ ~q.alone \/ (q.kind = "detect" /\ q.size < 4)
    <3>1. q.kind \in {"forecast", "detect"} /\ q.size \in Nat
      BY <1>1 DEF Inquiries
    <3>2. ASSUME q.alone, q.kind = "forecast" \/ q.size >= 4 PROVE of \subseteq {c}
      BY <1>1, <3>2, ShownOwn DEF At
    <3> QED
      BY <3>1, <3>2
  <2> HIDE DEF of
  <2>4. /\ v \in Inquiries /\ v.left = q.left /\ v.kind = q.kind /\ v.size = q.size
        /\ v.alone = q.alone /\ v.of = of
        /\ v.pc = IF q.kind = "forecast" THEN "store" ELSE "done"
    BY <1>1, <2>2 DEF Inquiries
  <2>5. q.kind = "forecast" => ensemble # "weighted"
    BY <1>3 DEF WeightsPanic
  <2> HIDE DEF v
  <2>6. SoundRequest(c)'
    BY <1>1, <2>1, <2>3, <2>4, <2>5 DEF SoundRequest, Undisturbed
  <2> QED
    BY <1>1, <2>1, <2>4, <2>6, OwnStep DEF ServiceInv, ServiceTyped
<1> QED
  BY <1>2, <1>3

LEMMA StoreSound ==
    ASSUME ServiceInv, NEW c \in Requests, StoreCache(c)
    PROVE  ServiceInv'
<1> DEFINE q == request[c]  v == [q EXCEPT !.pc = "done"]
<1>1. q \in Inquiries /\ q.pc = "store" /\ SoundRequest(c) /\ UNCHANGED <<ensemble, models, dead>>
  BY InquiryType DEF StoreCache, At, ServiceInv
<1>2. request' = [request EXCEPT ![c] = v] /\ request'[c] = v
  BY DEF StoreCache, Goto, ServiceInv, ServiceTyped
<1>3. v \in Inquiries /\ v.pc = "done" /\ v.left = q.left /\ v.kind = q.kind /\ v.size = q.size
      /\ v.alone = q.alone /\ v.of = q.of /\ v.cached = q.cached
  BY <1>1 DEF Inquiries
<1>4. cache' = <<q.of>> /\ q.of \in SUBSET Requests
  BY <1>1 DEF StoreCache, Inquiries
<1>5. ensemble # "weighted"
  BY <1>1 DEF SoundRequest
<1> HIDE DEF v
<1>6. SoundRequest(c)'
  BY <1>1, <1>2, <1>3 DEF SoundRequest
<1> QED
  BY <1>1, <1>2, <1>3, <1>4, <1>5, <1>6, OwnStep

LEMMA EnterSound ==
    ASSUME ServiceInv, NEW c \in Requests, NEW m \in Names, EnterModel(c, m)
    PROVE  ServiceInv'
<1> DEFINE q == request[c]  M == models[m]
           writers == (IF M.inside = {} THEN {} ELSE M.writers)
                        \cup (IF q.size >= Profile[m].takes THEN {c} ELSE {})
           alone == q.alone /\ Rivals(c) = {}
           N == [M EXCEPT !.inside = M.inside \cup {c}, !.writers = writers]
           v == [q EXCEPT !.pc = "inside", !.left = q.left \ {m}, !.alone = alone]
<1>1. q \in Inquiries /\ q.pc = "train" /\ SoundRequest(c) /\ UNCHANGED <<ensemble, cache, dead>>
      /\ m \in q.left /\ q.size >= Profile[m].min
  BY InquiryType DEF EnterModel, At, ServiceInv
<1>2. m \in Models(q.kind)
  BY <1>1 DEF SoundRequest
<1>3. models' = [models EXCEPT ![m] = N]
  BY DEF EnterModel
<1>4. /\ request'[c] = v
      /\ \A d \in Rivals(c) : request'[d] = [request[d] EXCEPT !.alone = FALSE]
      /\ \A d \in Requests \ {c} : d \notin Rivals(c) => request'[d] = request[d]
      /\ DOMAIN request' = Requests /\ request' = [d \in Requests |-> request'[d]]
  BY DEF EnterModel, Rivals
<1>5. M \in Sharing /\ writers \in SUBSET Requests
  BY DEF ServiceInv, ServiceTyped, Sharing
<1>6. N \in Sharing /\ N.inside = M.inside \cup {c} /\ N.writers = writers /\ N.of = M.of
  <2> HIDE DEF writers
  <2> QED
    BY <1>5 DEF Sharing
<1> HIDE DEF N
<1>7. /\ models' \in [Names -> Sharing] /\ models'[m] = N
      /\ \A k \in Names \ {m} : models'[k] = models[k]
  BY <1>3, <1>6 DEF ServiceInv, ServiceTyped
<1>8. alone \in BOOLEAN
  BY <1>1 DEF Inquiries
<1>9. /\ v \in Inquiries /\ v.pc = "inside" /\ v.left = q.left \ {m} /\ v.kind = q.kind
      /\ v.size = q.size /\ v.alone = alone
  <2> HIDE DEF alone
  <2> QED
    BY <1>1, <1>8 DEF Inquiries
<1> HIDE DEF v
\* A rival notices nothing but that it is not alone.
<1>10. ASSUME NEW d \in Rivals(c)
       PROVE  /\ request[d] \in Inquiries /\ request'[d] \in Inquiries /\ d \in Requests \ {c}
              /\ request'[d].pc = request[d].pc /\ request'[d].left = request[d].left
              /\ request'[d].kind = request[d].kind /\ request'[d].size = request[d].size
              /\ request'[d].alone = FALSE
  <2>1. d \in Requests \ {c} /\ request[d].pc \notin {"new", "refused"}
    BY DEF Rivals
  <2>2. request[d] \in Inquiries
    BY <2>1, InquiryType DEF ServiceInv
  <2>3. request'[d] = [request[d] EXCEPT !.alone = FALSE]
    BY <1>4
  <2> QED
    BY <2>1, <2>2, <2>3 DEF Inquiries
<1>11. ServiceTyped'
  <2>1. \A d \in Requests : request'[d] \in {New, [pc |-> "refused"]} \cup Inquiries
    BY <1>4, <1>9, <1>10 DEF ServiceInv, ServiceTyped
  <2> QED
    BY <1>1, <1>4, <1>7, <2>1 DEF ServiceInv, ServiceTyped
\* It was nowhere inside.
<1>12. \A k \in Names : c \notin models[k].inside
  BY <1>1 DEF ServiceInv, InsideInv, At
<1>13. InsideInv'
  <2>1. ASSUME NEW k \in Names, NEW d \in models'[k].inside
        PROVE  At(d, "inside")' /\ k \in Models(request'[d].kind) \ request'[d].left
    <3>1. CASE d = c
      <4>1. k = m
        BY <1>7, <1>12, <2>1, <3>1
      <4> QED
        BY <1>2, <1>4, <1>9, <3>1, <4>1 DEF At
    <3>2. CASE d # c
      <4>1. d \in models[k].inside
        BY <1>6, <1>7, <2>1, <3>2
      <4>2. request[d].pc = "inside" /\ k \in Models(request[d].kind) \ request[d].left /\ d \in Requests
        BY <4>1 DEF ServiceInv, InsideInv, At, ServiceTyped, Sharing
      <4> QED
        BY <1>4, <1>10, <3>2, <4>2 DEF At
    <3> QED
      BY <3>1, <3>2
  <2>2. \A j, k \in Names : models'[j].inside \cap models'[k].inside # {} => j = k
    BY <1>6, <1>7, <1>12 DEF ServiceInv, InsideInv
  <2> QED
    BY <2>1, <2>2 DEF InsideInv
<1>14. ASSUME NEW d \in Rivals(c) PROVE SoundRequest(d)'
  <2>1. SoundRequest(d)
    BY <1>10 DEF ServiceInv
  <2>2. request[d].pc \in {"train", "inside", "cache", "ask", "store"}
    BY DEF Rivals
  <2> QED
    BY <1>1, <1>10, <2>1, <2>2 DEF SoundRequest
<1>15. ASSUME NEW d \in Requests \ {c}, d \notin Rivals(c) PROVE SoundRequest(d)'
  <2>1. SoundRequest(d) /\ request'[d] = request[d]
    BY <1>4, <1>15 DEF ServiceInv
  <2>2. ASSUME request[d].pc \in {"train", "inside", "cache", "ask", "store"}
        PROVE  \A k \in Models(request[d].kind) : models'[k] = models[k]
    <3>1. request[d].kind # q.kind
      BY <1>15, <2>2 DEF Rivals
    <3>2. request[d].kind \in {"forecast", "detect"} /\ q.kind \in {"forecast", "detect"}
      BY <1>1, <2>2, InquiryType DEF Inquiries, ServiceInv
    <3>3. m \notin Models(request[d].kind)
      BY <1>2, <3>1, <3>2, KindsApart
    <3> QED
      BY <1>7, <3>3, KindsApart
  <2> QED
    BY <1>1, <2>1, <2>2 DEF SoundRequest, Undisturbed
<1>16. SoundRequest(c)'
  <2>1. ASSUME v.alone PROVE Undisturbed(c, request[c].kind, request[c].left, request[c].size)'
    <3>1. q.alone /\ Rivals(c) = {}
      BY <1>9, <2>1
    <3>2. \A k \in Models(q.kind) : models[k].inside = {}
      <4> SUFFICES ASSUME NEW k \in Models(q.kind), NEW d \in models[k].inside PROVE FALSE
        OBVIOUS
      <4>1. k \in Names
        BY KindsApart
      <4>2. d \in Requests /\ request[d].pc = "inside" /\ k \in Models(request[d].kind) /\ d # c
        BY <1>12, <4>1 DEF ServiceInv, InsideInv, At, ServiceTyped, Sharing
      <4>3. request[d].kind \in {"forecast", "detect"} /\ q.kind \in {"forecast", "detect"}
        BY <1>1, <4>2, InquiryType DEF Inquiries, ServiceInv
      <4>4. request[d].kind = q.kind
        BY <4>2, <4>3, KindsApart
      <4> QED
        BY <3>1, <4>2, <4>4 DEF Rivals
    <3>3. ASSUME NEW k \in Models(q.kind)
          PROVE  /\ models'[k].inside \subseteq {c}
                 /\ k \notin v.left /\ q.size >= Profile[k].takes =>
                       IF models'[k].inside = {} THEN models'[k].of = {c} ELSE models'[k].writers = {c}
      <4>1. CASE k = m
        <5>1. q.size >= Profile[m].takes => writers = {c}
          BY <1>2, <3>2
        <5>2. models'[k].inside = {c} /\ models'[k].writers = writers
          BY <1>2, <1>6, <1>7, <3>2, <4>1
        <5> HIDE DEF writers
        <5> QED
          BY <4>1, <5>1, <5>2
      <4>2. CASE k # m
        <5>1. models'[k] = models[k] /\ models[k].inside = {}
          BY <1>7, <3>2, <4>2, KindsApart
        <5>2. k \notin v.left => k \notin q.left
          BY <1>9, <4>2
        <5>3. k \notin q.left => Undisturbed(c, q.kind, q.left, q.size)
          BY <1>1, <3>1 DEF SoundRequest
        <5> QED
          BY <5>1, <5>2, <5>3 DEF Undisturbed
      <4> QED
        BY <4>1, <4>2
    <3> QED
      BY <1>4, <1>9, <3>3 DEF Undisturbed
  <2>2. \A k \in Models(v.kind) \ v.left : v.size >= Profile[k].min
    BY <1>1, <1>9 DEF SoundRequest
  <2>3. v.left \subseteq Models(v.kind)
    BY <1>1, <1>9 DEF SoundRequest
  <2> QED
    BY <1>4, <1>9, <2>1, <2>2, <2>3 DEF SoundRequest
<1> QED
  BY <1>1, <1>11, <1>13, <1>14, <1>15, <1>16 DEF ServiceInv

LEMMA LeaveSound ==
    ASSUME ServiceInv, NEW c \in Requests, LeaveModel(c)
    PROVE  ServiceInv'
<1> DEFINE q == request[c]
           pc == IF q.left # {} THEN "train" ELSE IF q.kind = "forecast" THEN "cache" ELSE "ask"
           v == [q EXCEPT !.pc = pc]
<1>1. q \in Inquiries /\ q.pc = "inside" /\ SoundRequest(c) /\ UNCHANGED <<ensemble, cache, dead>>
  BY InquiryType DEF LeaveModel, At, ServiceInv
<1>2. PICK m \in Names : LET M == models[m] IN
         /\ c \in M.inside
         /\ models' = [models EXCEPT ![m] =
                [M EXCEPT !.inside = M.inside \ {c},
                          !.of = IF M.inside = {c} /\ M.writers # {} THEN M.writers ELSE M.of]]
  BY DEF LeaveModel, ServiceInv, ServiceTyped
<1> DEFINE M == models[m]
           of == IF M.inside = {c} /\ M.writers # {} THEN M.writers ELSE M.of
           N == [M EXCEPT !.inside = M.inside \ {c}, !.of = of]
<1>3. M \in Sharing /\ of \in SUBSET Requests
  BY DEF ServiceInv, ServiceTyped, Sharing
<1>4. N \in Sharing /\ N.inside = M.inside \ {c} /\ N.writers = M.writers /\ N.of = of
  <2> HIDE DEF of
  <2> QED
    BY <1>3 DEF Sharing
<1>5. models' = [models EXCEPT ![m] = N]
  BY <1>2
<1> HIDE DEF N
<1>6. /\ models' \in [Names -> Sharing] /\ models'[m] = N
      /\ \A k \in Names \ {m} : models'[k] = models[k]
  BY <1>4, <1>5 DEF ServiceInv, ServiceTyped
<1>7. request' = [request EXCEPT ![c] = v] /\ request'[c] = v
      /\ \A d \in Requests \ {c} : request'[d] = request[d]
  BY DEF LeaveModel, Goto, ServiceInv, ServiceTyped
<1>8. /\ v \in Inquiries /\ v.pc = pc /\ v.left = q.left /\ v.kind = q.kind
      /\ v.size = q.size /\ v.alone = q.alone
  BY <1>1 DEF Inquiries
<1> HIDE DEF v
<1>9. ServiceTyped'
  BY <1>1, <1>6, <1>7, <1>8 DEF ServiceInv, ServiceTyped
<1>10. m \in Models(q.kind) \ q.left /\ \A k \in Names \ {m} : c \notin models[k].inside
  BY <1>2 DEF ServiceInv, InsideInv
<1>11. InsideInv'
  <2>1. ASSUME NEW k \in Names, NEW d \in models'[k].inside
        PROVE  d # c /\ d \in models[k].inside /\ d \in Requests
    BY <1>3, <1>4, <1>6, <1>10, <2>1 DEF ServiceInv, ServiceTyped, Sharing
  <2>2. ASSUME NEW k \in Names, NEW d \in models'[k].inside
        PROVE  At(d, "inside")' /\ k \in Models(request'[d].kind) \ request'[d].left
    BY <1>7, <2>1, <2>2 DEF ServiceInv, InsideInv, At
  <2>3. \A j, k \in Names : models'[j].inside \cap models'[k].inside # {} => j = k
    BY <2>1 DEF ServiceInv, InsideInv
  <2> QED
    BY <2>2, <2>3 DEF InsideInv
<1>12. ASSUME NEW d \in Requests \ {c} PROVE SoundRequest(d)'
  <2>1. SoundRequest(d) /\ request'[d] = request[d]
    BY <1>7 DEF ServiceInv
  <2>2. ASSUME Undisturbed(d, request[d].kind, request[d].left, request[d].size)
        PROVE  \A k \in Models(request[d].kind) : models'[k] = models[k]
    <3>1. m \notin Models(request[d].kind)
      BY <1>2, <2>2 DEF Undisturbed
    <3> QED
      BY <1>6, <3>1, KindsApart
  <2> QED
    BY <1>1, <2>1, <2>2 DEF SoundRequest, Undisturbed
<1>13. SoundRequest(c)'
  <2>1. ASSUME v.alone PROVE Undisturbed(c, request[c].kind, request[c].left, request[c].size)'
    <3>1. Undisturbed(c, q.kind, q.left, q.size)
      BY <1>1, <1>8, <1>10, <2>1 DEF SoundRequest
    <3>2. ASSUME NEW k \in Models(q.kind)
          PROVE  /\ models'[k].inside \subseteq {c}
                 /\ k \notin q.left /\ q.size >= Profile[k].takes =>
                       IF models'[k].inside = {} THEN models'[k].of = {c} ELSE models'[k].writers = {c}
      <4>1. CASE k = m
        <5>1. M.inside = {c} /\ (q.size >= Profile[m].takes => M.writers = {c})
          BY <1>2, <1>10, <3>1 DEF Undisturbed
        <5>2. models'[k].inside = {} /\ models'[k].of = of
          BY <1>4, <1>6, <4>1, <5>1
        <5> QED
          BY <4>1, <5>1, <5>2
      <4>2. CASE k # m
        <5>1. models'[k] = models[k]
          BY <1>6, <4>2, KindsApart
        <5> QED
          BY <3>1, <5>1 DEF Undisturbed
      <4> QED
        BY <4>1, <4>2
    <3> QED
      BY <1>7, <1>8, <3>2 DEF Undisturbed
  <2>2. v.pc \in {"train", "cache", "ask"} /\ (v.pc \in {"cache", "ask"} => v.left = {})
    BY <1>8
  <2> QED
    BY <1>1, <1>7, <1>8, <2>1, <2>2 DEF SoundRequest
<1> QED
  BY <1>1, <1>9, <1>11, <1>12, <1>13 DEF ServiceInv

LEMMA ServiceGoesOn == ServiceInv /\ [ServiceNext]_serviceVars => ServiceInv'
<1> SUFFICES ASSUME ServiceInv, [ServiceNext]_serviceVars PROVE ServiceInv'
  OBVIOUS
<1>1. DOMAIN models = Names
  BY DEF ServiceInv, ServiceTyped
<1>2. ASSUME models' = models, request' = request, ensemble' = ensemble,
             cache' = cache \/ cache' = <<>>, dead' \in BOOLEAN
      PROVE  ServiceInv'
  <2>1. ServiceTyped' /\ InsideInv'
    BY <1>2 DEF ServiceInv, ServiceTyped, InsideInv, At
  <2>2. \A c \in Requests : SoundRequest(c)'
    BY <1>2, UnmovedSound DEF ServiceInv
  <2> QED
    BY <1>2, <2>1, <2>2 DEF ServiceInv
<1>3. ASSUME NEW c \in Requests, NEW size \in Sizes, GenerateForecast(c, size) \/ DetectAnomalies(c, size)
      PROVE  ServiceInv'
  BY <1>3, FetchSound, MLAssumption DEF GenerateForecast, DetectAnomalies
<1>4. ASSUME NEW c \in Requests, FetchFails(c) PROVE ServiceInv'
  BY <1>4, EndSound DEF FetchFails
<1>5. ASSUME NEW c \in Requests, NEW m \in Names, TrainFails(c, m) PROVE ServiceInv'
  BY <1>5, EndSound DEF TrainFails, At
<1>6. ASSUME ExpireCache \/ Crash \/ UNCHANGED serviceVars PROVE ServiceInv'
  BY <1>2, <1>6 DEF ExpireCache, Crash, serviceVars, ServiceInv, ServiceTyped
<1> QED
  BY <1>1, <1>3, <1>4, <1>5, <1>6, EnterSound, LeaveSound, CacheSound, AskSound, StoreSound DEF ServiceNext

LEMMA ServiceInvariant == ServiceSpec => []ServiceInv
  BY ServiceStart, ServiceGoesOn, PTL DEF ServiceSpec

\* The models, the cache and the requests stay what they are.
THEOREM ServiceWellTyped == ServiceSpec => []ServiceTypeOK
<1>1. ServiceInv => ServiceTypeOK
  <2> SUFFICES ASSUME ServiceInv PROVE ServiceTypeOK
    OBVIOUS
  <2>1. \A m \in DOMAIN models : models[m].of \subseteq Requests /\ models[m].inside \subseteq Requests
    BY DEF ServiceInv, ServiceTyped, Sharing
  <2>2. \A c \in Requests : request[c].pc \in {"new", "refused", "train", "inside", "failed", "cache",
                                               "ask", "aborted", "store", "done"}
    BY DEF ServiceInv, ServiceTyped, Inquiries, New
  <2>3. cache = <<>> \/ cache[1] \subseteq Requests
    BY DEF ServiceInv, ServiceTyped
  <2> QED
    BY <2>1, <2>2, <2>3 DEF ServiceInv, ServiceTyped, ServiceTypeOK
<1> QED
  BY <1>1, ServiceInvariant, PTL

\* The requests share their models without a lock, and yet an answer rests on the
\* points of its own series, but for the cache, a request of the same kind that
\* was under way with it, and a detection with too few points for the quartiles.
THEOREM AnswersAlwaysOwn == ServiceSpec => []OwnAnswers
<1>1. ServiceInv => OwnAnswers
  <2> SUFFICES ASSUME ServiceInv, NEW c \in Requests, At(c, "done")
               PROVE  /\ \/ request[c].of \subseteq {c}
                         \/ request[c].cached \/ ~request[c].alone
                         \/ request[c].kind = "detect" /\ request[c].size < 4
                      /\ request[c].kind = "forecast" => ensemble # "weighted"
    BY DEF OwnAnswers
  <2>1. SoundRequest(c) /\ request[c].pc = "done"
    BY DEF ServiceInv, At
  <2> QED
    BY <2>1 DEF SoundRequest
<1> QED
  BY <1>1, ServiceInvariant, PTL
-----------------------------------------------------------------------------
(* Both side by side.                                                      *)

\* Where only one of the two moves, each behaves as it does alone: what is proved
\* of either holds in MCAnalytics too.
LEMMA EachAsAlone == AnalyticsSpec => AnomalySpec /\ ServiceSpec
<1>1. AnalyticsInit => AnomalyInit /\ ServiceInit
  BY DEF AnalyticsInit
<1>2. [AnalyticsNext]_<<part, anomalyVars, serviceVars>>
         => [AnomalyNext]_anomalyVars /\ [ServiceNext]_serviceVars
  BY DEF AnalyticsNext, EngineStep, ServiceStep
<1> QED
  BY <1>1, <1>2, PTL DEF AnalyticsSpec, AnomalySpec, ServiceSpec

\* Both packages of analytics keep the types and the bounds of what they hold, the
\* windows of the detectors and the stored results among them.
THEOREM AnalyticsWellTyped == AnalyticsSpec => []AnalyticsTypeOK
<1>1. AnomalyTypeOK /\ ServiceTypeOK => AnalyticsTypeOK
  BY DEF AnalyticsTypeOK
<1> QED
  BY <1>1, EachAsAlone, EngineWellTyped, ServiceWellTyped, PTL
=============================================================================
