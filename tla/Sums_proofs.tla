------------------------------ MODULE Sums_proofs ------------------------------
(***************************************************************************)
(* Facts about sums, for all numbers of summands.                          *)
(***************************************************************************)
EXTENDS Sums, FiniteSetTheorems, TLAPS

\* Every non-empty set of natural numbers has a least element.
LEMMA LeastElement ==
  ASSUME NEW T, T \subseteq Nat, T # {}
  PROVE  \E m \in T : \A k \in T : m <= k
<1> DEFINE R == OpToRel(<, Nat)
<1>1. IsWellFoundedOn(R, Nat)
  BY NatLessThanWellFounded
<1>2. \A j, k \in Nat : j < k => <<j, k>> \in R
  BY DEF OpToRel
<1> HIDE DEF R
<1>3. PICK m \in T : \A k \in T : <<k, m>> \notin R
  BY <1>1, WFMin
<1>4. ASSUME NEW k \in T PROVE m <= k
  <2>1. ~(k < m) /\ k \in Nat /\ m \in Nat
    BY <1>2, <1>3
  <2> QED
    BY <2>1
<1> QED
  BY <1>4

\* Induction, with the property given as the set of numbers that have it.
LEMMA SetInduction ==
  ASSUME NEW S, 0 \in S, \A n \in Nat : n \in S => n + 1 \in S
  PROVE  Nat \subseteq S
<1> SUFFICES ASSUME Nat \ S # {} PROVE FALSE
  OBVIOUS
<1>1. PICK m \in Nat \ S : \A k \in Nat \ S : m <= k
  BY LeastElement
<1>2. m # 0
  OBVIOUS
<1>3. m - 1 \in Nat
  BY <1>2
<1>4. m - 1 \in S
  BY <1>1, <1>3
<1>5. (m - 1) + 1 \in S
  BY <1>3, <1>4
<1> QED
  BY <1>5

-----------------------------------------------------------------------------
(* The recursive function of SumTo exists: its initial segments do, they agree *)
(* with each other, and their last values make up the function.                *)
IsSegment(h, g, n) ==
  /\ h = [i \in 0..n |-> h[i]]
  /\ h[0] = 0
  /\ \A i \in 1..n : h[i] = h[i - 1] + g[i]

LEMMA SegmentExists == \A g : \A n \in Nat : \E h : IsSegment(h, g, n)
<1> SUFFICES ASSUME NEW g PROVE \A n \in Nat : \E h : IsSegment(h, g, n)
  OBVIOUS
<1> DEFINE S == {n \in Nat : \E h : IsSegment(h, g, n)}
<1>1. 0 \in S
  <2> DEFINE h == [i \in 0..0 |-> 0]
  <2>1. h[0] = 0 /\ h = [i \in 0..0 |-> h[i]] /\ 1..0 = {}
    OBVIOUS
  <2>2. IsSegment(h, g, 0)
    BY <2>1 DEF IsSegment
  <2> QED
    BY <2>2
<1>2. ASSUME NEW n \in Nat, n \in S PROVE n + 1 \in S
  <2>1. PICK h : IsSegment(h, g, n)
    BY <1>2
  <2> DEFINE k == [i \in 0..(n + 1) |-> IF i = n + 1 THEN h[n] + g[n + 1] ELSE h[i]]
  <2>2. /\ k[n + 1] = h[n] + g[n + 1]
        /\ \A i \in 0..n : k[i] = h[i]
        /\ k = [i \in 0..(n + 1) |-> k[i]]
    OBVIOUS
  <2> HIDE DEF k
  <2>3. k[0] = 0
    <3>1. h[0] = 0 /\ 0 \in 0..n
      BY <2>1 DEF IsSegment
    <3> QED
      BY <2>2, <3>1
  <2>4. ASSUME NEW i \in 1..(n + 1) PROVE k[i] = k[i - 1] + g[i]
    <3>1. CASE i = n + 1
      <4>1. k[i - 1] = h[n]
        BY <2>2, <3>1
      <4> QED
        BY <2>2, <3>1, <4>1
    <3>2. CASE i # n + 1
      <4>1. i \in 1..n /\ i \in 0..n /\ i - 1 \in 0..n
        BY <3>2
      <4> QED
        BY <2>1, <2>2, <4>1 DEF IsSegment
    <3> QED
      BY <3>1, <3>2
  <2>5. IsSegment(k, g, n + 1)
    BY <2>2, <2>3, <2>4 DEF IsSegment
  <2> QED
    BY <2>5
<1> HIDE DEF S
<1>3. Nat \subseteq S
  BY <1>1, <1>2, SetInduction
<1> QED
  BY <1>3 DEF S

LEMMA SegmentsAgree ==
  ASSUME NEW g, NEW n \in Nat, NEW m \in Nat, NEW h, NEW k,
         IsSegment(h, g, n), IsSegment(k, g, m)
  PROVE  \A i \in Nat : i <= n /\ i <= m => h[i] = k[i]
<1> DEFINE S == {i \in Nat : i <= n /\ i <= m => h[i] = k[i]}
<1>1. 0 \in S
  BY DEF IsSegment
<1>2. ASSUME NEW i \in Nat, i \in S PROVE i + 1 \in S
  <2>1. CASE i + 1 <= n /\ i + 1 <= m
    <3>1. h[i] = k[i] /\ (i + 1) - 1 = i
      BY <1>2, <2>1
    <3>2. i + 1 \in 1..n /\ i + 1 \in 1..m
      BY <2>1
    <3>3. /\ h[i + 1] = h[(i + 1) - 1] + g[i + 1]
          /\ k[i + 1] = k[(i + 1) - 1] + g[i + 1]
      BY <3>2 DEF IsSegment
    <3>4. h[i + 1] = k[i + 1]
      BY <3>1, <3>3
    <3> QED
      BY <3>4
  <2> QED
    BY <2>1
<1> HIDE DEF S
<1>3. Nat \subseteq S
  BY <1>1, <1>2, SetInduction
<1> QED
  BY <1>3 DEF S

SumStep(g, h, i) == IF i = 0 THEN 0 ELSE h[i - 1] + g[i]

LEMMA RecursionExists == \A g : \E h : h = [i \in Nat |-> SumStep(g, h, i)]
<1> SUFFICES ASSUME NEW g PROVE \E h : h = [i \in Nat |-> SumStep(g, h, i)]
  OBVIOUS
<1> DEFINE c(n) == CHOOSE h : IsSegment(h, g, n)
           F == [n \in Nat |-> c(n)[n]]
<1>1. ASSUME NEW n \in Nat PROVE IsSegment(c(n), g, n)
  BY SegmentExists
<1> HIDE DEF c
<1>2. ASSUME NEW n \in Nat PROVE F[n] = SumStep(g, F, n)
  <2>1. CASE n = 0
    BY <1>1, <2>1 DEF IsSegment, SumStep
  <2>2. CASE n # 0
    <3>1. n - 1 \in Nat /\ n \in 1..n /\ n - 1 <= n
      BY <2>2
    <3>2. c(n)[n] = c(n)[n - 1] + g[n]
      BY <1>1, <3>1 DEF IsSegment
    <3>3. IsSegment(c(n), g, n) /\ IsSegment(c(n - 1), g, n - 1)
      BY <1>1, <3>1
    <3>4. c(n)[n - 1] = c(n - 1)[n - 1]
      BY <3>1, <3>3, SegmentsAgree
    <3> QED
      BY <2>2, <3>1, <3>2, <3>4 DEF SumStep
  <2> QED
    BY <2>1, <2>2
<1>3. F = [n \in Nat |-> F[n]]
  OBVIOUS
<1> HIDE DEF F
<1>4. F = [n \in Nat |-> SumStep(g, F, n)]
  BY <1>2, <1>3
<1> QED
  BY <1>4

LEMMA SumToStep ==
  ASSUME NEW g
  PROVE  /\ SumTo(g, 0) = 0
         /\ \A n \in Nat : SumTo(g, n + 1) = SumTo(g, n) + g[n + 1]
<1> DEFINE sum == CHOOSE h : h = [i \in Nat |-> SumStep(g, h, i)]
<1>1. sum = [i \in Nat |-> SumStep(g, sum, i)]
  BY RecursionExists
<1>2. \A n : SumTo(g, n) = sum[n]
  BY DEF SumTo, SumStep
<1> HIDE DEF sum
<1>3. sum[0] = 0
  BY <1>1 DEF SumStep
<1>4. ASSUME NEW n \in Nat PROVE sum[n + 1] = sum[n] + g[n + 1]
  <2>1. n + 1 \in Nat /\ n + 1 # 0 /\ (n + 1) - 1 = n
    OBVIOUS
  <2>2. sum[n + 1] = SumStep(g, sum, n + 1)
    BY <1>1, <2>1
  <2> QED
    BY <2>1, <2>2 DEF SumStep
<1> QED
  BY <1>2, <1>3, <1>4

-----------------------------------------------------------------------------
(* Sums of the first values. *)
LEMMA SumToType ==
  ASSUME NEW n \in Nat, NEW g, \A i \in 1..n : g[i] \in Int
  PROVE  SumTo(g, n) \in Int
<1> DEFINE S == {k \in Nat : k <= n => SumTo(g, k) \in Int}
<1>1. 0 \in S
  BY SumToStep
<1>2. ASSUME NEW k \in Nat, k \in S PROVE k + 1 \in S
  <2>1. CASE k + 1 <= n
    <3>1. SumTo(g, k) \in Int /\ g[k + 1] \in Int
      BY <1>2, <2>1
    <3>2. SumTo(g, k + 1) = SumTo(g, k) + g[k + 1]
      BY SumToStep
    <3> QED
      BY <3>1, <3>2
  <2> QED
    BY <2>1
<1> HIDE DEF S
<1>3. n \in S
  BY <1>1, <1>2, SetInduction
<1> QED
  BY <1>3 DEF S

\* A sum depends only on its summands, and grows with them.
LEMMA SumToMono ==
  ASSUME NEW n \in Nat, NEW g, NEW h,
         \A i \in 1..n : g[i] \in Int /\ h[i] \in Int /\ g[i] <= h[i]
  PROVE  SumTo(g, n) <= SumTo(h, n)
<1> DEFINE S == {k \in Nat : k <= n => SumTo(g, k) <= SumTo(h, k)}
<1>1. 0 \in S
  BY SumToStep
<1>2. ASSUME NEW k \in Nat, k \in S PROVE k + 1 \in S
  <2>1. CASE k + 1 <= n
    <3>1. /\ g[k + 1] \in Int /\ h[k + 1] \in Int /\ g[k + 1] <= h[k + 1]
          /\ SumTo(g, k) <= SumTo(h, k)
          /\ \A i \in 1..k : g[i] \in Int /\ h[i] \in Int
      BY <1>2, <2>1
    <3>2. /\ SumTo(g, k + 1) = SumTo(g, k) + g[k + 1]
          /\ SumTo(h, k + 1) = SumTo(h, k) + h[k + 1]
      BY SumToStep
    <3>3. SumTo(g, k) \in Int /\ SumTo(h, k) \in Int
      BY <3>1, SumToType
    <3> QED
      BY <3>1, <3>2, <3>3
  <2> QED
    BY <2>1
<1> HIDE DEF S
<1>3. n \in S
  BY <1>1, <1>2, SetInduction
<1> QED
  BY <1>3 DEF S

\* More summands, none of them negative, make no smaller sum.
LEMMA SumToTail ==
  ASSUME NEW m \in Nat, NEW n \in Nat, m <= n, NEW g, \A i \in 1..n : g[i] \in Nat
  PROVE  SumTo(g, m) <= SumTo(g, n)
<1> DEFINE S == {k \in Nat : m + k <= n => SumTo(g, m) <= SumTo(g, m + k)}
<1>1. \A k \in Nat : k <= n => SumTo(g, k) \in Int
  <2> SUFFICES ASSUME NEW k \in Nat, k <= n PROVE SumTo(g, k) \in Int
    OBVIOUS
  <2>1. \A i \in 1..k : g[i] \in Int
    OBVIOUS
  <2> QED
    BY <2>1, SumToType
<1>2. 0 \in S
  BY <1>1
<1>3. ASSUME NEW k \in Nat, k \in S PROVE k + 1 \in S
  <2>1. CASE m + (k + 1) <= n
    <3>1. SumTo(g, (m + k) + 1) = SumTo(g, m + k) + g[(m + k) + 1]
      BY SumToStep
    <3>2. g[(m + k) + 1] \in Nat /\ SumTo(g, m + k) \in Int /\ SumTo(g, m) \in Int
      BY <1>1, <2>1
    <3>3. SumTo(g, m) <= SumTo(g, m + k)
      BY <1>3, <2>1
    <3>4. m + (k + 1) = (m + k) + 1
      OBVIOUS
    <3> QED
      BY <3>1, <3>2, <3>3, <3>4
  <2> QED
    BY <2>1
<1> HIDE DEF S
<1>4. n - m \in S
  BY <1>2, <1>3, SetInduction
<1>5. m + (n - m) = n
  OBVIOUS
<1> QED
  BY <1>4, <1>5 DEF S

LEMMA SumToSame ==
  ASSUME NEW n \in Nat, NEW g, NEW h, \A i \in 1..n : g[i] = h[i]
  PROVE  SumTo(g, n) = SumTo(h, n)
<1> DEFINE S == {k \in Nat : k <= n => SumTo(g, k) = SumTo(h, k)}
<1>1. 0 \in S
  BY SumToStep
<1>2. ASSUME NEW k \in Nat, k \in S PROVE k + 1 \in S
  <2>1. CASE k + 1 <= n
    <3>1. g[k + 1] = h[k + 1] /\ SumTo(g, k) = SumTo(h, k)
      BY <1>2, <2>1
    <3>2. /\ SumTo(g, k + 1) = SumTo(g, k) + g[k + 1]
          /\ SumTo(h, k + 1) = SumTo(h, k) + h[k + 1]
      BY SumToStep
    <3> QED
      BY <3>1, <3>2
  <2> QED
    BY <2>1
<1> HIDE DEF S
<1>3. n \in S
  BY <1>1, <1>2, SetInduction
<1> QED
  BY <1>3 DEF S

\* A sum of sums.
LEMMA SumToAdd ==
  ASSUME NEW n \in Nat, NEW f, NEW g, NEW h,
         \A i \in 1..n : f[i] \in Int /\ g[i] \in Int /\ h[i] = f[i] + g[i]
  PROVE  SumTo(h, n) = SumTo(f, n) + SumTo(g, n)
<1> DEFINE S == {k \in Nat : k <= n => SumTo(h, k) = SumTo(f, k) + SumTo(g, k)}
<1>1. 0 \in S
  BY SumToStep
<1>2. ASSUME NEW k \in Nat, k \in S PROVE k + 1 \in S
  <2>1. CASE k + 1 <= n
    <3>1. /\ f[k + 1] \in Int /\ g[k + 1] \in Int /\ h[k + 1] = f[k + 1] + g[k + 1]
          /\ SumTo(h, k) = SumTo(f, k) + SumTo(g, k)
          /\ \A i \in 1..k : f[i] \in Int /\ g[i] \in Int
      BY <1>2, <2>1
    <3>2. /\ SumTo(f, k + 1) = SumTo(f, k) + f[k + 1]
          /\ SumTo(g, k + 1) = SumTo(g, k) + g[k + 1]
          /\ SumTo(h, k + 1) = SumTo(h, k) + h[k + 1]
      BY SumToStep
    <3>3. SumTo(f, k) \in Int /\ SumTo(g, k) \in Int
      BY <3>1, SumToType
    <3> QED
      BY <3>1, <3>2, <3>3
  <2> QED
    BY <2>1
<1> HIDE DEF S
<1>3. n \in S
  BY <1>1, <1>2, SetInduction
<1> QED
  BY <1>3 DEF S

\* A common factor.
LEMMA SumToScale ==
  ASSUME NEW n \in Nat, NEW c \in Int, NEW g, NEW h,
         \A i \in 1..n : g[i] \in Int /\ h[i] = c * g[i]
  PROVE  SumTo(h, n) = c * SumTo(g, n)
<1> DEFINE S == {k \in Nat : k <= n => SumTo(h, k) = c * SumTo(g, k)}
<1>1. 0 \in S
  BY SumToStep
<1>2. ASSUME NEW k \in Nat, k \in S PROVE k + 1 \in S
  <2>1. CASE k + 1 <= n
    <3>1. /\ g[k + 1] \in Int /\ h[k + 1] = c * g[k + 1]
          /\ SumTo(h, k) = c * SumTo(g, k)
          /\ \A i \in 1..k : g[i] \in Int
      BY <1>2, <2>1
    <3>2. /\ SumTo(g, k + 1) = SumTo(g, k) + g[k + 1]
          /\ SumTo(h, k + 1) = SumTo(h, k) + h[k + 1]
      BY SumToStep
    <3>3. SumTo(g, k) \in Int
      BY <3>1, SumToType
    <3>4. c * (SumTo(g, k) + g[k + 1]) = c * SumTo(g, k) + c * g[k + 1]
      BY <3>1, <3>3
    <3> QED
      BY <3>1, <3>2, <3>4
  <2> QED
    BY <2>1
<1> HIDE DEF S
<1>3. n \in S
  BY <1>1, <1>2, SetInduction
<1> QED
  BY <1>3 DEF S

LEMMA SumToZero ==
  ASSUME NEW n \in Nat, NEW g, \A i \in 1..n : g[i] = 0
  PROVE  SumTo(g, n) = 0
<1> DEFINE x == SumTo(g, n)
<1>1. x = x + x
  BY SumToAdd
<1>2. x \in Int
  BY SumToType
<1> HIDE DEF x
<1>3. x = 0
  BY <1>1, <1>2
<1> QED
  BY <1>3 DEF x

\* When one summand changes, the sum changes by as much.
LEMMA SumToChange ==
  ASSUME NEW n \in Nat, NEW g, NEW h, NEW j \in 1..n,
         \A i \in 1..n : g[i] \in Int /\ h[i] \in Int,
         \A i \in 1..n : i # j => h[i] = g[i]
  PROVE  SumTo(h, n) = SumTo(g, n) - g[j] + h[j]
<1> DEFINE S == {k \in Nat : k <= n =>
                   SumTo(h, k) = SumTo(g, k) + (IF k < j THEN 0 ELSE h[j] - g[j])}
<1>1. 0 \in S
  BY SumToStep
<1>2. ASSUME NEW k \in Nat, k \in S PROVE k + 1 \in S
  <2>1. CASE k + 1 <= n
    <3>1. /\ g[k + 1] \in Int /\ h[k + 1] \in Int /\ g[j] \in Int /\ h[j] \in Int
          /\ SumTo(h, k) = SumTo(g, k) + (IF k < j THEN 0 ELSE h[j] - g[j])
          /\ \A i \in 1..k : g[i] \in Int /\ h[i] \in Int
          /\ k + 1 # j => h[k + 1] = g[k + 1]
      BY <1>2, <2>1
    <3>2. /\ SumTo(g, k + 1) = SumTo(g, k) + g[k + 1]
          /\ SumTo(h, k + 1) = SumTo(h, k) + h[k + 1]
      BY SumToStep
    <3>3. SumTo(g, k) \in Int /\ SumTo(h, k) \in Int
      BY <3>1, SumToType
    <3>4. CASE k + 1 = j
      BY <3>1, <3>2, <3>3, <3>4
    <3>5. CASE k + 1 # j
      BY <3>1, <3>2, <3>3, <3>5
    <3> QED
      BY <3>4, <3>5
  <2> QED
    BY <2>1
<1> HIDE DEF S
<1>3. n \in S
  BY <1>1, <1>2, SetInduction
<1>4. SumTo(h, n) = SumTo(g, n) + (h[j] - g[j])
  BY <1>3 DEF S
<1>5. SumTo(g, n) \in Int /\ g[j] \in Int /\ h[j] \in Int
  BY SumToType
<1> QED
  BY <1>4, <1>5

-----------------------------------------------------------------------------
(* Sums over a finite set. *)
LEMMA ListingFacts ==
  ASSUME NEW S, IsFiniteSet(S)
  PROVE  Cardinality(S) \in Nat /\ IsListing(Listing(S), S)
<1> DEFINE n == Cardinality(S)
<1>1. n \in Nat /\ ExistsBijection(1..n, S)
  BY FS_CardinalityType
<1>2. PICK e : e \in Bijection(1..n, S)
  BY <1>1 DEF ExistsBijection
<1>3. /\ e \in [1..n -> S]
      /\ \A x \in S : \E i \in 1..n : e[i] = x
      /\ \A i, j \in 1..n : e[i] = e[j] => i = j
  BY <1>2 DEF Bijection, Injection, Surjection, IsInjective
<1>4. IsListing(e, S)
  BY <1>3 DEF IsListing
<1> QED
  BY <1>1, <1>3, <1>4 DEF Listing

LEMMA SumOverType ==
  ASSUME NEW S, IsFiniteSet(S), NEW f, \A x \in S : f[x] \in Int
  PROVE  SumOver(f, S) \in Int
<1> DEFINE n == Cardinality(S)
           e == Listing(S)
           g == [i \in 1..n |-> f[e[i]]]
<1>1. n \in Nat /\ \A i \in 1..n : e[i] \in S
  BY ListingFacts DEF IsListing
<1>2. \A i \in 1..n : g[i] \in Int
  BY <1>1
<1> HIDE DEF g
<1>3. SumTo(g, n) \in Int
  BY <1>1, <1>2, SumToType
<1> QED
  BY <1>3 DEF SumOver, g

LEMMA SumOverZero ==
  ASSUME NEW S, IsFiniteSet(S), NEW f, \A x \in S : f[x] = 0
  PROVE  SumOver(f, S) = 0
<1> DEFINE n == Cardinality(S)
           e == Listing(S)
           g == [i \in 1..n |-> f[e[i]]]
<1>1. n \in Nat /\ \A i \in 1..n : e[i] \in S
  BY ListingFacts DEF IsListing
<1>2. \A i \in 1..n : g[i] = 0
  BY <1>1
<1> HIDE DEF g
<1>3. SumTo(g, n) = 0
  BY <1>1, <1>2, SumToZero
<1> QED
  BY <1>3 DEF SumOver, g

LEMMA SumOverSame ==
  ASSUME NEW S, IsFiniteSet(S), NEW f, NEW h, \A x \in S : f[x] = h[x]
  PROVE  SumOver(f, S) = SumOver(h, S)
<1> DEFINE n == Cardinality(S)
           e == Listing(S)
           g == [i \in 1..n |-> f[e[i]]]
           k == [i \in 1..n |-> h[e[i]]]
<1>1. n \in Nat /\ \A i \in 1..n : e[i] \in S
  BY ListingFacts DEF IsListing
<1>2. \A i \in 1..n : g[i] = k[i]
  BY <1>1
<1> HIDE DEF g, k
<1>3. SumTo(g, n) = SumTo(k, n)
  BY <1>1, <1>2, SumToSame
<1> QED
  BY <1>3 DEF SumOver, g, k

LEMMA SumOverMono ==
  ASSUME NEW S, IsFiniteSet(S), NEW f, NEW h,
         \A x \in S : f[x] \in Int /\ h[x] \in Int /\ f[x] <= h[x]
  PROVE  SumOver(f, S) <= SumOver(h, S)
<1> DEFINE n == Cardinality(S)
           e == Listing(S)
           g == [i \in 1..n |-> f[e[i]]]
           k == [i \in 1..n |-> h[e[i]]]
<1>1. n \in Nat /\ \A i \in 1..n : e[i] \in S
  BY ListingFacts DEF IsListing
<1>2. \A i \in 1..n : g[i] \in Int /\ k[i] \in Int /\ g[i] <= k[i]
  BY <1>1
<1> HIDE DEF g, k
<1>3. SumTo(g, n) <= SumTo(k, n)
  BY <1>1, <1>2, SumToMono
<1> QED
  BY <1>3 DEF SumOver, g, k

LEMMA SumOverAdd ==
  ASSUME NEW S, IsFiniteSet(S), NEW f, NEW g, NEW h,
         \A x \in S : f[x] \in Int /\ g[x] \in Int /\ h[x] = f[x] + g[x]
  PROVE  SumOver(h, S) = SumOver(f, S) + SumOver(g, S)
<1> DEFINE n == Cardinality(S)
           e == Listing(S)
           a == [i \in 1..n |-> f[e[i]]]
           b == [i \in 1..n |-> g[e[i]]]
           c == [i \in 1..n |-> h[e[i]]]
<1>1. n \in Nat /\ \A i \in 1..n : e[i] \in S
  BY ListingFacts DEF IsListing
<1>2. \A i \in 1..n : a[i] \in Int /\ b[i] \in Int /\ c[i] = a[i] + b[i]
  BY <1>1
<1> HIDE DEF a, b, c
<1>3. SumTo(c, n) = SumTo(a, n) + SumTo(b, n)
  BY <1>1, <1>2, SumToAdd
<1> QED
  BY <1>3 DEF SumOver, a, b, c

LEMMA SumOverScale ==
  ASSUME NEW S, IsFiniteSet(S), NEW c \in Int, NEW f, NEW h,
         \A x \in S : f[x] \in Int /\ h[x] = c * f[x]
  PROVE  SumOver(h, S) = c * SumOver(f, S)
<1> DEFINE n == Cardinality(S)
           e == Listing(S)
           g == [i \in 1..n |-> f[e[i]]]
           k == [i \in 1..n |-> h[e[i]]]
<1>1. n \in Nat /\ \A i \in 1..n : e[i] \in S
  BY ListingFacts DEF IsListing
<1>2. \A i \in 1..n : g[i] \in Int /\ k[i] = c * g[i]
  BY <1>1
<1> HIDE DEF g, k
<1>3. SumTo(k, n) = c * SumTo(g, n)
  BY <1>1, <1>2, SumToScale
<1> QED
  BY <1>3 DEF SumOver, g, k

\* When the value at one element changes, the sum changes by as much.
LEMMA SumOverChange ==
  ASSUME NEW S, IsFiniteSet(S), NEW f, NEW h, NEW y \in S,
         \A x \in S : f[x] \in Int /\ h[x] \in Int,
         \A x \in S : x # y => h[x] = f[x]
  PROVE  SumOver(h, S) = SumOver(f, S) - f[y] + h[y]
<1> DEFINE n == Cardinality(S)
           e == Listing(S)
           g == [i \in 1..n |-> f[e[i]]]
           k == [i \in 1..n |-> h[e[i]]]
<1>1. n \in Nat /\ IsListing(e, S)
  BY ListingFacts
<1>2. PICK j \in 1..n : e[j] = y
  BY <1>1 DEF IsListing
<1>3. \A i \in 1..n : e[i] \in S /\ (i # j => e[i] # y)
  BY <1>1, <1>2 DEF IsListing
<1>4. /\ \A i \in 1..n : g[i] \in Int /\ k[i] \in Int
      /\ \A i \in 1..n : i # j => k[i] = g[i]
      /\ g[j] = f[y] /\ k[j] = h[y]
  BY <1>2, <1>3
<1> HIDE DEF g, k
<1>6. /\ \A i \in 1..n : g[i] \in Int /\ k[i] \in Int
      /\ \A i \in 1..n : i # j => k[i] = g[i]
  BY <1>4
<1>5. SumTo(k, n) = SumTo(g, n) - g[j] + k[j]
  <2> HIDE DEF n, e
  <2> QED
    BY <1>1, <1>2, <1>6, SumToChange
<1> QED
  BY <1>4, <1>5 DEF SumOver, g, k

-----------------------------------------------------------------------------
(* Products, and quotients rounded down. *)
LEMMA Quotient ==
  ASSUME NEW n \in Nat, NEW d \in Nat \ {0}
  PROVE  /\ n \div d \in Nat
         /\ d * (n \div d) <= n
         /\ n < d * (n \div d) + d
  OBVIOUS

\* A quotient is the greatest number with this property.
LEMMA QuotientGreatest ==
  ASSUME NEW n \in Nat, NEW d \in Nat \ {0}, NEW q \in Nat, d * q <= n
  PROVE  q <= n \div d
<1> DEFINE r == n \div d
<1>1. r \in Nat /\ n < d * r + d
  BY Quotient
<1> HIDE DEF r
<1>2. SUFFICES ASSUME r < q PROVE FALSE
  BY <1>1 DEF r
<1>3. r + 1 <= q
  BY <1>1, <1>2
<1>4. d * (r + 1) <= d * q
  BY <1>1, <1>3
<1>5. d * (r + 1) = d * r + d
  BY <1>1
<1> QED
  BY <1>1, <1>4, <1>5

LEMMA QuotientMono ==
  ASSUME NEW d \in Nat \ {0}, NEW m \in Nat, NEW n \in Nat, m <= n
  PROVE  m \div d <= n \div d
<1>1. m \div d \in Nat /\ d * (m \div d) <= m
  BY Quotient
<1>2. d * (m \div d) \in Int
  BY <1>1
<1>3. d * (m \div d) <= n
  BY <1>1, <1>2
<1> QED
  BY <1>1, <1>3, QuotientGreatest

\* Rounding down twice loses no less than rounding down once.
LEMMA QuotientAdd ==
  ASSUME NEW d \in Nat \ {0}, NEW m \in Nat, NEW n \in Nat
  PROVE  (m \div d) + (n \div d) <= (m + n) \div d
<1> DEFINE p == m \div d
           q == n \div d
<1>1. p \in Nat /\ q \in Nat /\ d * p <= m /\ d * q <= n
  BY Quotient
<1> HIDE DEF p, q
<1>2. d * (p + q) = d * p + d * q
  BY <1>1
<1>3. d * (p + q) <= m + n
  BY <1>1, <1>2
<1>4. p + q <= (m + n) \div d
  BY <1>1, <1>3, QuotientGreatest
<1> QED
  BY <1>4 DEF p, q

LEMMA ProductMono ==
  ASSUME NEW c \in Nat, NEW m \in Nat, NEW n \in Nat, m <= n
  PROVE  c * m \in Nat /\ c * n \in Nat /\ c * m <= c * n
<1>1. c * (n - m) \in Nat /\ c * n = c * m + c * (n - m) /\ c * m \in Nat
  <2>1. n - m \in Nat
    OBVIOUS
  <2> QED
    BY <2>1
<1> QED
  BY <1>1
=============================================================================
