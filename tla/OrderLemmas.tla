------------------------------- MODULE OrderLemmas -------------------------------
(***************************************************************************)
(* What the proofs need of numbers and orders: the least number of a set,  *)
(* induction and recursion over an interval, and ranks in a finite order.  *)
(***************************************************************************)
EXTENDS Integers, FiniteSets, FiniteSetTheorems, FunctionTheorems, WellFoundedInduction, TLAPS

(***************************************************************************)
(* The least-number principle, and the existence of functions defined by   *)
(* recursion over an interval.                                             *)
(***************************************************************************)
LEMMA LeastNatural ==
  ASSUME NEW T, T \subseteq Nat, T # {}
  PROVE  \E m \in T : \A k \in T : m <= k
<1>1. IsWellFoundedOn(OpToRel(<, Nat), Nat)
  BY NatLessThanWellFounded
<1>2. PICK m \in T : \A k \in T : ~(<< k, m >> \in OpToRel(<, Nat))
  BY <1>1, WFMin
<1>3. \A k \in T : ~(k < m)
  BY <1>2 DEF OpToRel
<1>4. QED
  BY <1>3

LEMMA Interval ==
  ASSUME NEW n \in Nat, NEW Good,
         0 \in Good,
         \A m \in 1..n : m - 1 \in Good => m \in Good
  PROVE  \A m \in 0..n : m \in Good
<1> DEFINE Bad == { m \in 0..n : m \notin Good }
<1>1. SUFFICES ASSUME Bad # {} PROVE FALSE
  OBVIOUS
<1>2. Bad \subseteq Nat
  OBVIOUS
<1>3. PICK m \in Bad : \A k \in Bad : m <= k
  <2> HIDE DEF Bad
  <2>1. QED
    BY <1>1, <1>2, LeastNatural
<1>4. m \in 1..n
  BY <1>3
<1>5. m - 1 \in 0..n /\ m - 1 \notin Bad
  BY <1>3, <1>4
<1>6. QED
  BY <1>3, <1>4, <1>5

Iterates(g, n, base, step) ==
  /\ g[0] = base
  /\ \A i \in 1..n : g[i] = step[i][g[i - 1]]

LEMMA Recursion ==
  ASSUME NEW n \in Nat, NEW S, NEW base \in S, NEW step \in [1..n -> [S -> S]]
  PROVE  \E g \in [0..n -> S] : Iterates(g, n, base, step)
<1> DEFINE Good == { m \in 0..n : \E g \in [0..m -> S] : Iterates(g, m, base, step) }
<1>1. 0 \in Good
  <2>1. [i \in 0..0 |-> base] \in [0..0 -> S]
    OBVIOUS
  <2>2. Iterates([i \in 0..0 |-> base], 0, base, step)
    BY DEF Iterates
  <2>3. QED
    BY <2>1, <2>2
<1>2. ASSUME NEW m \in 1..n, m - 1 \in Good
      PROVE  m \in Good
  <2>1. PICK g \in [0..(m - 1) -> S] : Iterates(g, m - 1, base, step)
    BY <1>2
  <2> DEFINE next == step[m][g[m - 1]]
             h == [i \in 0..m |-> IF i = m THEN next ELSE g[i]]
  <2>2. next \in S
    <3>1. step[m] \in [S -> S] /\ g[m - 1] \in S
      OBVIOUS
    <3>2. QED
      BY <3>1
  <2>3. h \in [0..m -> S]
    BY <2>2
  <2>4. Iterates(h, m, base, step)
    <3>1. h[0] = base
      BY <2>1 DEF Iterates
    <3>2. ASSUME NEW i \in 1..m PROVE h[i] = step[i][h[i - 1]]
      <4>1. h[i - 1] = g[i - 1]
        OBVIOUS
      <4>2. CASE i = m
        BY <4>1, <4>2
      <4>3. CASE i # m
        <5>1. i \in 1..(m - 1) /\ h[i] = g[i]
          BY <4>3
        <5>2. QED
          BY <5>1, <4>1, <2>1 DEF Iterates
      <4>4. QED
        BY <4>2, <4>3
    <3>3. QED
      BY <3>1, <3>2 DEF Iterates
  <2>5. QED
    BY <2>3, <2>4
<1>3. n \in Good
  <2> HIDE DEF Good
  <2>1. \A m \in 0..n : m \in Good
    BY <1>1, <1>2, Interval
  <2>2. QED
    BY <2>1
<1>4. QED
  BY <1>3

(***************************************************************************)
(* The dual: a bounded, or finite, set of numbers has a greatest.          *)
(***************************************************************************)
LEMMA GreatestNatural ==
  ASSUME NEW n \in Nat, NEW T, T \subseteq 0..n, T # {}
  PROVE  \E m \in T : \A k \in T : k <= m
<1> DEFINE U == { u \in 0..n : n - u \in T }
<1>1. U \subseteq Nat /\ U # {}
  <2>1. PICK k \in T : TRUE
    OBVIOUS
  <2>2. k \in 0..n
    OBVIOUS
  <2>3. n - k \in U
    BY <2>2
  <2>4. U \subseteq Nat
    OBVIOUS
  <2>5. QED
    <3> HIDE DEF U
    <3>1. QED
      BY <2>3, <2>4
<1>2. PICK u \in U : \A k \in U : u <= k
  <2> HIDE DEF U
  <2>1. QED
    BY <1>1, LeastNatural
<1>3. PICK m \in T : m = n - u
  BY <1>2
<1>4. ASSUME NEW k \in T PROVE k <= m
  <2>1. k \in 0..n /\ n - k \in U
    OBVIOUS
  <2>2. u <= n - k
    BY <2>1, <1>2
  <2>3. k \in 0..n /\ m \in 0..n
    OBVIOUS
  <2>4. QED
    BY <2>2, <2>3, <1>3
<1>5. QED
  BY <1>4

LEMMA FiniteIsBounded ==
  ASSUME NEW S, IsFiniteSet(S), S \subseteq Nat
  PROVE  \E b \in Nat : S \subseteq 0..b
<1>1. PICK n \in Nat : ExistsSurjection(1..n, S)
  BY FS_NatSurjection
<1>2. PICK f \in [1..n -> S] : \A s \in S : \E i \in 1..n : f[i] = s
  BY <1>1 DEF ExistsSurjection, Surjection
<1> DEFINE Good == { m \in 0..n : \E b \in Nat : \A i \in 1..m : f[i] <= b }
<1>3. 0 \in Good
  BY 0 \in Nat
<1>4. ASSUME NEW m \in 1..n, m - 1 \in Good PROVE m \in Good
  <2>1. PICK b \in Nat : \A i \in 1..(m - 1) : f[i] <= b
    BY <1>4
  <2>2. f[m] \in Nat
    OBVIOUS
  <2>3. b + f[m] \in Nat /\ \A i \in 1..m : f[i] <= b + f[m]
    <3>1. ASSUME NEW i \in 1..m PROVE f[i] <= b + f[m]
      <4>1. f[i] \in Nat
        <5>1. i \in 1..n
          OBVIOUS
        <5>2. f[i] \in S
          BY <5>1, <1>2
        <5>3. QED
          BY <5>2
      <4>2. i = m \/ f[i] <= b
        BY <2>1
      <4>3. QED
        BY <4>1, <4>2, <2>2
    <3>2. QED
      BY <3>1, <2>2
  <2>4. QED
    BY <2>3
<1>5. n \in Good
  <2> HIDE DEF Good
  <2>1. \A m \in 0..n : m \in Good
    BY <1>3, <1>4, Interval
  <2>2. QED
    BY <2>1
<1>6. PICK b \in Nat : \A i \in 1..n : f[i] <= b
  BY <1>5
<1>7. ASSUME NEW s \in S PROVE s \in 0..b
  BY <1>2, <1>6
<1>8. QED
  BY <1>7

(***************************************************************************)
(* Recursion in which a value may depend on all earlier ones: step[i] maps *)
(* what is known below i to the value at i.                                *)
(***************************************************************************)
LooksBack(step, n, V) ==
  \A i \in 1..n : \A f, g \in [1..n -> V] :
    (\A j \in 1..(i - 1) : f[j] = g[j]) => step[i][f] = step[i][g]

Obeys(f, step, n) == \A i \in 1..n : f[i] = step[i][f]

LEMMA CourseOfValues ==
  ASSUME NEW n \in Nat, NEW V, V # {}, NEW step \in [1..n -> [[1..n -> V] -> V]],
         LooksBack(step, n, V)
  PROVE  \E f \in [1..n -> V] : Obeys(f, step, n)
<1> DEFINE Fixed(f, m) == \A i \in 1..m : f[i] = step[i][f]
           Good == { m \in 0..n : \E f \in [1..n -> V] : Fixed(f, m) }
<1>1. 0 \in Good
  <2>1. PICK v \in V : TRUE
    OBVIOUS
  <2> DEFINE g == [i \in 1..n |-> v]
  <2>2. g \in [1..n -> V] /\ Fixed(g, 0)
    OBVIOUS
  <2>3. QED
    <3> HIDE DEF g
    <3>1. QED
      BY <2>2
<1>2. ASSUME NEW m \in 1..n, m - 1 \in Good PROVE m \in Good
  <2>1. PICK f \in [1..n -> V] : Fixed(f, m - 1)
    BY <1>2
  <2> DEFINE g == [f EXCEPT ![m] = step[m][f]]
  <2>2. step[m][f] \in V
    <3>1. step[m] \in [[1..n -> V] -> V]
      OBVIOUS
    <3>2. QED
      BY <3>1
  <2>3. g \in [1..n -> V]
    BY <2>2
  <2>4. \A j \in 1..(m - 1) : f[j] = g[j]
    OBVIOUS
  <2>5. ASSUME NEW i \in 1..m PROVE g[i] = step[i][g]
    <3>1. i \in 1..n /\ \A j \in 1..(i - 1) : f[j] = g[j]
      BY <2>4
    <3>2. step[i][f] = step[i][g]
      <4> HIDE DEF g
      <4>1. QED
        BY <3>1, <2>3 DEF LooksBack
    <3>3. g[i] = step[i][f]
      BY <2>1
    <3>4. QED
      BY <3>2, <3>3
  <2>6. QED
    <3> HIDE DEF g
    <3>1. QED
      BY <2>3, <2>5
<1>3. n \in Good
  <2> HIDE DEF Good
  <2>1. \A m \in 0..n : m \in Good
    BY <1>1, <1>2, Interval
  <2>2. QED
    BY <2>1
<1>4. QED
  BY <1>3 DEF Obeys

-------------------------------------------------------------------------------
(***************************************************************************)
(* In a finite set with a linear order, an element's rank is how many      *)
(* elements do not follow it.  Ranks are ordered like the elements and are *)
(* the numbers from 1 to the size of the set.                              *)
(***************************************************************************)
IsLinearOrder(R, I) ==
  /\ \A i, j \in I : << i, j >> \in R \/ << j, i >> \in R
  /\ \A i, j \in I : << i, j >> \in R /\ << j, i >> \in R => i = j
  /\ \A i, j, k \in I : << i, j >> \in R /\ << j, k >> \in R => << i, k >> \in R

Below(R, I, i) == { j \in I : << j, i >> \in R }

LEMMA RankBounds ==
  ASSUME NEW I, IsFiniteSet(I), NEW R, IsLinearOrder(R, I), NEW i \in I
  PROVE  /\ IsFiniteSet(Below(R, I, i))
         /\ Cardinality(Below(R, I, i)) \in 1..Cardinality(I)
<1>1. Below(R, I, i) \in SUBSET I /\ i \in Below(R, I, i)
  BY DEF Below, IsLinearOrder
<1>2. /\ IsFiniteSet(Below(R, I, i)) /\ Cardinality(Below(R, I, i)) <= Cardinality(I)
  BY <1>1, FS_Subset
<1>3. Cardinality(Below(R, I, i)) \in Nat /\ Cardinality(I) \in Nat
  BY <1>2, FS_CardinalityType
<1>4. Cardinality(Below(R, I, i)) # 0
  BY <1>1, <1>2, FS_EmptySet
<1> QED BY <1>2, <1>3, <1>4

LEMMA RankOrder ==
  ASSUME NEW I, IsFiniteSet(I), NEW R, IsLinearOrder(R, I), NEW i \in I, NEW j \in I,
         i # j, << i, j >> \in R
  PROVE  Cardinality(Below(R, I, i)) < Cardinality(Below(R, I, j))
<1>1. Below(R, I, i) \in SUBSET Below(R, I, j)
  BY DEF Below, IsLinearOrder
<1>2. j \in Below(R, I, j) /\ j \notin Below(R, I, i)
  BY DEF Below, IsLinearOrder
<1>3. IsFiniteSet(Below(R, I, j)) /\ Cardinality(Below(R, I, j)) \in Nat
      /\ Cardinality(Below(R, I, i)) \in Nat
  BY RankBounds
<1>4. /\ Cardinality(Below(R, I, i)) <= Cardinality(Below(R, I, j))
      /\ Cardinality(Below(R, I, j)) = Cardinality(Below(R, I, i))
           => Below(R, I, j) = Below(R, I, i)
  BY <1>1, <1>3, FS_Subset
<1> QED BY <1>2, <1>3, <1>4

LEMMA RanksAreDense ==
  ASSUME NEW I, IsFiniteSet(I), NEW R, IsLinearOrder(R, I)
  PROVE  /\ Cardinality(I) \in Nat
         /\ \A n \in 1..Cardinality(I) : \E i \in I : Cardinality(Below(R, I, i)) = n
<1> DEFINE rank == [i \in I |-> Cardinality(Below(R, I, i))]
           N == Cardinality(I)
<1>1. N \in Nat /\ IsFiniteSet(1..N) /\ Cardinality(1..N) = N
  BY FS_CardinalityType, FS_Interval
<1>2. \A i, j \in I : rank[i] = rank[j] => i = j
  <2> SUFFICES ASSUME NEW i \in I, NEW j \in I, i # j PROVE rank[i] # rank[j]
    OBVIOUS
  <2>1. << i, j >> \in R \/ << j, i >> \in R
    BY DEF IsLinearOrder
  <2>2. rank[i] < rank[j] \/ rank[j] < rank[i]
    BY <2>1, RankOrder
  <2>3. rank[i] \in Nat /\ rank[j] \in Nat
    BY RankBounds
  <2> QED BY <2>2, <2>3
<1>3. rank \in [I -> 1..N]
  BY RankBounds
<1> HIDE DEF rank
<1>4. rank \in Injection(I, 1..N)
  BY <1>2, <1>3, Fun_IsInj
<1>5. rank \in Surjection(I, 1..N)
  BY <1>1, <1>4, FS_Injection
<1>6. \A n \in 1..N : \E i \in I : rank[i] = n
  BY <1>5, Fun_SurjectionProperties
<1> QED BY <1>1, <1>6 DEF rank

(***************************************************************************)
(* Comparing two keys of the same length lexicographically.                *)
(***************************************************************************)
LexLess(k, l) == \E i \in DOMAIN k : k[i] < l[i] /\ \A j \in 1..(i - 1) : k[j] = l[j]

LEMMA LexicographicOrder ==
  ASSUME NEW n \in Nat, NEW k \in [1..n -> Int], NEW l \in [1..n -> Int], NEW m \in [1..n -> Int]
  PROVE  /\ k # l => LexLess(k, l) \/ LexLess(l, k)
         /\ ~(LexLess(k, l) /\ LexLess(l, k))
         /\ ~LexLess(k, k)
         /\ LexLess(k, l) /\ LexLess(l, m) => LexLess(k, m)
<1>1. ASSUME k # l PROVE LexLess(k, l) \/ LexLess(l, k)
  <2> DEFINE Differ == { i \in 1..n : k[i] # l[i] }
  <2>1. Differ \subseteq Nat /\ Differ # {}
    BY <1>1
  <2>2. PICK i \in Differ : \A j \in Differ : i <= j
    <3> HIDE DEF Differ
    <3>1. QED
      BY <2>1, LeastNatural
  <2>3. \A j \in 1..(i - 1) : k[j] = l[j]
    BY <2>2
  <2>4. k[i] < l[i] \/ l[i] < k[i]
    BY <2>2
  <2>5. QED
    BY <2>2, <2>3, <2>4 DEF LexLess
<1>2. ~(LexLess(k, l) /\ LexLess(l, k))
  BY DEF LexLess
<1>3. ~LexLess(k, k)
  BY DEF LexLess
<1>4. ASSUME LexLess(k, l), LexLess(l, m) PROVE LexLess(k, m)
  <2>1. PICK i \in 1..n : k[i] < l[i] /\ \A j \in 1..(i - 1) : k[j] = l[j]
    BY <1>4 DEF LexLess
  <2>2. PICK h \in 1..n : l[h] < m[h] /\ \A j \in 1..(h - 1) : l[j] = m[j]
    BY <1>4 DEF LexLess
  <2>3. CASE i <= h
    <3>1. k[i] < m[i]
      <4>1. i = h \/ i \in 1..(h - 1)
        BY <2>3
      <4>2. l[i] < m[i] \/ l[i] = m[i]
        BY <4>1, <2>2
      <4>3. k[i] \in Int /\ l[i] \in Int /\ m[i] \in Int
        OBVIOUS
      <4>4. QED
        BY <4>2, <4>3, <2>1
    <3>2. \A j \in 1..(i - 1) : k[j] = m[j]
      BY <2>1, <2>2, <2>3
    <3>3. QED
      BY <3>1, <3>2 DEF LexLess
  <2>4. CASE h < i
    <3>1. k[h] < m[h]
      BY <2>1, <2>2, <2>4
    <3>2. \A j \in 1..(h - 1) : k[j] = m[j]
      BY <2>1, <2>2, <2>4
    <3>3. QED
      BY <3>1, <3>2 DEF LexLess
  <2>5. QED
    BY <2>3, <2>4
<1>5. QED
  BY <1>1, <1>2, <1>3, <1>4
===============================================================================
