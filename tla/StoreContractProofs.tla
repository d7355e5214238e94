--------------------------- MODULE StoreContractProofs ---------------------------
(***************************************************************************)
(* Proofs about StoreContract, for any number of clients, any tests of the *)
(* suite beside each other, any capacity and chunk size:                   *)
(*   - what the log holds is what the tests were told they have appended;  *)
(*   - no test of the suite is answered otherwise than it expects.         *)
(* The argument needs what the scripts of the suite are like, so that      *)
(* every test is looked at: it names only streams of its own run, an       *)
(* append expects to succeed exactly if it names the versions its script   *)
(* has reached, and what it reads is what it has appended or saved.        *)
(***************************************************************************)
EXTENDS StoreContract, OrderLemmas, SequenceTheorems, TLAPS

(***************************************************************************)
(* Counting: a part of 1..m and, behind it, a part of 1..n.                *)
(***************************************************************************)
Behind(m, B) == {m + j : j \in B}

Within(A, m) == A \subseteq 1..m

Adds(m, A, B) ==
  /\ Cardinality(A \cup Behind(m, B)) = Cardinality(A) + Cardinality(B)
  /\ Cardinality(A) \in Nat
  /\ Cardinality(B) \in Nat

LEMMA CountsAdd ==
  ASSUME NEW m \in Nat, NEW n \in Nat, NEW A, Within(A, m), NEW B, Within(B, n)
  PROVE  Adds(m, A, B)
<1>0. A \subseteq 1..m /\ B \subseteq 1..n
  BY DEF Within
<1>1. /\ IsFiniteSet(A) /\ IsFiniteSet(B)
      /\ Cardinality(A) \in Nat /\ Cardinality(B) \in Nat
  <2>1. IsFiniteSet(1..m) /\ IsFiniteSet(1..n) /\ Cardinality(1..n) = n
    BY FS_Interval
  <2>2. QED
    BY <1>0, <2>1, FS_Subset, FS_CardinalityType
<1> DEFINE g == [j \in B |-> m + j]
<1>2. g \in Bijection(B, Behind(m, B))
  <2>1. \A j, k \in B : m + j = m + k => j = k
    BY <1>0
  <2>2. QED
    BY <2>1 DEF Bijection, Injection, Surjection, IsInjective, Behind
<1>3. IsFiniteSet(Behind(m, B)) /\ Cardinality(Behind(m, B)) = Cardinality(B)
  <2> HIDE DEF g
  <2>1. ExistsBijection(B, Behind(m, B))
    BY <1>2 DEF ExistsBijection
  <2>2. QED
    BY <1>1, <2>1, FS_Bijection
<1>4. A \cap Behind(m, B) = {}
  BY <1>0 DEF Behind
<1>5. Cardinality(A \cup Behind(m, B)) = Cardinality(A) + Cardinality(Behind(m, B))
  <2>1. Cardinality(A \cap Behind(m, B)) = 0
    BY <1>4, FS_EmptySet
  <2>2. Cardinality(A \cup Behind(m, B))
          = Cardinality(A) + Cardinality(Behind(m, B)) - Cardinality(A \cap Behind(m, B))
    BY <1>1, <1>3, FS_Union
  <2>3. QED
    BY <1>1, <1>3, <2>1, <2>2
<1>6. QED
  BY <1>1, <1>3, <1>5 DEF Adds

\* the rows of `all`: m of `lg`, and n of `new` behind them
Joined(all, lg, new, m, n) ==
  /\ m \in Nat /\ n \in Nat
  /\ m = Len(lg) /\ n = Len(new)
  /\ DOMAIN lg = 1..m /\ DOMAIN new = 1..n /\ DOMAIN all = 1..(m + n)
  /\ \A i \in 1..m : all[i] = lg[i]
  /\ \A k \in 1..n : all[m + k] = new[k]

LEMMA ConcatJoins ==
  ASSUME NEW R, NEW lg \in Seq(R), NEW new \in Seq(R)
  PROVE  Joined(lg \o new, lg, new, Len(lg), Len(new))
<1>1. Len(lg) \in Nat /\ Len(new) \in Nat
  OBVIOUS
<1>2. /\ DOMAIN lg = 1..Len(lg) /\ DOMAIN new = 1..Len(new)
      /\ DOMAIN (lg \o new) = 1..(Len(lg) + Len(new))
  OBVIOUS
<1>3. \A i \in 1..Len(lg) : (lg \o new)[i] = lg[i]
  OBVIOUS
<1>4. \A k \in 1..Len(new) : (lg \o new)[Len(lg) + k] = new[k]
  OBVIOUS
<1>5. QED
  BY <1>1, <1>2, <1>3, <1>4, Zenon DEF Joined

\* a set of positions is made of those in front and those behind
Splits(T, A, B, m, n) ==
  /\ T \subseteq 1..(m + n)
  /\ A \subseteq 1..m
  /\ B \subseteq 1..n
  /\ \A i \in 1..m : i \in T <=> i \in A
  /\ \A k \in 1..n : m + k \in T <=> k \in B

LEMMA SplitIsUnion ==
  ASSUME NEW m \in Nat, NEW n \in Nat, NEW T, NEW A, NEW B, Splits(T, A, B, m, n)
  PROVE  T = A \cup Behind(m, B)
<1>1. ASSUME NEW i \in 1..(m + n), i \notin 1..m
      PROVE  i - m \in 1..n /\ i = m + (i - m)
  BY <1>1
<1>2. T \subseteq A \cup Behind(m, B)
  BY <1>1 DEF Splits, Behind
<1>3. A \subseteq T
  BY DEF Splits
<1>4. Behind(m, B) \subseteq T
  BY DEF Splits, Behind
<1>5. QED
  BY <1>2, <1>3, <1>4

\* how often a sequence holds a value
Count(seq, x) == Cardinality({j \in DOMAIN seq : seq[j] = x})

Sums(a, b, x) ==
  /\ Count(a \o b, x) = Count(a, x) + Count(b, x)
  /\ Count(a, x) \in Nat

LEMMA CountConcat ==
  ASSUME NEW S, NEW a \in Seq(S), NEW b \in Seq(S), NEW x
  PROVE  Sums(a, b, x)
<1> DEFINE A == {j \in 1..Len(a) : a[j] = x}
           B == {j \in 1..Len(b) : b[j] = x}
<1>1. {j \in DOMAIN (a \o b) : (a \o b)[j] = x} = A \cup Behind(Len(a), B)
  <2> DEFINE all == a \o b
             m == Len(a)
             n == Len(b)
  <2>1. Joined(all, a, b, m, n)
    BY ConcatJoins, Zenon
  <2> HIDE DEF all, m, n
  <2>2. Splits({j \in DOMAIN all : all[j] = x},
               {j \in 1..m : a[j] = x}, {j \in 1..n : b[j] = x}, m, n)
    <3>1. 1..m \subseteq 1..(m + n) /\ \A k \in 1..n : m + k \in 1..(m + n)
      BY <2>1 DEF Joined
    <3>2. QED
      BY <2>1, <3>1 DEF Splits, Joined
  <2>3. {j \in DOMAIN all : all[j] = x}
          = {j \in 1..m : a[j] = x} \cup Behind(m, {j \in 1..n : b[j] = x})
    BY <2>1, <2>2, SplitIsUnion DEF Joined
  <2>4. QED
    BY <2>3, Zenon DEF all, m, n
<1>2. Count(a, x) = Cardinality(A) /\ Count(b, x) = Cardinality(B)
  <2>1. {j \in DOMAIN a : a[j] = x} = A /\ {j \in DOMAIN b : b[j] = x} = B
    OBVIOUS
  <2>2. QED
    BY <2>1, Zenon DEF Count
<1>3. Cardinality(A \cup Behind(Len(a), B)) = Cardinality(A) + Cardinality(B)
      /\ Cardinality(A) \in Nat
  <2>1. A \subseteq 1..Len(a) /\ B \subseteq 1..Len(b) /\ Len(a) \in Nat /\ Len(b) \in Nat
    OBVIOUS
  <2> HIDE DEF A, B
  <2>2. Within(A, Len(a)) /\ Within(B, Len(b))
    BY <2>1 DEF Within
  <2>3. \A m, n \in Nat : Within(A, m) /\ Within(B, n) => Adds(m, A, B)
    BY CountsAdd
  <2>4. Adds(Len(a), A, B)
    BY <2>1, <2>2, <2>3
  <2>5. QED
    BY <2>4 DEF Adds
<1>4. QED
  BY <1>1, <1>2, <1>3 DEF Count, Sums

LEMMA CountOfOne ==
  ASSUME NEW x, NEW y
  PROVE  Count(<< x >>, y) = IF x = y THEN 1 ELSE 0
<1>1. x = y => {j \in DOMAIN << x >> : << x >>[j] = y} = {1}
  OBVIOUS
<1>2. x # y => {j \in DOMAIN << x >> : << x >>[j] = y} = {}
  OBVIOUS
<1>3. Cardinality({1}) = 1 /\ Cardinality({}) = 0
  BY FS_Singleton, FS_EmptySet
<1>4. QED
  BY <1>1, <1>2, <1>3 DEF Count

LEMMA CountOfNone ==
  ASSUME NEW y
  PROVE  Count(<< >>, y) = 0
<1>1. {j \in DOMAIN << >> : << >>[j] = y} = {}
  OBVIOUS
<1>2. QED
  BY <1>1, FS_EmptySet DEF Count

LEMMA CountOfTwo ==
  ASSUME NEW x, NEW y, NEW z, x # y
  PROVE  Count(<< x, y >>, z) = IF z \in {x, y} THEN 1 ELSE 0
<1> DEFINE J == {j \in DOMAIN << x, y >> : << x, y >>[j] = z}
<1>1. (z = x => J = {1}) /\ (z = y => J = {2}) /\ (z \notin {x, y} => J = {})
  OBVIOUS
<1>2. Cardinality({1}) = 1 /\ Cardinality({2}) = 1 /\ Cardinality({}) = 0
  BY FS_Singleton, FS_EmptySet
<1>3. Count(<< x, y >>, z) = Cardinality(J)
  BY DEF Count
<1>4. QED
  BY <1>1, <1>2, <1>3

-------------------------------------------------------------------------------
(***************************************************************************)
(* Flattening: the recursive function it stands for, and what one more     *)
(* sequence adds.                                                          *)
(***************************************************************************)
Joins(q, f) == [i \in 1..Len(q) |-> IF i = 1 THEN q[i] ELSE f[i - 1] \o q[i]]

LEMMA FlattenChosen ==
  ASSUME NEW q, Len(q) # 0
  PROVE  FlattenSeq(q) = (CHOOSE f : f = Joins(q, f))[Len(q)]
BY Zenon DEF FlattenSeq, Joins

SequencesOf(n, S) == [1..n -> Seq(S)]

Flattens(f, n, q) ==
  /\ f[1] = q[1]
  /\ \A i \in 2..n : f[i] = f[i - 1] \o q[i]
  /\ FlattenSeq(q) = f[n]

LEMMA FlattenEquation ==
  ASSUME NEW S, NEW n \in Nat, n # 0, NEW q \in SequencesOf(n, S)
  PROVE  \E f \in SequencesOf(n, S) : Flattens(f, n, q)
<1> DEFINE V == Seq(S)
           next == [i \in 1..n |-> [f \in [1..n -> V] |-> IF i = 1 THEN q[i] ELSE f[i - 1] \o q[i]]]
<1>1. Len(q) = n /\ \A i \in 1..n : q[i] \in V
  BY DEF SequencesOf
<1>2. next \in [1..n -> [[1..n -> V] -> V]]
  <2>1. ASSUME NEW i \in 1..n, NEW f \in [1..n -> V], i # 1 PROVE f[i - 1] \o q[i] \in V
    <3>1. i - 1 \in 1..n
      BY <2>1
    <3>2. f[i - 1] \in V /\ q[i] \in V
      BY <1>1, <3>1
    <3>3. QED
      BY <3>2
  <2>2. QED
    BY <1>1, <2>1
<1>3. LooksBack(next, n, V)
  <2>1. ASSUME NEW i \in 1..n, NEW f \in [1..n -> V], NEW g \in [1..n -> V],
               \A j \in 1..(i - 1) : f[j] = g[j]
        PROVE  next[i][f] = next[i][g]
    <3>1. CASE i = 1
      BY <3>1
    <3>2. CASE i # 1
      <4>1. f[i - 1] = g[i - 1]
        BY <2>1, <3>2, <1>1
      <4>2. QED
        BY <4>1, <3>2
    <3>3. QED
      BY <3>1, <3>2
  <2> HIDE DEF next, V
  <2>2. QED
    BY <2>1 DEF LooksBack
<1>4. PICK g \in [1..n -> V] : Obeys(g, next, n)
  <2>1. V # {}
    BY << >> \in Seq(S)
  <2> HIDE DEF next, V
  <2>2. QED
    BY <1>1, <1>2, <1>3, <2>1, CourseOfValues
<1>5. g = Joins(q, g)
  <2>1. ASSUME NEW i \in 1..n PROVE g[i] = IF i = 1 THEN q[i] ELSE g[i - 1] \o q[i]
    BY <1>4 DEF Obeys
  <2>2. g = [i \in 1..n |-> g[i]]
    OBVIOUS
  <2>3. QED
    BY <1>1, <2>1, <2>2 DEF Joins
<1> DEFINE h == CHOOSE f : f = Joins(q, f)
<1>6. h = Joins(q, h)
  BY <1>5, Zenon
<1>7. h = [i \in 1..n |-> IF i = 1 THEN q[i] ELSE h[i - 1] \o q[i]]
  BY <1>1, <1>6, Zenon DEF Joins
<1>8. FlattenSeq(q) = h[n]
  <2>1. Len(q) # 0
    BY <1>1
  <2>2. QED
    BY <1>1, <2>1, FlattenChosen, Zenon
<1> HIDE DEF h
<1>9. /\ h[1] = q[1]
      /\ \A i \in 2..n : h[i] = h[i - 1] \o q[i]
  <2>1. ASSUME NEW i \in 1..n PROVE h[i] = IF i = 1 THEN q[i] ELSE h[i - 1] \o q[i]
    BY <1>7, Zenon
  <2>2. 1 \in 1..n /\ \A i \in 2..n : i \in 1..n /\ i # 1
    OBVIOUS
  <2>3. QED
    BY <2>1, <2>2, Zenon
<1>10. \A i \in 0..n : i # 0 => h[i] \in V
  <2> DEFINE Good == {i \in 0..n : i # 0 => h[i] \in V}
  <2>1. 0 \in Good
    OBVIOUS
  <2>2. ASSUME NEW i \in 1..n, i - 1 \in Good PROVE i \in Good
    <3>1. CASE i = 1
      BY <3>1, <1>1, <1>9
    <3>2. CASE i # 1
      <4>1. h[i - 1] \in V /\ q[i] \in V
        BY <2>2, <3>2, <1>1
      <4>2. h[i - 1] \o q[i] \in V
        BY <4>1
      <4>3. i \in 2..n
        BY <3>2
      <4>4. h[i] = h[i - 1] \o q[i]
        BY <4>3, <1>9, Zenon
      <4>5. h[i] \in V
        BY <4>2, <4>4, Zenon
      <4>6. QED
        BY <4>5
    <3>3. QED
      BY <3>1, <3>2
  <2>3. \A i \in 0..n : i \in Good
    <3> HIDE DEF Good
    <3>1. QED
      BY <2>1, <2>2, Interval
  <2>4. QED
    BY <2>3
<1>11. h \in [1..n -> V]
  <2>1. DOMAIN h = 1..n /\ h = [i \in 1..n |-> h[i]]
    BY <1>7
  <2>2. \A i \in 1..n : h[i] \in V
    BY <1>10
  <2> HIDE DEF V
  <2>3. QED
    BY <2>1, <2>2
<1>12. QED
  BY <1>8, <1>9, <1>11 DEF Flattens, SequencesOf

LEMMA FlattenGrows ==
  ASSUME NEW S, NEW n \in Nat, n # 0, NEW q \in [1..n -> Seq(S)]
  PROVE  /\ FlattenSeq(q) \in Seq(S)
         /\ FlattenSeq(q) = FlattenSeq([i \in 1..(n - 1) |-> q[i]]) \o q[n]
<1> DEFINE p == [i \in 1..(n - 1) |-> q[i]]
<1>1. q[n] \in Seq(S)
  OBVIOUS
<1>2. PICK f \in SequencesOf(n, S) : Flattens(f, n, q)
  BY FlattenEquation DEF SequencesOf
<1> USE DEF Flattens, SequencesOf
<1>3. CASE n = 1
  <2>1. p = << >>
    BY <1>3
  <2>2. FlattenSeq(<< >>) = << >>
    BY DEF FlattenSeq
  <2>3. << >> \o q[1] = q[1] /\ q[1] \in Seq(S)
    BY <1>1, <1>3
  <2>4. QED
    BY <1>2, <1>3, <2>1, <2>2, <2>3
<1>4. CASE n # 1
  <2>1. n - 1 \in Nat /\ n - 1 # 0 /\ p \in [1..(n - 1) -> Seq(S)]
    BY <1>4
  <2>2. PICK g \in SequencesOf(n - 1, S) : Flattens(g, n - 1, p)
    <3> HIDE DEF p, Flattens
    <3>1. p \in SequencesOf(n - 1, S)
      BY <2>1
    <3> HIDE DEF SequencesOf
    <3>2. \A k \in Nat : k # 0 /\ p \in SequencesOf(k, S) =>
            \E g \in SequencesOf(k, S) : Flattens(g, k, p)
      BY FlattenEquation
    <3>3. QED
      BY <2>1, <3>1, <3>2
  <2> DEFINE Good == {i \in 0..(n - 1) : i # 0 => f[i] = g[i]}
  <2>3. 0 \in Good
    BY <1>4
  <2>4. ASSUME NEW i \in 1..(n - 1), i - 1 \in Good PROVE i \in Good
    <3>1. CASE i = 1
      BY <3>1, <1>2, <2>2, <1>4
    <3>2. CASE i # 1
      <4>1. f[i - 1] = g[i - 1] /\ i \in 2..n /\ i \in 2..(n - 1) /\ p[i] = q[i]
        BY <2>4, <3>2
      <4>2. f[i] = f[i - 1] \o q[i] /\ g[i] = g[i - 1] \o p[i]
        BY <4>1, <1>2, <2>2
      <4>3. f[i] = g[i]
        BY <4>1, <4>2, Zenon
      <4>4. QED
        BY <4>3
    <3>3. QED
      BY <3>1, <3>2
  <2>5. \A i \in 0..(n - 1) : i \in Good
    <3>1. n - 1 \in Nat
      OBVIOUS
    <3> HIDE DEF Good
    <3>2. QED
      BY <2>3, <2>4, <3>1, Interval
  <2>6. f[n - 1] = g[n - 1]
    BY <2>5, <1>4
  <2>7. f[n] = f[n - 1] \o q[n] /\ f[n] \in Seq(S)
    <3>1. n \in 2..n /\ n \in 1..n
      BY <1>4
    <3>2. QED
      BY <1>2, <3>1
  <2>8. QED
    BY <1>2, <2>2, <2>6, <2>7
<1>5. QED
  BY <1>3, <1>4

-------------------------------------------------------------------------------
(***************************************************************************)
(* What the first k calls of a script have appended when they are answered *)
(* as expected.                                                            *)
(***************************************************************************)
Accumulated(sc, k) == FlattenSeq([i \in 1..k |-> Accepted(sc[i])])

LEMMA NothingAccumulated ==
  ASSUME NEW sc
  PROVE  Accumulated(sc, 0) = << >>
<1>1. [i \in 1..0 |-> Accepted(sc[i])] = << >>
  OBVIOUS
<1>2. QED
  BY <1>1 DEF Accumulated, FlattenSeq

LEMMA Accumulates ==
  ASSUME NEW S, NEW k \in Nat, k # 0, NEW sc, \A i \in 1..k : Accepted(sc[i]) \in Seq(S)
  PROVE  /\ Accumulated(sc, k) \in Seq(S)
         /\ Accumulated(sc, k) = Accumulated(sc, k - 1) \o Accepted(sc[k])
<1> DEFINE q == [i \in 1..k |-> Accepted(sc[i])]
<1>1. q \in [1..k -> Seq(S)] /\ q[k] = Accepted(sc[k])
  OBVIOUS
<1>2. [i \in 1..(k - 1) |-> q[i]] = [i \in 1..(k - 1) |-> Accepted(sc[i])]
  OBVIOUS
<1>3. /\ FlattenSeq(q) \in Seq(S)
      /\ FlattenSeq(q) = FlattenSeq([i \in 1..(k - 1) |-> q[i]]) \o q[k]
  <2> HIDE DEF q
  <2>1. QED
    BY <1>1, FlattenGrows
<1>4. QED
  BY <1>1, <1>2, <1>3, Zenon DEF Accumulated

LEMMA AccumulatedIsSequence ==
  ASSUME NEW S, NEW k \in Nat, NEW sc, \A i \in 1..k : Accepted(sc[i]) \in Seq(S)
  PROVE  Accumulated(sc, k) \in Seq(S)
<1>1. CASE k = 0
  <2>1. << >> \in Seq(S)
    OBVIOUS
  <2>2. QED
    BY <1>1, <2>1, NothingAccumulated, Zenon
<1>2. CASE k # 0
  BY <1>2, Accumulates
<1>3. QED
  BY <1>1, <1>2

LEMMA FirstAccumulated ==
  ASSUME NEW S, NEW sc, Accepted(sc[1]) \in Seq(S)
  PROVE  Accumulated(sc, 1) = Accepted(sc[1])
<1>1. /\ 1 \in Nat /\ 1 # 0 /\ 1 - 1 = 0
      /\ \A i \in 1..1 : Accepted(sc[i]) \in Seq(S)
  OBVIOUS
<1>2. \A k \in Nat : k # 0 /\ (\A i \in 1..k : Accepted(sc[i]) \in Seq(S))
         => Accumulated(sc, k) = Accumulated(sc, k - 1) \o Accepted(sc[k])
  BY Accumulates
<1>3. Accumulated(sc, 1) = Accumulated(sc, 0) \o Accepted(sc[1])
  BY <1>1, <1>2
<1>4. << >> \o Accepted(sc[1]) = Accepted(sc[1])
  OBVIOUS
<1>5. QED
  BY <1>3, <1>4, NothingAccumulated

-------------------------------------------------------------------------------
(***************************************************************************)
(* The scripts.  A script of the suite fits the store: an append is to     *)
(* succeed exactly if it expects the number of events the script has       *)
(* appended to each stream, and it names only streams of its own run.      *)
(***************************************************************************)
Separate(s, c) == s \in Seq(ToSet(s)) /\ c \in ToSet(s) /\ \A d \in Clients \ {c} : d \notin ToSet(s)

Current(sc, i) ==
  \A s \in DOMAIN sc[i].versions : sc[i].versions[s] = Count(Accumulated(sc, i - 1), s)

Fits(sc, i, c) ==
  /\ \A s \in DOMAIN sc[i].versions : sc[i].versions[s] \in Nat /\ Separate(s, c)
  /\ sc[i].batch \in Seq(DOMAIN sc[i].versions)
  /\ \/ sc[i].expects = "Ok" /\ Current(sc, i)
     \/ sc[i].expects = "VersionConflict" /\ ~Current(sc, i)

Harmless(sc, i) ==
  /\ sc[i].op # "append"
  /\ sc[i].expects = "DeserializationFailed" => i = Len(sc)

IsScript(sc) == Len(sc) \in Nat \ {0} /\ DOMAIN sc = 1..Len(sc)

WellScripted(sc, c) ==
  /\ IsScript(sc)
  /\ \A i \in 1..Len(sc) : (sc[i].op = "append" /\ Fits(sc, i, c)) \/ Harmless(sc, i)

HarmlessFrom(sc, k) == \A i \in k..Len(sc) : Harmless(sc, i)

\* a script without an append
LEMMA NoAppendFits ==
  ASSUME NEW c, NEW sc, IsScript(sc), HarmlessFrom(sc, 1)
  PROVE  WellScripted(sc, c)
BY DEF WellScripted, HarmlessFrom

StartsFresh(sc, T, batch, c) ==
  /\ IsScript(sc)
  /\ sc[1] = Appends(AtZero(T), batch)
  /\ batch \in Seq(T)
  /\ \A s \in T : Separate(s, c)

\* the first append is to empty streams
LEMMA FirstAppendFits ==
  ASSUME NEW c, NEW sc, NEW T, NEW batch, StartsFresh(sc, T, batch, c)
  PROVE  sc[1].op = "append" /\ Fits(sc, 1, c)
<1>1. \A s : Count(Accumulated(sc, 1 - 1), s) = 0
  BY NothingAccumulated, CountOfNone
<1>2. /\ sc[1].op = "append" /\ sc[1].expects = "Ok" /\ sc[1].batch = batch
      /\ sc[1].versions = [s \in T |-> 0]
  BY DEF StartsFresh, Appends, AppendTo, AtZero
<1>3. QED
  BY <1>1, <1>2 DEF StartsFresh, Fits, Current

\* a script whose only append is the first call
LEMMA OneAppendFits ==
  ASSUME NEW c, NEW sc, NEW T, NEW batch, StartsFresh(sc, T, batch, c), HarmlessFrom(sc, 2)
  PROVE  WellScripted(sc, c)
<1>1. \A i \in 1..Len(sc) : i = 1 \/ i \in 2..Len(sc)
  BY DEF StartsFresh, IsScript
<1>2. QED
  BY <1>1, FirstAppendFits DEF WellScripted, StartsFresh, HarmlessFrom

LEMMA StreamsAreSeparate ==
  ASSUME NEW c \in Clients
  PROVE  /\ Separate(Stream(c, "history"), c)
         /\ Separate(Stream(c, "single"), c)
         /\ Separate(Stream(c, "shared"), c)
         /\ Separate(Stream(c, "participant"), c)
         /\ Separate(Stream(c, "target"), c)
         /\ Separate(Stream(c, "left"), c)
         /\ Separate(Stream(c, "right"), c)
         /\ Separate(Stream(c, "mismatched"), c)
         /\ Separate(Stream(c, "large"), c)
         /\ Separate(Stream(c, "stream"), c)
         /\ Separate(Stream(c, "stream-a"), c)
         /\ Separate(Stream(c, "stream-b"), c)
         /\ Separate(Stream(c, "stream-c"), c)
BY ClientsAssumption DEF Separate, Stream, ToSet, Words

LEMMA AccountsAreSeparate ==
  ASSUME NEW c \in Clients
  PROVE  /\ \A x \in {"1", "2", "7", "a", "123"} : Separate(Account(<< x, "-", c >>), c)
         /\ \A x \in {"1", "789", "w", "x", "y", "z"} : Separate(Order(<< x, "-", c >>), c)
         /\ Separate(<< "my", "-" >> \o Account(<< "456", "-", c >>), c)
         /\ Separate(Account(<< "x", c >>), c)
         /\ Separate(Account(<< "x", "y", c >>), c)
         /\ Separate(Order(<< "z", c >>), c)
<1>1. \A x \in {"1", "2", "7", "a", "123"} : Separate(Account(<< x, "-", c >>), c)
  BY ClientsAssumption DEF Separate, Account, ToSet, Words
<1>2. \A x \in {"1", "789", "w", "x", "y", "z"} : Separate(Order(<< x, "-", c >>), c)
  BY ClientsAssumption DEF Separate, Order, ToSet, Words
<1>3. Separate(<< "my", "-" >> \o Account(<< "456", "-", c >>), c)
  BY ClientsAssumption DEF Separate, Account, ToSet, Words
<1>4. Separate(Account(<< "x", c >>), c) /\ Separate(Account(<< "x", "y", c >>), c)
  BY ClientsAssumption DEF Separate, Account, ToSet, Words
<1>5. Separate(Order(<< "z", c >>), c)
  BY ClientsAssumption DEF Separate, Order, ToSet, Words
<1>6. QED
  BY <1>1, <1>2, <1>3, <1>4, <1>5

LEMMA DistinctLabels ==
  ASSUME NEW c
  PROVE  /\ Stream(c, "participant") # Stream(c, "target")
         /\ Stream(c, "left") # Stream(c, "right")
BY DEF Stream

USE DEF Appends, AppendTo, At, AtBoth, AtZero, ReadsAfter, Reads, ReadsMismatched, ReadsEvents,
        Selects, SavesSnapshot, LoadsSnapshot, SavesCheckpoint, LoadsCheckpoint, Acquires, Drops

LEMMA SnapshotTestsFit ==
  ASSUME NEW c
  PROVE  /\ WellScripted(SnapshotLoadMissing(c), c)
         /\ WellScripted(SnapshotRoundTripAndMonotonic(c), c)
         /\ WellScripted(MissingStreamReads(c), c)
<1>1. WellScripted(SnapshotLoadMissing(c), c)
  <2>1. /\ IsScript(SnapshotLoadMissing(c))
        /\ HarmlessFrom(SnapshotLoadMissing(c), 1)
    BY DEF SnapshotLoadMissing, IsScript, HarmlessFrom, Harmless
  <2>2. QED
    BY <2>1, NoAppendFits
<1>2. WellScripted(SnapshotRoundTripAndMonotonic(c), c)
  <2>1. /\ IsScript(SnapshotRoundTripAndMonotonic(c))
        /\ HarmlessFrom(SnapshotRoundTripAndMonotonic(c), 1)
    BY DEF SnapshotRoundTripAndMonotonic, IsScript, HarmlessFrom, Harmless
  <2>2. QED
    BY <2>1, NoAppendFits
<1>3. WellScripted(MissingStreamReads(c), c)
  <2>1. /\ IsScript(MissingStreamReads(c))
        /\ HarmlessFrom(MissingStreamReads(c), 1)
    BY DEF MissingStreamReads, IsScript, HarmlessFrom, Harmless
  <2>2. QED
    BY <2>1, NoAppendFits
<1>4. QED
  BY <1>1, <1>2, <1>3

LEMMA CheckpointTestsFit ==
  ASSUME NEW c
  PROVE  /\ WellScripted(CheckpointSaveAndLoad(c), c)
         /\ WellScripted(CheckpointUpdateOverwrites(c), c)
         /\ WellScripted(CheckpointLoadMissingReturnsNone(c), c)
         /\ WellScripted(CheckpointIndependentSubscriptions(c), c)
<1>1. WellScripted(CheckpointSaveAndLoad(c), c)
  <2>1. /\ IsScript(CheckpointSaveAndLoad(c))
        /\ HarmlessFrom(CheckpointSaveAndLoad(c), 1)
    BY DEF CheckpointSaveAndLoad, IsScript, HarmlessFrom, Harmless
  <2>2. QED
    BY <2>1, NoAppendFits
<1>2. WellScripted(CheckpointUpdateOverwrites(c), c)
  <2>1. /\ IsScript(CheckpointUpdateOverwrites(c))
        /\ HarmlessFrom(CheckpointUpdateOverwrites(c), 1)
    BY DEF CheckpointUpdateOverwrites, IsScript, HarmlessFrom, Harmless
  <2>2. QED
    BY <2>1, NoAppendFits
<1>3. WellScripted(CheckpointLoadMissingReturnsNone(c), c)
  <2>1. /\ IsScript(CheckpointLoadMissingReturnsNone(c))
        /\ HarmlessFrom(CheckpointLoadMissingReturnsNone(c), 1)
    BY DEF CheckpointLoadMissingReturnsNone, IsScript, HarmlessFrom, Harmless
  <2>2. QED
    BY <2>1, NoAppendFits
<1>4. WellScripted(CheckpointIndependentSubscriptions(c), c)
  <2>1. /\ IsScript(CheckpointIndependentSubscriptions(c))
        /\ HarmlessFrom(CheckpointIndependentSubscriptions(c), 1)
    BY DEF CheckpointIndependentSubscriptions, IsScript, HarmlessFrom, Harmless
  <2>2. QED
    BY <2>1, NoAppendFits
<1>5. QED
  BY <1>1, <1>2, <1>3, <1>4

LEMMA CoordinationTestsFit ==
  ASSUME NEW c
  PROVE  /\ WellScripted(CoordinationAcquireLeadership(c), c)
         /\ WellScripted(CoordinationSecondInstanceBlocked(c), c)
         /\ WellScripted(CoordinationIndependentSubscriptions(c), c)
         /\ WellScripted(CoordinationLeadershipReleasedOnGuardDrop(c), c)
<1>1. WellScripted(CoordinationAcquireLeadership(c), c)
  <2>1. /\ IsScript(CoordinationAcquireLeadership(c))
        /\ HarmlessFrom(CoordinationAcquireLeadership(c), 1)
    BY DEF CoordinationAcquireLeadership, IsScript, HarmlessFrom, Harmless
  <2>2. QED
    BY <2>1, NoAppendFits
<1>2. WellScripted(CoordinationSecondInstanceBlocked(c), c)
  <2>1. /\ IsScript(CoordinationSecondInstanceBlocked(c))
        /\ HarmlessFrom(CoordinationSecondInstanceBlocked(c), 1)
    BY DEF CoordinationSecondInstanceBlocked, IsScript, HarmlessFrom, Harmless
  <2>2. QED
    BY <2>1, NoAppendFits
<1>3. WellScripted(CoordinationIndependentSubscriptions(c), c)
  <2>1. /\ IsScript(CoordinationIndependentSubscriptions(c))
        /\ HarmlessFrom(CoordinationIndependentSubscriptions(c), 1)
    BY DEF CoordinationIndependentSubscriptions, IsScript, HarmlessFrom, Harmless
  <2>2. QED
    BY <2>1, NoAppendFits
<1>4. WellScripted(CoordinationLeadershipReleasedOnGuardDrop(c), c)
  <2>1. /\ IsScript(CoordinationLeadershipReleasedOnGuardDrop(c))
        /\ HarmlessFrom(CoordinationLeadershipReleasedOnGuardDrop(c), 1)
    BY DEF CoordinationLeadershipReleasedOnGuardDrop, IsScript, HarmlessFrom, Harmless
  <2>2. QED
    BY <2>1, NoAppendFits
<1>5. QED
  BY <1>1, <1>2, <1>3, <1>4

LEMMA OneStreamTestsFit ==
  ASSUME NEW c \in Clients
  PROVE  /\ WellScripted(ReadStreamAfterExcludesReconstructedEvents(c), c)
         /\ WellScripted(BasicReadWrite(c), c)
         /\ WellScripted(StreamIsolation(c), c)
         /\ WellScripted(ReadStreamErrorsOnTypeMismatch(c), c)
         /\ WellScripted(PersistsLargeBatchAcrossChunkBoundary(c), c)
         /\ WellScripted(PositionBasedResumption(c), c)
         /\ WellScripted(BatchLimiting(c), c)
<1>1. WellScripted(ReadStreamAfterExcludesReconstructedEvents(c), c)
  <2> DEFINE T == {Stream(c, "history")}
             batch == Times(3, Stream(c, "history"))
  <2>1. IsScript(ReadStreamAfterExcludesReconstructedEvents(c))
    BY DEF ReadStreamAfterExcludesReconstructedEvents, IsScript
  <2>2. ReadStreamAfterExcludesReconstructedEvents(c)[1] = Appends(AtZero(T), batch)
    BY DEF ReadStreamAfterExcludesReconstructedEvents, Times
  <2>3. batch \in Seq(T)
    BY DEF Times
  <2>4. \A s \in T : Separate(s, c)
    BY StreamsAreSeparate
  <2>5. StartsFresh(ReadStreamAfterExcludesReconstructedEvents(c), T, batch, c)
    BY <2>1, <2>2, <2>3, <2>4, Zenon DEF StartsFresh
  <2>6. HarmlessFrom(ReadStreamAfterExcludesReconstructedEvents(c), 2)
    BY DEF ReadStreamAfterExcludesReconstructedEvents, HarmlessFrom, Harmless
  <2>7. QED
    BY <2>5, <2>6, OneAppendFits
<1>2. WellScripted(BasicReadWrite(c), c)
  <2> DEFINE T == {Stream(c, "single")}
             batch == << Stream(c, "single") >>
  <2>1. IsScript(BasicReadWrite(c))
    BY DEF BasicReadWrite, IsScript
  <2>2. BasicReadWrite(c)[1] = Appends(AtZero(T), batch)
    BY DEF BasicReadWrite
  <2>3. batch \in Seq(T)
    OBVIOUS
  <2>4. \A s \in T : Separate(s, c)
    BY StreamsAreSeparate
  <2>5. StartsFresh(BasicReadWrite(c), T, batch, c)
    BY <2>1, <2>2, <2>3, <2>4, Zenon DEF StartsFresh
  <2>6. HarmlessFrom(BasicReadWrite(c), 2)
    BY DEF BasicReadWrite, HarmlessFrom, Harmless
  <2>7. QED
    BY <2>5, <2>6, OneAppendFits
<1>3. WellScripted(StreamIsolation(c), c)
  <2> DEFINE T == {Stream(c, "left"), Stream(c, "right")}
             batch == << Stream(c, "left"), Stream(c, "right") >>
  <2>1. IsScript(StreamIsolation(c))
    BY DEF StreamIsolation, IsScript
  <2>2. StreamIsolation(c)[1] = Appends(AtZero(T), batch)
    BY DEF StreamIsolation
  <2>3. batch \in Seq(T)
    OBVIOUS
  <2>4. \A s \in T : Separate(s, c)
    BY StreamsAreSeparate
  <2>5. StartsFresh(StreamIsolation(c), T, batch, c)
    BY <2>1, <2>2, <2>3, <2>4, Zenon DEF StartsFresh
  <2>6. HarmlessFrom(StreamIsolation(c), 2)
    BY DEF StreamIsolation, HarmlessFrom, Harmless
  <2>7. QED
    BY <2>5, <2>6, OneAppendFits
<1>4. WellScripted(ReadStreamErrorsOnTypeMismatch(c), c)
  <2> DEFINE T == {Stream(c, "mismatched")}
             batch == << Stream(c, "mismatched") >>
  <2>1. IsScript(ReadStreamErrorsOnTypeMismatch(c))
    BY DEF ReadStreamErrorsOnTypeMismatch, IsScript
  <2>2. ReadStreamErrorsOnTypeMismatch(c)[1] = Appends(AtZero(T), batch)
    BY DEF ReadStreamErrorsOnTypeMismatch
  <2>3. batch \in Seq(T)
    OBVIOUS
  <2>4. \A s \in T : Separate(s, c)
    BY StreamsAreSeparate
  <2>5. StartsFresh(ReadStreamErrorsOnTypeMismatch(c), T, batch, c)
    BY <2>1, <2>2, <2>3, <2>4, Zenon DEF StartsFresh
  <2>6. HarmlessFrom(ReadStreamErrorsOnTypeMismatch(c), 2)
    BY DEF ReadStreamErrorsOnTypeMismatch, HarmlessFrom, Harmless
  <2>7. QED
    BY <2>5, <2>6, OneAppendFits
<1>5. WellScripted(PersistsLargeBatchAcrossChunkBoundary(c), c)
  <2> DEFINE T == {Stream(c, "large")}
             batch == Times(5, Stream(c, "large"))
  <2>1. IsScript(PersistsLargeBatchAcrossChunkBoundary(c))
    BY DEF PersistsLargeBatchAcrossChunkBoundary, IsScript
  <2>2. PersistsLargeBatchAcrossChunkBoundary(c)[1] = Appends(AtZero(T), batch)
    BY DEF PersistsLargeBatchAcrossChunkBoundary, Times
  <2>3. batch \in Seq(T)
    BY DEF Times
  <2>4. \A s \in T : Separate(s, c)
    BY StreamsAreSeparate
  <2>5. StartsFresh(PersistsLargeBatchAcrossChunkBoundary(c), T, batch, c)
    BY <2>1, <2>2, <2>3, <2>4, Zenon DEF StartsFresh
  <2>6. HarmlessFrom(PersistsLargeBatchAcrossChunkBoundary(c), 2)
    BY DEF PersistsLargeBatchAcrossChunkBoundary, HarmlessFrom, Harmless
  <2>7. QED
    BY <2>5, <2>6, OneAppendFits
<1>6. WellScripted(PositionBasedResumption(c), c)
  <2> DEFINE T == {Stream(c, "stream")}
             batch == Times(5, Stream(c, "stream"))
  <2>1. IsScript(PositionBasedResumption(c))
    BY DEF PositionBasedResumption, IsScript
  <2>2. PositionBasedResumption(c)[1] = Appends(AtZero(T), batch)
    BY DEF PositionBasedResumption, Times
  <2>3. batch \in Seq(T)
    BY DEF Times
  <2>4. \A s \in T : Separate(s, c)
    BY StreamsAreSeparate
  <2>5. StartsFresh(PositionBasedResumption(c), T, batch, c)
    BY <2>1, <2>2, <2>3, <2>4, Zenon DEF StartsFresh
  <2>6. HarmlessFrom(PositionBasedResumption(c), 2)
    BY DEF PositionBasedResumption, HarmlessFrom, Harmless
  <2>7. QED
    BY <2>5, <2>6, OneAppendFits
<1>7. WellScripted(BatchLimiting(c), c)
  <2> DEFINE T == {Stream(c, "stream")}
             batch == Times(MoreThanAPage, Stream(c, "stream"))
  <2>1. IsScript(BatchLimiting(c))
    BY DEF BatchLimiting, IsScript
  <2>2. BatchLimiting(c)[1] = Appends(AtZero(T), batch)
    BY DEF BatchLimiting, Times, MoreThanAPage
  <2>3. batch \in Seq(T)
    BY DEF Times, MoreThanAPage
  <2>4. \A s \in T : Separate(s, c)
    BY StreamsAreSeparate
  <2>5. StartsFresh(BatchLimiting(c), T, batch, c)
    BY <2>1, <2>2, <2>3, <2>4, Zenon DEF StartsFresh
  <2>6. HarmlessFrom(BatchLimiting(c), 2)
    BY DEF BatchLimiting, HarmlessFrom, Harmless
  <2>7. QED
    BY <2>5, <2>6, OneAppendFits
<1>8. QED
  BY <1>1, <1>2, <1>3, <1>4, <1>5, <1>6, <1>7

LEMMA FilterTestsFit ==
  ASSUME NEW c \in Clients
  PROVE  /\ WellScripted(StreamPrefixFiltering(c), c)
         /\ WellScripted(StreamPrefixRequiresPrefixMatch(c), c)
         /\ WellScripted(StreamPatternSingleChar(c), c)
         /\ WellScripted(StreamPatternCharClass(c), c)
<1>1. WellScripted(StreamPrefixFiltering(c), c)
  <2> DEFINE T == {Account(<< "1", "-", c >>), Account(<< "2", "-", c >>),
                   Order(<< "1", "-", c >>)}
             batch == << Account(<< "1", "-", c >>), Account(<< "2", "-", c >>),
                         Order(<< "1", "-", c >>) >>
  <2>1. IsScript(StreamPrefixFiltering(c))
    BY DEF StreamPrefixFiltering, IsScript
  <2>2. StreamPrefixFiltering(c)[1] = Appends(AtZero(T), batch)
    BY DEF StreamPrefixFiltering
  <2>3. batch \in Seq(T)
    OBVIOUS
  <2>4. \A s \in T : Separate(s, c)
    BY AccountsAreSeparate
  <2>5. StartsFresh(StreamPrefixFiltering(c), T, batch, c)
    BY <2>1, <2>2, <2>3, <2>4, Zenon DEF StartsFresh
  <2>6. HarmlessFrom(StreamPrefixFiltering(c), 2)
    BY DEF StreamPrefixFiltering, HarmlessFrom, Harmless
  <2>7. QED
    BY <2>5, <2>6, OneAppendFits
<1>2. WellScripted(StreamPrefixRequiresPrefixMatch(c), c)
  <2> DEFINE T == {Account(<< "123", "-", c >>),
                   (<< "my", "-" >> \o Account(<< "456", "-", c >>)),
                   Order(<< "789", "-", c >>)}
             batch == << Account(<< "123", "-", c >>),
                         (<< "my", "-" >> \o Account(<< "456", "-", c >>)),
                         Order(<< "789", "-", c >>) >>
  <2>1. IsScript(StreamPrefixRequiresPrefixMatch(c))
    BY DEF StreamPrefixRequiresPrefixMatch, IsScript
  <2>2. StreamPrefixRequiresPrefixMatch(c)[1] = Appends(AtZero(T), batch)
    BY DEF StreamPrefixRequiresPrefixMatch
  <2>3. batch \in Seq(T)
    OBVIOUS
  <2>4. \A s \in T : Separate(s, c)
    BY AccountsAreSeparate
  <2>5. StartsFresh(StreamPrefixRequiresPrefixMatch(c), T, batch, c)
    BY <2>1, <2>2, <2>3, <2>4, Zenon DEF StartsFresh
  <2>6. HarmlessFrom(StreamPrefixRequiresPrefixMatch(c), 2)
    BY DEF StreamPrefixRequiresPrefixMatch, HarmlessFrom, Harmless
  <2>7. QED
    BY <2>5, <2>6, OneAppendFits
<1>3. WellScripted(StreamPatternSingleChar(c), c)
  <2> DEFINE T == {Account(<< "x", c >>), Account(<< "x", "y", c >>), Order(<< "z", c >>)}
             batch == << Account(<< "x", c >>), Account(<< "x", "y", c >>),
                         Order(<< "z", c >>) >>
  <2>1. IsScript(StreamPatternSingleChar(c))
    BY DEF StreamPatternSingleChar, IsScript
  <2>2. StreamPatternSingleChar(c)[1] = Appends(AtZero(T), batch)
    BY DEF StreamPatternSingleChar
  <2>3. batch \in Seq(T)
    OBVIOUS
  <2>4. \A s \in T : Separate(s, c)
    BY AccountsAreSeparate
  <2>5. StartsFresh(StreamPatternSingleChar(c), T, batch, c)
    BY <2>1, <2>2, <2>3, <2>4, Zenon DEF StartsFresh
  <2>6. HarmlessFrom(StreamPatternSingleChar(c), 2)
    BY DEF StreamPatternSingleChar, HarmlessFrom, Harmless
  <2>7. QED
    BY <2>5, <2>6, OneAppendFits
<1>4. WellScripted(StreamPatternCharClass(c), c)
  <2> DEFINE T == {Account(<< "7", "-", c >>), Account(<< "a", "-", c >>)}
             batch == << Account(<< "7", "-", c >>), Account(<< "a", "-", c >>) >>
  <2>1. IsScript(StreamPatternCharClass(c))
    BY DEF StreamPatternCharClass, IsScript
  <2>2. StreamPatternCharClass(c)[1] = Appends(AtZero(T), batch)
    BY DEF StreamPatternCharClass
  <2>3. batch \in Seq(T)
    OBVIOUS
  <2>4. \A s \in T : Separate(s, c)
    BY AccountsAreSeparate
  <2>5. StartsFresh(StreamPatternCharClass(c), T, batch, c)
    BY <2>1, <2>2, <2>3, <2>4, Zenon DEF StartsFresh
  <2>6. HarmlessFrom(StreamPatternCharClass(c), 2)
    <3>1. /\ StreamPatternCharClass(c)[2].op = "readEvents"
          /\ StreamPatternCharClass(c)[2].expects = "Ok"
      BY DEF StreamPatternCharClass
    <3>2. Len(StreamPatternCharClass(c)) = 2
      BY DEF StreamPatternCharClass
    <3>3. QED
      BY <3>1, <3>2 DEF HarmlessFrom, Harmless
  <2>7. QED
    BY <2>5, <2>6, OneAppendFits
<1>5. QED
  BY <1>1, <1>2, <1>3, <1>4

LEMMA PatternFilteringFits ==
  ASSUME NEW c \in Clients
  PROVE  WellScripted(StreamPatternFiltering(c), c)
<1> DEFINE sc == StreamPatternFiltering(c)
           orders == [i \in 1..4 |-> Order(<< << "w", "x", "y", "z" >>[i], "-", c >>)]
           accounts == << Account(<< "1", "-", c >>), Account(<< "2", "-", c >>) >>
           T == ToSet(orders) \cup ToSet(accounts)
<1>1. IsScript(sc)
  BY DEF StreamPatternFiltering, IsScript
<1>2. sc[1] = Appends(AtZero(T), orders \o accounts)
  <2>1. ToSet(accounts) = {Account(<< "1", "-", c >>), Account(<< "2", "-", c >>)}
    BY DEF ToSet
  <2>2. QED
    BY <2>1 DEF StreamPatternFiltering, MoreThanAPage
<1>3. orders \o accounts \in Seq(T)
  <2>1. orders \in Seq(T) /\ accounts \in Seq(T)
    BY DEF ToSet
  <2> HIDE DEF orders, accounts, T
  <2>2. QED
    BY <2>1
<1>4. \A s \in T : Separate(s, c)
  <2>1. \A i \in 1..4 : << "w", "x", "y", "z" >>[i] \in {"1", "789", "w", "x", "y", "z"}
    OBVIOUS
  <2>2. \A i \in 1..4 : Separate(orders[i], c)
    BY <2>1, AccountsAreSeparate
  <2>3. Separate(accounts[1], c) /\ Separate(accounts[2], c)
    BY AccountsAreSeparate
  <2>4. DOMAIN orders = 1..4 /\ DOMAIN accounts = 1..2
    OBVIOUS
  <2> HIDE DEF orders, accounts
  <2>5. QED
    BY <2>2, <2>3, <2>4 DEF ToSet
<1>5. HarmlessFrom(sc, 2)
  BY DEF StreamPatternFiltering, HarmlessFrom, Harmless
<1>6. StartsFresh(sc, T, orders \o accounts, c)
  BY <1>1, <1>2, <1>3, <1>4, Zenon DEF StartsFresh
<1>7. QED
  <2> HIDE DEF sc, T, orders, accounts
  <2>1. WellScripted(sc, c)
    BY <1>5, <1>6, OneAppendFits, Zenon
  <2>2. QED
    BY <2>1 DEF sc

(***************************************************************************)
(* A second append, after a first one to empty streams.                    *)
(***************************************************************************)
Seconds(call, batch, c) ==
  /\ call.op = "append"
  /\ call.batch \in Seq(DOMAIN call.versions)
  /\ \A s \in DOMAIN call.versions : call.versions[s] \in Nat /\ Separate(s, c)
  /\ \/ call.expects = "Ok"
        /\ \A s \in DOMAIN call.versions : call.versions[s] = Count(batch, s)
     \/ call.expects = "VersionConflict"
        /\ \E s \in DOMAIN call.versions : call.versions[s] # Count(batch, s)

LEMMA SecondAppendFits ==
  ASSUME NEW c, NEW sc, NEW T, NEW batch, StartsFresh(sc, T, batch, c), Seconds(sc[2], batch, c)
  PROVE  sc[2].op = "append" /\ Fits(sc, 2, c)
<1>1. Accepted(sc[1]) = batch /\ batch \in Seq(T)
  BY DEF StartsFresh, Accepted
<1>2. Accumulated(sc, 1) = batch
  BY <1>1, FirstAccumulated, Zenon
<1>3. Current(sc, 2) <=> \A s \in DOMAIN sc[2].versions : sc[2].versions[s] = Count(batch, s)
  <2>1. 2 - 1 = 1
    OBVIOUS
  <2>2. QED
    BY <1>2, <2>1, Zenon DEF Current
<1>4. QED
  BY <1>3 DEF Seconds, Fits

LEMMA TwoAppendsFit ==
  ASSUME NEW c, NEW sc, NEW T, NEW batch, StartsFresh(sc, T, batch, c), Seconds(sc[2], batch, c),
         HarmlessFrom(sc, 3)
  PROVE  WellScripted(sc, c)
<1>1. \A i \in 1..Len(sc) : i = 1 \/ i = 2 \/ i \in 3..Len(sc)
  BY DEF StartsFresh, IsScript
<1>2. QED
  BY <1>1, FirstAppendFits, SecondAppendFits DEF WellScripted, StartsFresh, HarmlessFrom

LEMMA RepeatedAppendsFit ==
  ASSUME NEW c \in Clients
  PROVE  /\ WellScripted(ConcurrentVersionConflicts(c), c)
         /\ WellScripted(ReadOnlyParticipantConflictPreservesAtomicity(c), c)
         /\ WellScripted(CurrentReadOnlyParticipantAllowsWrite(c), c)
         /\ WellScripted(ConflictPreservesAtomicity(c), c)
<1> DEFINE shared == Stream(c, "shared")
           participant == Stream(c, "participant")
           target == Stream(c, "target")
           left == Stream(c, "left")
           right == Stream(c, "right")
<1>1. WellScripted(ConcurrentVersionConflicts(c), c)
  <2> DEFINE sc == ConcurrentVersionConflicts(c)
  <2>1. IsScript(sc)
    BY DEF ConcurrentVersionConflicts, IsScript
  <2>2. sc[1] = Appends(AtZero({shared}), << shared >>)
    BY DEF ConcurrentVersionConflicts
  <2>3. << shared >> \in Seq({shared}) /\ Separate(shared, c)
    BY StreamsAreSeparate
  <2>4. StartsFresh(sc, {shared}, << shared >>, c)
    BY <2>1, <2>2, <2>3 DEF StartsFresh
  <2>5. sc[2] = AppendTo(At(shared, 0), << shared >>, "VersionConflict")
    BY DEF ConcurrentVersionConflicts
  <2>6. Seconds(sc[2], << shared >>, c)
    BY <2>3, <2>5, CountOfOne DEF Seconds
  <2>7. HarmlessFrom(sc, 3)
    BY DEF ConcurrentVersionConflicts, HarmlessFrom
  <2>8. QED
    BY <2>4, <2>6, <2>7, TwoAppendsFit
<1>2. WellScripted(ReadOnlyParticipantConflictPreservesAtomicity(c), c)
  <2> DEFINE sc == ReadOnlyParticipantConflictPreservesAtomicity(c)
  <2>1. IsScript(sc)
    BY DEF ReadOnlyParticipantConflictPreservesAtomicity, IsScript
  <2>2. sc[1] = Appends(AtZero({participant}), << participant >>)
    BY DEF ReadOnlyParticipantConflictPreservesAtomicity
  <2>3. << participant >> \in Seq({participant}) /\ Separate(participant, c) /\ Separate(target, c)
    BY StreamsAreSeparate
  <2>4. StartsFresh(sc, {participant}, << participant >>, c)
    BY <2>1, <2>2, <2>3 DEF StartsFresh
  <2>5. sc[2] = AppendTo(AtZero({participant, target}), << target >>, "VersionConflict")
    BY DEF ReadOnlyParticipantConflictPreservesAtomicity
  <2>6. Seconds(sc[2], << participant >>, c)
    BY <2>3, <2>5, CountOfOne DEF Seconds
  <2>7. HarmlessFrom(sc, 3)
    BY DEF ReadOnlyParticipantConflictPreservesAtomicity, HarmlessFrom, Harmless
  <2>8. QED
    BY <2>4, <2>6, <2>7, TwoAppendsFit
<1>3. WellScripted(CurrentReadOnlyParticipantAllowsWrite(c), c)
  <2> DEFINE sc == CurrentReadOnlyParticipantAllowsWrite(c)
  <2>1. IsScript(sc)
    BY DEF CurrentReadOnlyParticipantAllowsWrite, IsScript
  <2>2. sc[1] = Appends(AtZero({participant}), << participant >>)
    BY DEF CurrentReadOnlyParticipantAllowsWrite
  <2>3. << participant >> \in Seq({participant}) /\ Separate(participant, c) /\ Separate(target, c)
    BY StreamsAreSeparate
  <2>4. StartsFresh(sc, {participant}, << participant >>, c)
    BY <2>1, <2>2, <2>3 DEF StartsFresh
  <2>5. sc[2] = Appends(AtBoth(participant, 1, target, 0), << target >>)
    BY DEF CurrentReadOnlyParticipantAllowsWrite
  <2>6. Seconds(sc[2], << participant >>, c)
    BY <2>3, <2>5, CountOfOne, DistinctLabels DEF Seconds
  <2>7. HarmlessFrom(sc, 3)
    BY DEF CurrentReadOnlyParticipantAllowsWrite, HarmlessFrom, Harmless
  <2>8. QED
    BY <2>4, <2>6, <2>7, TwoAppendsFit
<1>4. WellScripted(ConflictPreservesAtomicity(c), c)
  <2> DEFINE sc == ConflictPreservesAtomicity(c)
  <2>1. IsScript(sc)
    BY DEF ConflictPreservesAtomicity, IsScript
  <2>2. sc[1] = Appends(AtZero({left, right}), << left, right >>)
    BY DEF ConflictPreservesAtomicity
  <2>3. << left, right >> \in Seq({left, right}) /\ Separate(left, c) /\ Separate(right, c)
    BY StreamsAreSeparate
  <2>4. StartsFresh(sc, {left, right}, << left, right >>, c)
    BY <2>1, <2>2, <2>3 DEF StartsFresh
  <2>5. sc[2] = AppendTo(AtBoth(left, 0, right, 1), << left, right >>, "VersionConflict")
    BY DEF ConflictPreservesAtomicity
  <2>6. Seconds(sc[2], << left, right >>, c)
    BY <2>3, <2>5, CountOfTwo, DistinctLabels DEF Seconds
  <2>7. HarmlessFrom(sc, 3)
    BY DEF ConflictPreservesAtomicity, HarmlessFrom, Harmless
  <2>8. QED
    BY <2>4, <2>6, <2>7, TwoAppendsFit
<1>5. QED
  BY <1>1, <1>2, <1>3, <1>4


(***************************************************************************)
(* The test with three appends, to three streams.                          *)
(***************************************************************************)
LEMMA OrderingFits ==
  ASSUME NEW c \in Clients
  PROVE  WellScripted(EventOrderingAcrossStreams(c), c)
<1> DEFINE sc == EventOrderingAcrossStreams(c)
           A == Stream(c, "stream-a")
           B == Stream(c, "stream-b")
           C == Stream(c, "stream-c")
<1>1. IsScript(sc) /\ Len(sc) = 4
  BY DEF EventOrderingAcrossStreams, IsScript
<1>2. /\ sc[1] = Appends(AtZero({A}), << A >>)
      /\ sc[2] = Appends(AtZero({B}), << B >>)
      /\ sc[3] = Appends(AtZero({C}), << C >>)
  BY DEF EventOrderingAcrossStreams
<1>3. Separate(A, c) /\ Separate(B, c) /\ Separate(C, c)
  BY StreamsAreSeparate
<1>4. A # B /\ A # C /\ B # C
  BY DEF Stream
<1>5. HarmlessFrom(sc, 4)
  BY DEF EventOrderingAcrossStreams, HarmlessFrom, Harmless
<1> HIDE DEF sc, A, B, C
<1> DEFINE names == {A, B, C}
<1>6. /\ Accepted(sc[1]) = << A >> /\ Accepted(sc[2]) = << B >>
      /\ << A >> \in Seq(names) /\ << B >> \in Seq(names)
  BY <1>2 DEF Accepted
<1>7. Accumulated(sc, 1) = << A >>
  BY <1>6, FirstAccumulated, Zenon
<1>8. Accumulated(sc, 2) = << A >> \o << B >>
  <2>1. 2 \in Nat /\ 2 # 0 /\ 2 - 1 = 1 /\ \A i \in 1..2 : Accepted(sc[i]) \in Seq(names)
    <3> HIDE DEF names
    <3>1. 2 \in Nat /\ 2 # 0 /\ 2 - 1 = 1 /\ \A i \in 1..2 : i = 1 \/ i = 2
      OBVIOUS
    <3>2. \A i : i = 1 \/ i = 2 => Accepted(sc[i]) \in Seq(names)
      BY <1>6, Zenon
    <3>3. QED
      BY <3>1, <3>2, Zenon
  <2>2. \A k \in Nat : k # 0 /\ (\A i \in 1..k : Accepted(sc[i]) \in Seq(names))
           => Accumulated(sc, k) = Accumulated(sc, k - 1) \o Accepted(sc[k])
    BY Accumulates
  <2>3. Accumulated(sc, 2) = Accumulated(sc, 1) \o Accepted(sc[2])
    BY <2>1, <2>2
  <2>4. QED
    BY <2>3, <1>6, <1>7, Zenon
<1>9. Count(<< A >> \o << B >>, C) = 0
  <2>1. Sums(<< A >>, << B >>, C)
    <3> HIDE DEF names
    <3>1. QED
      BY <1>6, CountConcat, Zenon
  <2>2. Count(<< A >>, C) = 0 /\ Count(<< B >>, C) = 0
    BY <1>4, CountOfOne
  <2>3. QED
    BY <2>1, <2>2 DEF Sums
<1>10. Count(Accumulated(sc, 3 - 1), C) = 0
  <2>1. 3 - 1 = 2
    OBVIOUS
  <2>2. QED
    BY <1>8, <1>9, <2>1, Zenon
<1>11. Fits(sc, 3, c) /\ sc[3].op = "append"
  BY <1>2, <1>3, <1>10 DEF Fits, Current
<1>12. StartsFresh(sc, {A}, << A >>, c)
  BY <1>1, <1>2, <1>3 DEF StartsFresh
<1>13. Seconds(sc[2], << A >>, c)
  BY <1>2, <1>3, <1>4, CountOfOne DEF Seconds
<1>14. /\ sc[1].op = "append" /\ Fits(sc, 1, c)
       /\ sc[2].op = "append" /\ Fits(sc, 2, c)
  BY <1>12, <1>13, FirstAppendFits, SecondAppendFits, Zenon
<1>15. WellScripted(sc, c)
  <2>1. \A i \in 1..Len(sc) : i = 1 \/ i = 2 \/ i = 3 \/ i \in 4..Len(sc)
    BY <1>1
  <2>2. QED
    BY <1>1, <1>5, <1>11, <1>14, <2>1 DEF WellScripted, HarmlessFrom
<1>16. QED
  BY <1>15 DEF sc

HIDE DEF Appends, AppendTo, At, AtBoth, AtZero, ReadsAfter, Reads, ReadsMismatched, ReadsEvents,
         Selects, SavesSnapshot, LoadsSnapshot, SavesCheckpoint, LoadsCheckpoint, Acquires, Drops

\* every test of the suite fits
LEMMA SuiteFits ==
  ASSUME NEW c \in Clients, NEW t \in DOMAIN SuiteFor(c)
  PROVE  WellScripted(SuiteFor(c)[t], c)
BY SnapshotTestsFit, CheckpointTestsFit, CoordinationTestsFit, OneStreamTestsFit, FilterTestsFit,
   PatternFilteringFits, RepeatedAppendsFit, OrderingFits DEF SuiteFor

-------------------------------------------------------------------------------
(***************************************************************************)
(* A log, and what a batch appended to it changes.  A log mirrors the      *)
(* batches of a client if its own rows are their events, in order; rows    *)
(* are numbered from the last version of their streams.                    *)
(***************************************************************************)
Owned(lg, c) == {i \in DOMAIN lg : c \in ToSet(lg[i].stream)}

Rank(set, i) == Cardinality({j \in set : j <= i})

Mirrors(lg, c, batches) ==
  /\ Cardinality(Owned(lg, c)) = Len(batches)
  /\ \A i \in Owned(lg, c) : lg[i].stream = batches[Rank(Owned(lg, c), i)]

Positioned(lg, s) == {i \in DOMAIN lg : lg[i].stream = s}

NumberedAt(lg, i) == lg[i].version = Cardinality({j \in 1..i : lg[j].stream = lg[i].stream})

Numbers(lg) == \A i \in DOMAIN lg : NumberedAt(lg, i)

Carries(new, batch) ==
  /\ Len(new) = Len(batch)
  /\ \A k \in 1..Len(batch) : new[k].stream = batch[k]

LEMMA StreamGrows ==
  ASSUME NEW all, NEW lg, NEW new, NEW m, NEW n, Joined(all, lg, new, m, n), NEW s
  PROVE  Positioned(all, s) = Positioned(lg, s) \cup Behind(m, Positioned(new, s))
<1>1. Splits(Positioned(all, s), Positioned(lg, s), Positioned(new, s), m, n)
  <2>1. 1..m \subseteq 1..(m + n) /\ \A k \in 1..n : m + k \in 1..(m + n)
    BY DEF Joined
  <2>2. QED
    BY <2>1 DEF Splits, Positioned, Joined
<1>2. QED
  BY <1>1, SplitIsUnion DEF Joined

LEMMA OthersOwnNothingNew ==
  ASSUME NEW all, NEW lg, NEW new, NEW m, NEW n, Joined(all, lg, new, m, n), NEW d,
         \A k \in 1..n : d \notin ToSet(new[k].stream), NEW batches, Mirrors(lg, d, batches)
  PROVE  Mirrors(all, d, batches)
<1>1. Owned(new, d) = {}
  BY DEF Owned, Joined
<1>2. Splits(Owned(all, d), Owned(lg, d), Owned(new, d), m, n)
  <2>1. 1..m \subseteq 1..(m + n) /\ \A k \in 1..n : m + k \in 1..(m + n)
    BY DEF Joined
  <2>2. QED
    BY <2>1 DEF Splits, Owned, Joined
<1>3. Owned(all, d) = Owned(lg, d) \cup Behind(m, Owned(new, d))
  BY <1>2, SplitIsUnion DEF Joined
<1>4. Owned(all, d) = Owned(lg, d)
  BY <1>1, <1>3 DEF Behind
<1>5. \A i \in Owned(lg, d) : all[i] = lg[i]
  BY DEF Owned, Joined
<1>6. QED
  BY <1>4, <1>5 DEF Mirrors

LEMMA OwnerOwnsTheNew ==
  ASSUME NEW all, NEW lg, NEW new, NEW m, NEW n, Joined(all, lg, new, m, n), NEW c,
         \A k \in 1..n : c \in ToSet(new[k].stream)
  PROVE  /\ Owned(all, c) = Owned(lg, c) \cup Behind(m, 1..n)
         /\ Within(Owned(lg, c), m)
<1>1. Owned(new, c) = 1..n
  BY DEF Owned, Joined
<1>2. Splits(Owned(all, c), Owned(lg, c), 1..n, m, n)
  <2>1. 1..m \subseteq 1..(m + n) /\ \A k \in 1..n : m + k \in 1..(m + n)
    BY DEF Joined
  <2>2. QED
    BY <1>1, <2>1 DEF Splits, Owned, Joined
<1>3. Within(Owned(lg, c), m)
  BY DEF Owned, Joined, Within
<1>4. Owned(all, c) = Owned(lg, c) \cup Behind(m, 1..n)
  BY <1>2, SplitIsUnion DEF Joined
<1>5. QED
  BY <1>3, <1>4

\* ranks in front are kept, and ranks behind go on from there
RanksGoOn(T, A, m, n, L) ==
  /\ L \in Nat
  /\ Cardinality(T) = L + n
  /\ \A i \in A : Rank(T, i) = Rank(A, i) /\ Rank(A, i) \in 1..L
  /\ \A k \in 1..n : Rank(T, m + k) = L + k

LEMMA RanksSplit ==
  ASSUME NEW m \in Nat, NEW n \in Nat, NEW A, Within(A, m), NEW L, L = Cardinality(A),
         NEW T, T = A \cup Behind(m, 1..n)
  PROVE  RanksGoOn(T, A, m, n, L)
<1>1. A \subseteq 1..m /\ \A k \in Nat : Within(1..k, k) /\ Cardinality(1..k) = k
  BY FS_Interval DEF Within
<1>2. IsFiniteSet(A) /\ L \in Nat
  <2>1. IsFiniteSet(1..m)
    BY FS_Interval
  <2>2. QED
    BY <1>1, <2>1, FS_Subset, FS_CardinalityType
<1>3. ASSUME NEW k \in Nat PROVE Cardinality(A \cup Behind(m, 1..k)) = L + k
  <2>1. Adds(m, A, 1..k)
    BY <1>1, CountsAdd
  <2>2. QED
    BY <1>1, <2>1 DEF Adds
<1>4. ASSUME NEW i \in A PROVE Rank(T, i) = Rank(A, i) /\ Rank(A, i) \in 1..L
  <2>1. {j \in T : j <= i} = {j \in A : j <= i}
    BY <1>1 DEF Behind
  <2> DEFINE D == {j \in A : j <= i}
  <2>2. D \subseteq A /\ i \in D
    BY <1>1
  <2>3. Cardinality(D) <= L /\ IsFiniteSet(D) /\ Cardinality(D) \in Nat
    <3> HIDE DEF D
    <3>1. QED
      BY <1>2, <2>2, FS_Subset, FS_CardinalityType
  <2>4. Cardinality(D) # 0
    <3> HIDE DEF D
    <3>1. QED
      BY <2>2, <2>3, FS_EmptySet
  <2>5. Rank(T, i) = Cardinality(D) /\ Rank(A, i) = Cardinality(D)
    BY <2>1 DEF Rank
  <2>6. QED
    BY <1>2, <2>3, <2>4, <2>5
<1>5. ASSUME NEW k \in 1..n PROVE Rank(T, m + k) = L + k
  <2>1. {j \in T : j <= m + k} = A \cup Behind(m, 1..k)
    <3>1. \A j \in A : j <= m + k
      BY <1>1
    <3>2. \A j \in 1..n : m + j <= m + k <=> j \in 1..k
      OBVIOUS
    <3>3. 1..k \subseteq 1..n
      OBVIOUS
    <3>4. {j \in T : j <= m + k} \subseteq A \cup Behind(m, 1..k)
      BY <3>2 DEF Behind
    <3>5. Behind(m, 1..k) \subseteq {j \in T : j <= m + k}
      BY <3>2, <3>3 DEF Behind
    <3>6. QED
      BY <3>1, <3>4, <3>5
  <2>2. Cardinality(A \cup Behind(m, 1..k)) = L + k
    BY <1>3
  <2>3. QED
    BY <2>1, <2>2 DEF Rank
<1>6. Cardinality(T) = L + n
  BY <1>3
<1>7. QED
  BY <1>2, <1>4, <1>5, <1>6, Zenon DEF RanksGoOn

LEMMA OwnerMirrorsMore ==
  ASSUME NEW all, NEW lg, NEW new, NEW m, NEW n, Joined(all, lg, new, m, n), NEW c,
         \A k \in 1..n : c \in ToSet(new[k].stream),
         NEW S, NEW batches \in Seq(S), NEW batch \in Seq(S), Carries(new, batch),
         Mirrors(lg, c, batches)
  PROVE  Mirrors(all, c, batches \o batch)
<1> DEFINE A == Owned(lg, c)
           T == Owned(all, c)
           L == Len(batches)
           both == batches \o batch
<1>1. T = A \cup Behind(m, 1..n) /\ Within(A, m)
  BY OwnerOwnsTheNew, Zenon
<1>2. m \in Nat /\ n \in Nat /\ n = Len(batch)
  BY DEF Joined, Carries
<1>3. L = Cardinality(A)
  BY DEF Mirrors
<1>4. Joined(both, batches, batch, L, n)
  BY <1>2, ConcatJoins
<1>5. Len(both) = L + n
  BY <1>2
<1>6. \A i \in A : lg[i].stream = batches[Rank(A, i)]
  BY DEF Mirrors
<1> HIDE DEF A, T, L, both
<1>7. /\ L \in Nat
      /\ Cardinality(T) = L + n
      /\ \A i \in A : Rank(T, i) = Rank(A, i) /\ Rank(A, i) \in 1..L
      /\ \A k \in 1..n : Rank(T, m + k) = L + k
  <2>1. RanksGoOn(T, A, m, n, L)
    BY <1>1, <1>2, <1>3, RanksSplit, Zenon
  <2>2. QED
    BY <2>1, Zenon DEF RanksGoOn
<1>8. ASSUME NEW i \in A PROVE all[i].stream = both[Rank(T, i)]
  <2>1. all[i] = lg[i]
    BY <1>1 DEF Joined, Within
  <2>2. lg[i].stream = batches[Rank(A, i)]
    BY <1>6
  <2>3. Rank(T, i) = Rank(A, i) /\ Rank(A, i) \in 1..L
    BY <1>7
  <2>4. \A r \in 1..L : both[r] = batches[r]
    BY <1>4 DEF Joined
  <2>5. QED
    BY <2>1, <2>2, <2>3, <2>4
<1>9. ASSUME NEW k \in 1..n PROVE all[m + k].stream = both[Rank(T, m + k)]
  <2>1. all[m + k] = new[k] /\ new[k].stream = batch[k]
    BY <1>2 DEF Joined, Carries
  <2>2. Rank(T, m + k) = L + k
    BY <1>7
  <2>3. both[L + k] = batch[k]
    BY <1>4 DEF Joined
  <2>4. QED
    BY <2>1, <2>2, <2>3
<1>10. \A i \in T : all[i].stream = both[Rank(T, i)]
  BY <1>1, <1>8, <1>9 DEF Behind
<1>11. QED
  BY <1>5, <1>7, <1>10 DEF Mirrors, T, both

\* rows are numbered from the version of their stream
LEMMA NumbersMore ==
  ASSUME NEW all, NEW lg, NEW new, NEW m, NEW n, Joined(all, lg, new, m, n), Numbers(lg),
         \A k \in 1..n :
            new[k].version = Cardinality(Positioned(lg, new[k].stream))
                               + Cardinality({j \in 1..k : new[j].stream = new[k].stream})
  PROVE  Numbers(all)
<1>1. ASSUME NEW i \in 1..m
      PROVE  NumberedAt(all, i)
  <2>1. {j \in 1..i : all[j].stream = all[i].stream} = {j \in 1..i : lg[j].stream = lg[i].stream}
    BY DEF Joined
  <2>2. QED
    BY <2>1 DEF Joined, Numbers, NumberedAt
<1>2. ASSUME NEW k \in 1..n
      PROVE  NumberedAt(all, m + k)
  <2> DEFINE s == new[k].stream
             A == Positioned(lg, s)
             B == {j \in 1..k : new[j].stream = s}
             T == {j \in 1..(m + k) : all[j].stream = s}
  <2>1. k \in Nat /\ m \in Nat /\ n \in Nat /\ k <= n
    BY DEF Joined
  <2>2. Splits(T, A, B, m, k)
    <3>1. 1..m \subseteq 1..(m + k) /\ \A j \in 1..k : m + j \in 1..(m + k) /\ j \in 1..n
      BY <2>1
    <3>2. QED
      BY <2>1, <3>1 DEF Splits, Positioned, Joined
  <2>3. T = A \cup Behind(m, B)
    BY <2>1, <2>2, SplitIsUnion
  <2>4. Within(A, m) /\ Within(B, k)
    BY <2>2 DEF Splits, Within
  <2>5. new[k].version = Cardinality(A) + Cardinality(B)
    OBVIOUS
  <2>6. all[m + k] = new[k]
    BY DEF Joined
  <2>7. Cardinality(T) = Cardinality(A) + Cardinality(B)
    <3> HIDE DEF A, B, T
    <3>1. Adds(m, A, B)
      BY <2>1, <2>4, CountsAdd
    <3>2. QED
      BY <2>3, <3>1 DEF Adds
  <2>8. QED
    BY <2>5, <2>6, <2>7 DEF NumberedAt
<1>3. \A i \in DOMAIN all : i \in 1..m \/ \E k \in 1..n : i = m + k
  <2>1. ASSUME NEW i \in 1..(m + n), i \notin 1..m
        PROVE  i - m \in 1..n /\ i = m + (i - m)
    BY <2>1 DEF Joined
  <2>2. QED
    BY <2>1 DEF Joined
<1>4. QED
  BY <1>1, <1>2, <1>3 DEF Joined, Numbers

-------------------------------------------------------------------------------
(***************************************************************************)
(* The invariant.  Each client is in a well-formed script; its task does   *)
(* what its call asks for, and an open transaction holds a part of the     *)
(* rows of an append that is to succeed; the log mirrors what each client  *)
(* was told it has appended, and its versions are counted by it.           *)
(***************************************************************************)
StreamsIn(sc) == UNION {DOMAIN sc[i].versions : i \in {j \in 1..Len(sc) : sc[j].op = "append"}}

Named == UNION {StreamsIn(script[c]) : c \in Clients}

LogRow == [stream : Named, version : Nat, type : {ContractTestEvent}]

Progress(c) ==
  \/ script[c] = << >> /\ verdict[c] = "passed"
  \/ WellScripted(script[c], c) /\ step[c] \in 1..Len(script[c])

Inserting(c) ==
  /\ Call(c).op = "append" /\ Call(c).expects = "Ok"
  /\ rows[c] \in Seq(LogRow) /\ inserted[c] \in Seq(LogRow)
  /\ inserted[c] \o rows[c] = NewRows(Call(c))

Tasked(c) ==
  /\ task[c] \in {"waiting", "holding", "inserting"} =>
        verdict[c] = "running" /\ Call(c).op \notin {"acquire", "drop"}
  /\ task[c] = "sending" /\ verdict[c] = "running" => Call(c).op = "readStream"
  /\ task[c] = "inserting" => Inserting(c)
  /\ task[c] # "inserting" => inserted[c] = << >>
  /\ backend # "sqlite" => task[c] = "none"

Mirrored(c) == Mirrors(log, c, AcceptedBatches(c))

Counted(c) ==
  \A s \in StreamsIn(script[c]) : Cardinality(Positioned(log, s)) = Count(AcceptedBatches(c), s)

Logged ==
  /\ step \in [Clients -> Nat]
  /\ verdict \in [Clients -> {"running", "passed", "assertion", "store_error"}]
  /\ log \in Seq(LogRow)
  /\ \A c \in Clients : Progress(c) /\ Mirrored(c) /\ Counted(c)
  /\ Numbers(log)

Tasks ==
  /\ task \in [Clients -> {"none", "waiting", "holding", "inserting", "sending"}]
  /\ DOMAIN rows = Clients /\ DOMAIN inserted = Clients
  /\ \A c \in Clients : Tasked(c)

Inv == Logged /\ Tasks

-------------------------------------------------------------------------------
(***************************************************************************)
(* The next append of a client in step with the log.                       *)
(***************************************************************************)
LEMMA AcceptedIsNamed ==
  ASSUME NEW c, NEW sc, WellScripted(sc, c)
  PROVE  /\ \A i \in 1..Len(sc) : Accepted(sc[i]) \in Seq(StreamsIn(sc))
         /\ \A s \in StreamsIn(sc) : Separate(s, c)
         /\ Len(sc) \in Nat
<1>1. ASSUME NEW i \in 1..Len(sc) PROVE Accepted(sc[i]) \in Seq(StreamsIn(sc))
  <2>1. CASE sc[i].op = "append" /\ Fits(sc, i, c)
    <3>1. DOMAIN sc[i].versions \subseteq StreamsIn(sc)
      BY <2>1 DEF StreamsIn
    <3>2. sc[i].batch \in Seq(DOMAIN sc[i].versions)
      BY <2>1 DEF Fits
    <3>3. sc[i].batch \in Seq(StreamsIn(sc))
      BY <3>1, <3>2
    <3>4. << >> \in Seq(StreamsIn(sc))
      OBVIOUS
    <3>5. QED
      BY <3>3, <3>4 DEF Accepted
  <2>2. CASE Harmless(sc, i)
    <3>1. << >> \in Seq(StreamsIn(sc))
      OBVIOUS
    <3>2. QED
      BY <2>2, <3>1 DEF Accepted, Harmless
  <2>3. QED
    BY <2>1, <2>2 DEF WellScripted
<1>2. \A s \in StreamsIn(sc) : Separate(s, c)
  BY DEF StreamsIn, WellScripted, Fits, Harmless
<1>3. QED
  BY <1>1, <1>2 DEF WellScripted, IsScript

LEMMA RunningScript ==
  ASSUME Logged, NEW c \in Clients, verdict[c] = "running"
  PROVE  /\ WellScripted(script[c], c)
         /\ step[c] \in 1..Len(script[c])
         /\ Answered(c) = step[c] - 1
         /\ Len(script[c]) \in Nat
BY DEF Logged, Progress, Answered, WellScripted, IsScript

LEMMA NextAppend ==
  ASSUME Logged, NEW c \in Clients, verdict[c] = "running", Call(c).op = "append"
  PROVE  /\ Fits(script[c], step[c], c)
         /\ DOMAIN Call(c).versions \subseteq StreamsIn(script[c])
         /\ \A s \in DOMAIN Call(c).versions :
               Cardinality(Positioned(log, s)) = Count(Accumulated(script[c], step[c] - 1), s)
<1>1. Fits(script[c], step[c], c)
  BY RunningScript DEF WellScripted, Harmless, Call
<1>2. DOMAIN Call(c).versions \subseteq StreamsIn(script[c])
  BY RunningScript DEF StreamsIn, Call
<1>3. \A s \in StreamsIn(script[c]) :
        Cardinality(Positioned(log, s)) = Count(AcceptedBatches(c), s)
  BY DEF Logged, Counted
<1>4. AcceptedBatches(c) = Accumulated(script[c], step[c] - 1)
  <2>1. Answered(c) = step[c] - 1
    BY RunningScript
  <2>2. QED
    BY <2>1, Zenon DEF AcceptedBatches, Accumulated
<1>5. QED
  BY <1>1, <1>2, <1>3, <1>4

\* an append succeeds if and only if its test expects it to
LEMMA ExpectsWhatIs ==
  ASSUME Logged, NEW c \in Clients, verdict[c] = "running", Call(c).op = "append"
  PROVE  /\ Call(c).expects = "Ok" => VersionsMatch(Call(c))
         /\ VersionsMatch(Call(c)) => Call(c).expects = "Ok"
         /\ Call(c).expects \in {"Ok", "VersionConflict"}
<1>1. \A s \in DOMAIN Call(c).versions :
        Version(s) = Count(Accumulated(script[c], step[c] - 1), s)
  BY NextAppend DEF Version, Positioned
<1>2. Fits(script[c], step[c], c)
  BY NextAppend
<1>3. QED
  BY <1>1, <1>2 DEF Fits, Current, VersionsMatch, Call

LEMMA NewRowsFollow ==
  ASSUME Logged, NEW c \in Clients, verdict[c] = "running",
         Call(c).op = "append", Call(c).expects = "Ok"
  PROVE  /\ Call(c).batch \in Seq(StreamsIn(script[c]))
         /\ NewRows(Call(c)) \in Seq(LogRow)
         /\ Carries(NewRows(Call(c)), Call(c).batch)
         /\ \A k \in 1..Len(NewRows(Call(c))) :
               NewRows(Call(c))[k].version
                 = Cardinality(Positioned(log, NewRows(Call(c))[k].stream))
                     + Cardinality({j \in 1..k : NewRows(Call(c))[j].stream
                                                   = NewRows(Call(c))[k].stream})
<1> DEFINE call == Call(c)
           batch == call.batch
           new == NewRows(call)
           N == Len(batch)
           at(k) == call.versions[batch[k]] + Cardinality({j \in 1..k : batch[j] = batch[k]})
<1>1. /\ batch \in Seq(DOMAIN call.versions)
      /\ \A s \in DOMAIN call.versions : call.versions[s] \in Nat
      /\ DOMAIN call.versions \subseteq StreamsIn(script[c])
  BY NextAppend DEF Fits, Call
<1>2. batch \in Seq(StreamsIn(script[c]))
  BY <1>1
<1>3. N \in Nat /\ DOMAIN batch = 1..N /\ \A k \in 1..N : batch[k] \in DOMAIN call.versions
  BY <1>1
<1>4. \A s \in DOMAIN call.versions : call.versions[s] = Cardinality(Positioned(log, s))
  BY ExpectsWhatIs DEF VersionsMatch, Version, Positioned
<1>5. \A k \in 1..N : Cardinality({j \in 1..k : batch[j] = batch[k]}) \in Nat
  <2>1. ASSUME NEW k \in 1..N PROVE Cardinality({j \in 1..k : batch[j] = batch[k]}) \in Nat
    <3>1. IsFiniteSet(1..k)
      BY <1>3, FS_Interval
    <3>2. QED
      BY <3>1, FS_Subset, FS_CardinalityType
  <2>2. QED
    BY <2>1
<1>6. /\ DOMAIN new = 1..N /\ new = [k \in 1..N |-> new[k]]
      /\ \A k \in 1..N :
           new[k] = [stream |-> batch[k], version |-> at(k), type |-> ContractTestEvent]
  BY <1>3 DEF NewRows
<1>7. StreamsIn(script[c]) \subseteq Named
  BY DEF Named
<1> HIDE DEF new
<1>8. \A k \in 1..N : new[k] \in LogRow
  <2>1. \A k \in 1..N : at(k) \in Nat /\ batch[k] \in Named
    BY <1>1, <1>3, <1>5, <1>7
  <2> HIDE DEF at, batch
  <2>2. QED
    BY <1>6, <2>1 DEF LogRow
<1>9. new \in Seq(LogRow) /\ Len(new) = N
  BY <1>3, <1>6, <1>8
<1>10. \A k \in 1..N : new[k].stream = batch[k] /\ new[k].version = at(k)
  <2> HIDE DEF at, batch
  <2>1. QED
    BY <1>6
<1>11. ASSUME NEW k \in 1..N
       PROVE  new[k].version = Cardinality(Positioned(log, new[k].stream))
                                 + Cardinality({j \in 1..k : new[j].stream = new[k].stream})
  <2>1. {j \in 1..k : new[j].stream = new[k].stream} = {j \in 1..k : batch[j] = batch[k]}
    <3>1. 1..k \subseteq 1..N
      BY <1>3
    <3> HIDE DEF at, batch, N
    <3>2. QED
      BY <1>10, <3>1
  <2>2. call.versions[batch[k]] = Cardinality(Positioned(log, batch[k]))
    BY <1>3, <1>4
  <2>3. QED
    <3>1. new[k].stream = batch[k] /\ new[k].version = at(k)
      BY <1>10
    <3>2. QED
      BY <2>1, <2>2, <3>1, Zenon
<1>12. QED
  BY <1>2, <1>9, <1>10, <1>11 DEF Carries, new

-------------------------------------------------------------------------------
(***************************************************************************)
(* What a step does to the log and to the progress of the client: nothing, *)
(* or its call is answered, or its accepted append is committed.           *)
(***************************************************************************)
Passes(c) ==
  \/ /\ step[c] # Len(script[c])
     /\ step' = [step EXCEPT ![c] = @ + 1]
     /\ verdict' = verdict
  \/ /\ step[c] = Len(script[c])
     /\ step' = step
     /\ verdict' = [verdict EXCEPT ![c] = "passed"]

Fails(c) ==
  /\ step' = step
  /\ \E how \in {"assertion", "store_error"} : verdict' = [verdict EXCEPT ![c] = how]

Quiet(c) ==
  /\ script' = script /\ log' = log
  /\ \/ step' = step /\ verdict' = verdict
     \/ verdict[c] = "running" /\ Fails(c)
     \/ verdict[c] = "running" /\ Passes(c) /\ Accepted(Call(c)) = << >>

Grows(c) ==
  /\ script' = script
  /\ verdict[c] = "running" /\ Passes(c)
  /\ Call(c).op = "append" /\ Call(c).expects = "Ok"
  /\ log' = log \o NewRows(Call(c))

LEMMA PassesOn ==
  ASSUME Logged, NEW c \in Clients, verdict[c] = "running", script' = script, Passes(c)
  PROVE  /\ step' \in [Clients -> Nat]
         /\ verdict' \in [Clients -> {"running", "passed", "assertion", "store_error"}]
         /\ \A d \in Clients : Progress(d)'
         /\ Answered(c)' = step[c]
         /\ \A d \in Clients \ {c} : Answered(d)' = Answered(d)
<1>1. /\ step \in [Clients -> Nat]
      /\ verdict \in [Clients -> {"running", "passed", "assertion", "store_error"}]
      /\ \A d \in Clients : Progress(d)
  BY DEF Logged
<1>2. step[c] \in 1..Len(script[c]) /\ Len(script[c]) \in Nat /\ WellScripted(script[c], c)
  BY RunningScript
<1>3. CASE /\ step[c] # Len(script[c])
           /\ step' = [step EXCEPT ![c] = @ + 1]
           /\ verdict' = verdict
  <2>1. step'[c] = step[c] + 1 /\ \A d \in Clients \ {c} : step'[d] = step[d]
    BY <1>1, <1>3
  <2>2. step'[c] \in 1..Len(script[c])
    BY <1>2, <1>3, <2>1
  <2>3. step' \in [Clients -> Nat]
    BY <1>1, <1>2, <1>3
  <2>4. Answered(c)' = step[c] /\ \A d \in Clients \ {c} : Answered(d)' = Answered(d)
    BY <1>1, <1>2, <1>3, <2>1 DEF Answered
  <2>5. \A d \in Clients : Progress(d)'
    BY <1>1, <1>2, <1>3, <2>1, <2>2 DEF Progress
  <2>6. QED
    BY <1>1, <1>3, <2>3, <2>4, <2>5
<1>4. CASE /\ step[c] = Len(script[c])
           /\ step' = step
           /\ verdict' = [verdict EXCEPT ![c] = "passed"]
  <2>1. verdict'[c] = "passed" /\ \A d \in Clients \ {c} : verdict'[d] = verdict[d]
    BY <1>1, <1>4
  <2>2. Answered(c)' = step[c] /\ \A d \in Clients \ {c} : Answered(d)' = Answered(d)
    BY <1>4, <2>1 DEF Answered
  <2>3. \A d \in Clients : Progress(d)'
    BY <1>1, <1>2, <1>4, <2>1 DEF Progress
  <2>4. QED
    BY <1>1, <1>4, <2>2, <2>3
<1>5. QED
  BY <1>3, <1>4 DEF Passes

LEMMA FailsThere ==
  ASSUME Logged, NEW c \in Clients, verdict[c] = "running", script' = script, Fails(c)
  PROVE  /\ step' \in [Clients -> Nat]
         /\ verdict' \in [Clients -> {"running", "passed", "assertion", "store_error"}]
         /\ \A d \in Clients : Progress(d)' /\ Answered(d)' = Answered(d)
<1>1. /\ step \in [Clients -> Nat]
      /\ verdict \in [Clients -> {"running", "passed", "assertion", "store_error"}]
      /\ \A d \in Clients : Progress(d)
  BY DEF Logged
<1>2. step[c] \in 1..Len(script[c]) /\ WellScripted(script[c], c)
  BY RunningScript
<1>3. PICK how \in {"assertion", "store_error"} : verdict' = [verdict EXCEPT ![c] = how]
  BY DEF Fails
<1>4. step' = step
  BY DEF Fails
<1>5. verdict'[c] = how /\ \A d \in Clients \ {c} : verdict'[d] = verdict[d]
  BY <1>1, <1>3
<1>6. \A d \in Clients : Answered(d)' = Answered(d)
  BY <1>4, <1>5 DEF Answered
<1>7. \A d \in Clients : Progress(d)'
  BY <1>1, <1>2, <1>4, <1>5 DEF Progress
<1>8. QED
  BY <1>1, <1>3, <1>4, <1>6, <1>7

LEMMA SameAnswersSameLog ==
  ASSUME Logged, script' = script, log' = log,
         step' \in [Clients -> Nat],
         verdict' \in [Clients -> {"running", "passed", "assertion", "store_error"}],
         \A d \in Clients : Progress(d)' /\ AcceptedBatches(d)' = AcceptedBatches(d)
  PROVE  Logged'
<1>1. Named' = Named
  BY DEF Named
<1>2. \A d \in Clients : Mirrored(d)' /\ Counted(d)'
  BY DEF Logged, Mirrored, Counted
<1>3. (log \in Seq(LogRow))' /\ Numbers(log)'
  BY <1>1 DEF Logged, LogRow
<1>4. QED
  BY <1>2, <1>3 DEF Logged

LEMMA AnswersAccumulate ==
  ASSUME Logged, NEW c \in Clients, verdict[c] = "running", script' = script, Passes(c)
  PROVE  /\ AcceptedBatches(c) \in Seq(StreamsIn(script[c]))
         /\ AcceptedBatches(c)' = AcceptedBatches(c) \o Accepted(Call(c))
         /\ Accepted(Call(c)) \in Seq(StreamsIn(script[c]))
         /\ \A d \in Clients \ {c} : AcceptedBatches(d)' = AcceptedBatches(d)
<1> DEFINE sc == script[c]
           k == step[c]
           S == StreamsIn(sc)
<1>1. /\ Answered(c)' = k /\ Answered(c) = k - 1
      /\ \A d \in Clients \ {c} : Answered(d)' = Answered(d)
  BY PassesOn, RunningScript
<1>2. \A d \in Clients \ {c} : AcceptedBatches(d)' = AcceptedBatches(d)
  BY <1>1 DEF AcceptedBatches
<1>3. k \in Nat /\ k # 0 /\ k - 1 \in Nat /\ k - 1 <= k /\ k <= Len(sc) /\ Len(sc) \in Nat
  BY RunningScript
<1>4. WellScripted(sc, c)
  BY RunningScript
<1>5. \A i \in 1..Len(sc) : Accepted(sc[i]) \in Seq(S)
  BY <1>4, AcceptedIsNamed
<1>6. AcceptedBatches(c)' = Accumulated(sc, k) /\ AcceptedBatches(c) = Accumulated(sc, k - 1)
  BY <1>1, Zenon DEF AcceptedBatches, Accumulated
<1>7. Accepted(Call(c)) = Accepted(sc[k])
  BY DEF Call
<1> HIDE DEF sc, k, S
<1>8. \A i \in 1..k : Accepted(sc[i]) \in Seq(S)
  BY <1>3, <1>5
<1>9. Accumulated(sc, k) = Accumulated(sc, k - 1) \o Accepted(sc[k])
  BY <1>3, <1>8, Accumulates
<1>10. \A i \in 1..(k - 1) : Accepted(sc[i]) \in Seq(S)
  BY <1>3, <1>8
<1>11. Accumulated(sc, k - 1) \in Seq(S)
  BY <1>3, <1>10, AccumulatedIsSequence
<1>12. Accepted(sc[k]) \in Seq(S)
  BY <1>3, <1>8
<1>13. QED
  BY <1>2, <1>6, <1>7, <1>9, <1>11, <1>12, Zenon DEF sc, S

LEMMA QuietKeeps ==
  ASSUME Logged, NEW c \in Clients, Quiet(c)
  PROVE  Logged'
<1>1. script' = script /\ log' = log
  BY DEF Quiet
<1>2. CASE step' = step /\ verdict' = verdict
  <2>1. \A d \in Clients : Progress(d)' /\ AcceptedBatches(d)' = AcceptedBatches(d)
    BY <1>1, <1>2 DEF Logged, Progress, AcceptedBatches, Answered
  <2>2. QED
    BY <1>1, <1>2, <2>1, SameAnswersSameLog DEF Logged
<1>3. CASE verdict[c] = "running" /\ Fails(c)
  <2>1. \A d \in Clients : Answered(d)' = Answered(d)
    BY <1>1, <1>3, FailsThere
  <2>2. \A d \in Clients : AcceptedBatches(d)' = AcceptedBatches(d)
    BY <1>1, <2>1 DEF AcceptedBatches
  <2>3. QED
    BY <1>1, <1>3, <2>2, FailsThere, SameAnswersSameLog
<1>4. CASE verdict[c] = "running" /\ Passes(c) /\ Accepted(Call(c)) = << >>
  <2>1. /\ AcceptedBatches(c) \in Seq(StreamsIn(script[c]))
        /\ AcceptedBatches(c)' = AcceptedBatches(c) \o << >>
        /\ \A d \in Clients \ {c} : AcceptedBatches(d)' = AcceptedBatches(d)
    BY <1>1, <1>4, AnswersAccumulate, Zenon
  <2>2. AcceptedBatches(c)' = AcceptedBatches(c)
    BY <2>1
  <2>3. QED
    BY <1>1, <1>4, <2>1, <2>2, PassesOn, SameAnswersSameLog
<1>5. QED
  BY <1>2, <1>3, <1>4 DEF Quiet

LEMMA GrowsKeeps ==
  ASSUME Logged, NEW c \in Clients, Grows(c)
  PROVE  Logged'
<1> DEFINE new == NewRows(Call(c))
           batch == Call(c).batch
           batches == AcceptedBatches(c)
           S == StreamsIn(script[c])
           m == Len(log)
           n == Len(new)
<1>1. /\ script' = script
      /\ verdict[c] = "running" /\ Passes(c)
      /\ Call(c).op = "append" /\ Call(c).expects = "Ok"
      /\ log' = log \o new
  BY DEF Grows
<1>2. log \in Seq(LogRow) /\ Numbers(log)
      /\ \A d \in Clients : Progress(d) /\ Mirrored(d) /\ Counted(d)
  BY DEF Logged
<1>3. /\ step' \in [Clients -> Nat]
      /\ verdict' \in [Clients -> {"running", "passed", "assertion", "store_error"}]
      /\ \A d \in Clients : Progress(d)'
  BY <1>1, PassesOn
<1>4. /\ batches \in Seq(S)
      /\ AcceptedBatches(c)' = batches \o batch
      /\ \A d \in Clients \ {c} : AcceptedBatches(d)' = AcceptedBatches(d)
  <2>1. Accepted(Call(c)) = batch
    BY <1>1 DEF Accepted
  <2>2. QED
    BY <1>1, <2>1, AnswersAccumulate, Zenon
<1>5. /\ batch \in Seq(S)
      /\ new \in Seq(LogRow)
      /\ Carries(new, batch)
      /\ \A k \in 1..n :
            new[k].version = Cardinality(Positioned(log, new[k].stream))
                               + Cardinality({j \in 1..k : new[j].stream = new[k].stream})
  BY <1>1, NewRowsFollow, Zenon
<1>6. Joined(log', log, new, m, n)
  <2> HIDE DEF new
  <2>1. QED
    BY <1>1, <1>2, <1>5, ConcatJoins
<1>7. \A s \in S : Separate(s, c)
  BY <1>1, RunningScript, AcceptedIsNamed
<1> HIDE DEF new, batch, batches, S, m, n
<1>8. m \in Nat /\ n \in Nat /\ n = Len(batch) /\ DOMAIN new = 1..n /\ DOMAIN batch = 1..n
      /\ \A k \in 1..n : new[k].stream = batch[k] /\ batch[k] \in S
  BY <1>5, <1>6 DEF Joined, Carries
<1>9. Mirrored(c)'
  <2>1. \A k \in 1..n : c \in ToSet(new[k].stream)
    BY <1>7, <1>8 DEF Separate
  <2>2. Mirrors(log', c, batches \o batch)
    BY <1>2, <1>4, <1>5, <1>6, <2>1, OwnerMirrorsMore DEF Mirrored, batches
  <2>3. QED
    BY <1>4, <2>2, Zenon DEF Mirrored
<1>10. ASSUME NEW d \in Clients \ {c} PROVE Mirrored(d)'
  <2>1. \A k \in 1..n : d \notin ToSet(new[k].stream)
    BY <1>7, <1>8 DEF Separate
  <2>2. Mirrors(log', d, AcceptedBatches(d))
    BY <1>2, <1>6, <2>1, OthersOwnNothingNew DEF Mirrored
  <2>3. QED
    BY <1>4, <2>2, Zenon DEF Mirrored
<1>11. \A s : Positioned(log', s) = Positioned(log, s) \cup Behind(m, Positioned(new, s))
  BY <1>6, StreamGrows
<1>12. Counted(c)'
  <2>1. ASSUME NEW s \in S
        PROVE  Cardinality(Positioned(log', s)) = Count(batches \o batch, s)
    <3>1. Within(Positioned(log, s), m) /\ Within(Positioned(new, s), n)
      BY <1>6 DEF Joined, Positioned, Within
    <3>2. Adds(m, Positioned(log, s), Positioned(new, s))
      BY <1>8, <3>1, CountsAdd
    <3>3. Sums(batches, batch, s)
      BY <1>4, <1>5, CountConcat, Zenon
    <3>4. Positioned(new, s) = {k \in DOMAIN batch : batch[k] = s}
      BY <1>8 DEF Positioned
    <3>5. Cardinality(Positioned(new, s)) = Count(batch, s)
      BY <3>4, Zenon DEF Count
    <3>6. Cardinality(Positioned(log, s)) = Count(batches, s)
      BY <1>2 DEF Counted, S, batches
    <3>7. Cardinality(Positioned(log', s))
            = Cardinality(Positioned(log, s)) + Cardinality(Positioned(new, s))
      BY <1>11, <3>2 DEF Adds
    <3>8. Count(batches \o batch, s) = Count(batches, s) + Count(batch, s)
      BY <3>3 DEF Sums
    <3>9. QED
      BY <3>5, <3>6, <3>7, <3>8, Zenon
  <2>2. S = StreamsIn(script'[c])
    BY <1>1 DEF S
  <2>3. QED
    BY <1>4, <2>1, <2>2, Zenon DEF Counted
<1>13. ASSUME NEW d \in Clients \ {c} PROVE Counted(d)'
  <2>1. ASSUME NEW s \in StreamsIn(script[d])
        PROVE  Cardinality(Positioned(log', s)) = Count(AcceptedBatches(d), s)
    <3>1. d \in ToSet(s)
      <4>1. script[d] = << >> => StreamsIn(script[d]) = {}
        BY DEF StreamsIn
      <4>2. WellScripted(script[d], d)
        BY <1>2, <2>1, <4>1 DEF Progress
      <4>3. QED
        BY <4>2, AcceptedIsNamed DEF Separate
    <3>2. Positioned(new, s) = {}
      BY <1>7, <1>8, <3>1 DEF Positioned, Separate
    <3>3. Positioned(log', s) = Positioned(log, s)
      BY <1>11, <3>2 DEF Behind
    <3>4. QED
      BY <1>2, <3>3 DEF Counted
  <2>2. QED
    BY <1>1, <1>4, <2>1 DEF Counted
<1>14. Numbers(log')
  <2>1. QED
    BY <1>2, <1>5, <1>6, NumbersMore
<1>15. (log \in Seq(LogRow))'
  <2>1. Named' = Named
    BY <1>1 DEF Named
  <2>2. log' \in Seq(LogRow)
    BY <1>1, <1>2, <1>5
  <2>3. QED
    BY <2>1, <2>2 DEF LogRow
<1>16. QED
  BY <1>3, <1>9, <1>10, <1>12, <1>13, <1>14, <1>15 DEF Logged

-------------------------------------------------------------------------------
(***************************************************************************)
(* What a step does to the tasks.                                          *)
(***************************************************************************)
OthersStay(c) ==
  /\ script' = script /\ backend' = backend
  /\ \A d \in Clients \ {c} :
        /\ step'[d] = step[d] /\ verdict'[d] = verdict[d] /\ task'[d] = task[d]
        /\ rows'[d] = rows[d] /\ inserted'[d] = inserted[d]

LEMMA TasksKept ==
  ASSUME Tasks, NEW c \in Clients, OthersStay(c),
         task' \in [Clients -> {"none", "waiting", "holding", "inserting", "sending"}],
         DOMAIN rows' = Clients, DOMAIN inserted' = Clients, Tasked(c)'
  PROVE  Tasks'
<1>1. LogRow' = LogRow
  <2>1. Named' = Named
    BY DEF Named, OthersStay
  <2>2. QED
    BY <2>1 DEF LogRow
<1>2. ASSUME NEW d \in Clients \ {c} PROVE Tasked(d)'
  <2>1. /\ step'[d] = step[d] /\ verdict'[d] = verdict[d] /\ task'[d] = task[d]
        /\ rows'[d] = rows[d] /\ inserted'[d] = inserted[d] /\ backend' = backend
        /\ Tasked(d)
    BY DEF OthersStay, Tasks
  <2>2. Call(d)' = Call(d)
    BY <2>1 DEF OthersStay, Call
  <2>3. NewRows(Call(d))' = NewRows(Call(d))
    BY <2>2 DEF NewRows
  <2>4. Inserting(d) => Inserting(d)'
    BY <1>1, <2>1, <2>2, <2>3 DEF Inserting
  <2>5. QED
    BY <2>1, <2>2, <2>4 DEF Tasked
<1>3. QED
  BY <1>2 DEF Tasks

LEMMA PassesLeavesOthers ==
  ASSUME Logged, NEW c \in Clients, Passes(c)
  PROVE  \A d \in Clients \ {c} : step'[d] = step[d] /\ verdict'[d] = verdict[d]
BY DEF Logged, Passes

LEMMA FailsLeavesOthers ==
  ASSUME Logged, NEW c \in Clients, Fails(c)
  PROVE  \A d \in Clients \ {c} : step'[d] = step[d] /\ verdict'[d] = verdict[d]
BY DEF Logged, Fails

\* a call is answered; if it appended, its test does not expect it to have
Answering(c) ==
  /\ script' = script /\ backend' = backend
  /\ log' = log /\ rows' = rows /\ inserted' = inserted
  /\ verdict[c] = "running"
  /\ task[c] # "inserting"
  /\ task' = [task EXCEPT ![c] = "none"]
  /\ \/ Fails(c)
     \/ Passes(c) /\ Accepted(Call(c)) = << >>

LEMMA AnsweringKeeps ==
  ASSUME Inv, NEW c \in Clients, Answering(c)
  PROVE  Inv'
<1>1. Logged'
  <2>1. Quiet(c)
    BY DEF Answering, Quiet
  <2>2. QED
    BY <2>1, QuietKeeps DEF Inv
<1>2. OthersStay(c)
  <2>1. \A d \in Clients \ {c} : step'[d] = step[d] /\ verdict'[d] = verdict[d]
    BY PassesLeavesOthers, FailsLeavesOthers DEF Answering, Inv
  <2>2. QED
    BY <2>1 DEF Answering, OthersStay, Inv, Tasks
<1>3. Tasked(c)'
  BY DEF Answering, Tasked, Inv, Tasks
<1>4. /\ task' \in [Clients -> {"none", "waiting", "holding", "inserting", "sending"}]
      /\ DOMAIN rows' = Clients /\ DOMAIN inserted' = Clients
  BY DEF Answering, Inv, Tasks
<1>5. QED
  BY <1>1, <1>2, <1>3, <1>4, TasksKept DEF Inv

\* a step of the task that answers nothing
Working(c) ==
  /\ script' = script /\ backend' = backend
  /\ log' = log /\ step' = step /\ verdict' = verdict
  /\ \A d \in Clients \ {c} :
        task'[d] = task[d] /\ rows'[d] = rows[d] /\ inserted'[d] = inserted[d]
  /\ task' \in [Clients -> {"none", "waiting", "holding", "inserting", "sending"}]
  /\ DOMAIN rows' = Clients /\ DOMAIN inserted' = Clients
  /\ Tasked(c)'

LEMMA WorkingKeeps ==
  ASSUME Inv, NEW c \in Clients, Working(c)
  PROVE  Inv'
<1>1. Logged'
  <2>1. Quiet(c)
    BY DEF Working, Quiet
  <2>2. QED
    BY <2>1, QuietKeeps DEF Inv
<1>2. OthersStay(c)
  BY DEF Working, OthersStay
<1>3. QED
  BY <1>1, <1>2, TasksKept DEF Inv, Working

\* an answer moves the test on, or fails it
LEMMA AcceptsMoves ==
  ASSUME Logged, NEW c \in Clients, verdict[c] = "running", NEW ok \in BOOLEAN, Accepts(c, ok)
  PROVE  /\ ok => Passes(c)
         /\ ~ok => Fails(c)
<1>1. step[c] \in 1..Len(script[c]) /\ Len(script[c]) \in Nat
  BY RunningScript
<1>2. CASE ok
  BY <1>1, <1>2 DEF Accepts, Ends, Passes
<1>3. CASE ~ok
  BY <1>3 DEF Accepts, Ends, Fails
<1>4. QED
  BY <1>2, <1>3

LEMMA ExecutesIdly ==
  ASSUME Inv, NEW c \in Clients, NEW op, Executes(c, op)
  PROVE  /\ verdict[c] = "running" /\ Call(c).op = op
         /\ task[c] # "inserting" /\ inserted[c] = << >>
BY DEF Executes, Running, Inv, Tasks, Tasked

-------------------------------------------------------------------------------
(***************************************************************************)
(* The invariant holds at first, and every step keeps it.                  *)
(***************************************************************************)
LEMMA InvInit == Init => Inv
<1> SUFFICES ASSUME Init PROVE Inv
  OBVIOUS
<1>1. \A c \in Clients : test[c] \in DOMAIN SuiteFor(c) \cup {"none"}
  BY SchedulesAssumption DEF Init
<1>2. ASSUME NEW c \in Clients PROVE Progress(c)
  <2>1. CASE test[c] = "none"
    BY <2>1 DEF Init, Progress
  <2>2. CASE test[c] # "none"
    <3>1. script[c] = SuiteFor(c)[test[c]]
      BY <2>2 DEF Init
    <3>2. WellScripted(script[c], c)
      BY <1>1, <2>2, <3>1, SuiteFits
    <3>3. step[c] = 1 /\ Len(script[c]) \in Nat \ {0}
      BY <3>2 DEF Init, WellScripted, IsScript
    <3>4. step[c] \in 1..Len(script[c])
      BY <3>3
    <3>5. QED
      BY <3>2, <3>4 DEF Progress
  <2>3. QED
    BY <2>1, <2>2
<1>3. ASSUME NEW c \in Clients PROVE AcceptedBatches(c) = << >>
  <2>1. Answered(c) = 0
    BY DEF Init, Answered
  <2>2. AcceptedBatches(c) = Accumulated(script[c], 0)
    BY <2>1, Zenon DEF AcceptedBatches, Accumulated
  <2>3. QED
    BY <2>2, NothingAccumulated
<1>4. log = << >> /\ log \in Seq(LogRow)
  BY DEF Init
<1>5. ASSUME NEW c \in Clients PROVE Mirrored(c) /\ Counted(c)
  <2>1. Owned(log, c) = {} /\ \A s : Positioned(log, s) = {}
    BY <1>4 DEF Owned, Positioned
  <2>2. Cardinality({}) = 0 /\ Len(<< >>) = 0
    BY FS_EmptySet
  <2>3. Mirrored(c)
    BY <1>3, <2>1, <2>2 DEF Mirrored, Mirrors
  <2>4. Counted(c)
    BY <1>3, <2>1, <2>2, CountOfNone DEF Counted
  <2>5. QED
    BY <2>3, <2>4
<1>6. Numbers(log)
  BY <1>4 DEF Numbers
<1>7. Logged
  <2>1. /\ step \in [Clients -> Nat]
        /\ verdict \in [Clients -> {"running", "passed", "assertion", "store_error"}]
    BY DEF Init
  <2>2. QED
    BY <1>2, <1>4, <1>5, <1>6, <2>1 DEF Logged
<1>8. Tasks
  BY DEF Init, Tasks, Tasked
<1>9. QED
  BY <1>7, <1>8 DEF Inv

LEMMA CallsKeep ==
  ASSUME Inv, NEW c \in Clients,
         \/ ReadStream(c) \/ ReadEvents(c) \/ SaveSnapshot(c) \/ LoadSnapshot(c)
         \/ SaveCheckpoint(c) \/ LoadCheckpoint(c)
  PROVE  Inv'
<1>1. CASE ReadStream(c)
  <2>1. verdict[c] = "running" /\ Call(c).op = "readStream" /\ task[c] # "inserting"
    BY <1>1, ExecutesIdly DEF ReadStream
  <2>2. Passes(c) \/ Fails(c)
    BY <1>1, <2>1, RunningScript DEF Inv, ReadStream, Accepts, Ends, Passes, Fails
  <2>3. Accepted(Call(c)) = << >>
    BY <2>1 DEF Accepted
  <2>4. QED
    BY <1>1, <2>1, <2>2, <2>3, AnsweringKeeps
       DEF ReadStream, Answering, Returns, ReleaseConnection, fixed, data
<1>2. CASE ReadEvents(c)
  <2>1. verdict[c] = "running" /\ Call(c).op = "readEvents" /\ task[c] # "inserting"
    BY <1>2, ExecutesIdly DEF ReadEvents
  <2>2. Passes(c) \/ Fails(c)
    <3>1. PICK page \in {Page(Call(c).filter, Call(c).limit,
                               IF Call(c).resume THEN mark[c] ELSE 0)} :
            Accepts(c, EventsAreExpected(c, page))
      BY <1>2 DEF ReadEvents
    <3>2. QED
      BY <2>1, <3>1, RunningScript DEF Inv, Accepts, Ends, Passes, Fails
  <2>3. Accepted(Call(c)) = << >>
    BY <2>1 DEF Accepted
  <2>4. QED
    BY <1>2, <2>1, <2>2, <2>3, AnsweringKeeps
       DEF ReadEvents, Answering, Returns, ReleaseConnection, fixed, data
<1>3. CASE SaveSnapshot(c)
  <2>1. verdict[c] = "running" /\ Call(c).op = "saveSnapshot" /\ task[c] # "inserting"
    BY <1>3, ExecutesIdly DEF SaveSnapshot
  <2>2. Passes(c) \/ Fails(c)
    BY <1>3, <2>1, RunningScript DEF Inv, SaveSnapshot, Answers, Accepts, Ends, Passes, Fails
  <2>3. Accepted(Call(c)) = << >>
    BY <2>1 DEF Accepted
  <2>4. QED
    BY <1>3, <2>1, <2>2, <2>3, AnsweringKeeps
       DEF SaveSnapshot, Answering, Returns, ReleaseConnection, fixed, data
<1>4. CASE LoadSnapshot(c)
  <2>1. verdict[c] = "running" /\ Call(c).op = "loadSnapshot" /\ task[c] # "inserting"
    BY <1>4, ExecutesIdly DEF LoadSnapshot
  <2>2. Passes(c) \/ Fails(c)
    BY <1>4, <2>1, RunningScript DEF Inv, LoadSnapshot, Accepts, Ends, Passes, Fails
  <2>3. Accepted(Call(c)) = << >>
    BY <2>1 DEF Accepted
  <2>4. QED
    BY <1>4, <2>1, <2>2, <2>3, AnsweringKeeps
       DEF LoadSnapshot, Answering, Returns, ReleaseConnection, fixed, data
<1>5. CASE SaveCheckpoint(c)
  <2>1. verdict[c] = "running" /\ Call(c).op = "saveCheckpoint" /\ task[c] # "inserting"
    BY <1>5, ExecutesIdly DEF SaveCheckpoint
  <2>2. Passes(c) \/ Fails(c)
    BY <1>5, <2>1, RunningScript DEF Inv, SaveCheckpoint, Answers, Accepts, Ends, Passes, Fails
  <2>3. Accepted(Call(c)) = << >>
    BY <2>1 DEF Accepted
  <2>4. QED
    BY <1>5, <2>1, <2>2, <2>3, AnsweringKeeps
       DEF SaveCheckpoint, Answering, Returns, ReleaseConnection, fixed, data
<1>6. CASE LoadCheckpoint(c)
  <2>1. verdict[c] = "running" /\ Call(c).op = "loadCheckpoint" /\ task[c] # "inserting"
    BY <1>6, ExecutesIdly DEF LoadCheckpoint
  <2>2. Passes(c) \/ Fails(c)
    BY <1>6, <2>1, RunningScript DEF Inv, LoadCheckpoint, Accepts, Ends, Passes, Fails
  <2>3. Accepted(Call(c)) = << >>
    BY <2>1 DEF Accepted
  <2>4. QED
    BY <1>6, <2>1, <2>2, <2>3, AnsweringKeeps
       DEF LoadCheckpoint, Answering, Returns, ReleaseConnection, fixed, data
<1>7. QED
  BY <1>1, <1>2, <1>3, <1>4, <1>5, <1>6

LEMMA CoordinationKeeps ==
  ASSUME Inv, NEW c \in Clients, TryAcquire(c) \/ DropGuard(c) \/ EndOfScope(c)
  PROVE  Inv'
<1>1. CASE TryAcquire(c)
  <2>1. verdict[c] = "running" /\ Call(c).op = "acquire"
    BY <1>1 DEF TryAcquire, Running
  <2>2. Passes(c) \/ Fails(c)
    BY <1>1, <2>1, RunningScript DEF Inv, TryAcquire, Answers, Accepts, Ends, Passes, Fails
  <2>3. Accepted(Call(c)) = << >>
    BY <2>1 DEF Accepted
  <2>4. /\ task[c] = "none"
        /\ task \in [Clients -> {"none", "waiting", "holding", "inserting", "sending"}]
    BY <2>1 DEF Inv, Tasks, Tasked
  <2>5. task = [task EXCEPT ![c] = "none"]
    BY <2>4
  <2>6. QED
    BY <1>1, <2>1, <2>2, <2>3, <2>4, <2>5, AnsweringKeeps DEF TryAcquire, Answering, fixed, tasks
<1>2. CASE DropGuard(c)
  <2>1. verdict[c] = "running" /\ Call(c).op = "drop"
    BY <1>2 DEF DropGuard, Running
  <2>2. Passes(c) \/ Fails(c)
    BY <1>2, <2>1, RunningScript DEF Inv, DropGuard, Answers, Accepts, Ends, Passes, Fails
  <2>3. Accepted(Call(c)) = << >>
    BY <2>1 DEF Accepted
  <2>4. /\ task[c] = "none"
        /\ task \in [Clients -> {"none", "waiting", "holding", "inserting", "sending"}]
    BY <2>1 DEF Inv, Tasks, Tasked
  <2>5. task = [task EXCEPT ![c] = "none"]
    BY <2>4
  <2>6. QED
    BY <1>2, <2>1, <2>2, <2>3, <2>4, <2>5, AnsweringKeeps DEF DropGuard, Answering, fixed, tasks
<1>3. CASE EndOfScope(c)
  <2>1. Tasked(c)'
    BY <1>3 DEF EndOfScope, Inv, Tasks, Tasked, Inserting, LogRow, Named, NewRows, Call, fixed, tasks
  <2>2. Working(c)
    BY <1>3, <2>1 DEF EndOfScope, Working, Inv, Tasks, fixed, tasks
  <2>3. QED
    BY <2>2, WorkingKeeps
<1>4. QED
  BY <1>1, <1>2, <1>3

LEMMA ReadTasksKeep ==
  ASSUME Inv, NEW c \in Clients,
         \/ Spawn(c) \/ LockConnection(c) \/ Query(c) \/ SendRow(c) \/ TaskEnds(c) \/ ReadFails(c)
         \/ Receive(c) \/ StreamEnds(c)
  PROVE  Inv'
<1>1. CASE Spawn(c)
  <2>1. Working(c)
    BY <1>1 DEF Spawn, Working, Inv, Tasks, Tasked, Call, fixed, data
  <2>2. QED
    BY <2>1, WorkingKeeps
<1>2. CASE LockConnection(c)
  <2>1. Working(c)
    BY <1>2 DEF LockConnection, Working, Inv, Tasks, Tasked, Call, fixed, data
  <2>2. QED
    BY <2>1, WorkingKeeps
<1>3. CASE Query(c)
  <2>1. Working(c)
    BY <1>3, ExecutesIdly DEF Query, Executes, Running, Working, Inv, Tasks, Tasked, Call, fixed, data
  <2>2. QED
    BY <2>1, WorkingKeeps
<1>4. CASE SendRow(c)
  <2>1. Working(c)
    BY <1>4 DEF SendRow, Working, Inv, Tasks, Tasked, Call, fixed, data
  <2>2. QED
    BY <2>1, WorkingKeeps
<1>5. CASE TaskEnds(c)
  <2>1. Working(c)
    BY <1>5 DEF TaskEnds, Working, Inv, Tasks, Tasked, Call, fixed, data
  <2>2. QED
    BY <2>1, WorkingKeeps
<1>6. CASE ReadFails(c)
  <2>1. Working(c)
    BY <1>6 DEF ReadFails, Working, Inv, Tasks, Tasked, Call, fixed, data
  <2>2. QED
    BY <2>1, WorkingKeeps
<1>7. CASE Receive(c)
  <2>1. /\ verdict[c] = "running" /\ task[c] = "sending" /\ Call(c).op = "readStream"
        /\ inserted[c] = << >>
    BY <1>7 DEF Receive, Inv, Tasks, Tasked
  <2>2. Call(c).expects = "DeserializationFailed" => step[c] = Len(script[c])
    BY <2>1, RunningScript DEF Inv, WellScripted, Harmless, Call
  <2>3. Accepted(Call(c)) = << >>
    BY <2>1 DEF Accepted
  <2>4. \/ step' = step /\ verdict' = verdict
        \/ Fails(c)
        \/ Passes(c) /\ verdict'[c] # "running"
    BY <1>7, <2>2 DEF Receive, Ends, Passes, Fails, Inv, Logged
  <2>5. CASE step' = step /\ verdict' = verdict
    <3>1. Working(c)
      BY <1>7, <2>1, <2>5 DEF Receive, Working, Inv, Tasks, Tasked, Call, fixed, data
    <3>2. QED
      BY <3>1, WorkingKeeps
  <2>6. CASE Fails(c) \/ (Passes(c) /\ verdict'[c] # "running")
    <3>1. Logged'
      <4>1. Quiet(c)
        BY <1>7, <2>1, <2>3, <2>6 DEF Receive, Quiet, fixed, data
      <4>2. QED
        BY <4>1, QuietKeeps DEF Inv
    <3>2. \A d \in Clients \ {c} : step'[d] = step[d] /\ verdict'[d] = verdict[d]
      BY <2>6, PassesLeavesOthers, FailsLeavesOthers DEF Inv
    <3>3. verdict'[c] # "running"
      BY <2>6 DEF Fails, Inv, Logged
    <3>4. OthersStay(c)
      BY <1>7, <3>2 DEF Receive, OthersStay, fixed
    <3>5. Tasked(c)'
      BY <1>7, <2>1, <3>3 DEF Receive, Inv, Tasks, Tasked, fixed
    <3>6. QED
      BY <1>7, <3>1, <3>4, <3>5, TasksKept DEF Receive, Inv, Tasks
  <2>7. QED
    BY <2>4, <2>5, <2>6
<1>8. CASE StreamEnds(c)
  <2>1. verdict[c] = "running" /\ task[c] = "sending" /\ Call(c).op = "readStream"
    BY <1>8 DEF StreamEnds, Inv, Tasks, Tasked
  <2>2. Passes(c) \/ Fails(c)
    BY <1>8, <2>1, RunningScript DEF Inv, StreamEnds, Accepts, Ends, Passes, Fails
  <2>3. Accepted(Call(c)) = << >>
    BY <2>1 DEF Accepted
  <2>4. QED
    BY <1>8, <2>1, <2>2, <2>3, AnsweringKeeps DEF StreamEnds, Answering, fixed, data
<1>9. QED
  BY <1>1, <1>2, <1>3, <1>4, <1>5, <1>6, <1>7, <1>8

\* an accepted append is committed
Growing(c) ==
  /\ Grows(c)
  /\ backend' = backend
  /\ task' = [task EXCEPT ![c] = "none"]
  /\ rows' = rows
  /\ DOMAIN inserted' = Clients
  /\ inserted'[c] = << >>
  /\ \A d \in Clients \ {c} : inserted'[d] = inserted[d]

LEMMA GrowingKeeps ==
  ASSUME Inv, NEW c \in Clients, Growing(c)
  PROVE  Inv'
<1>1. Logged'
  BY GrowsKeeps DEF Growing, Inv
<1>2. OthersStay(c)
  <2>1. \A d \in Clients \ {c} : step'[d] = step[d] /\ verdict'[d] = verdict[d]
    BY PassesLeavesOthers DEF Growing, Grows, Inv
  <2>2. QED
    BY <2>1 DEF Growing, Grows, OthersStay, Inv, Tasks
<1>3. Tasked(c)'
  BY DEF Growing, Tasked, Inv, Tasks
<1>4. QED
  BY <1>1, <1>2, <1>3, TasksKept DEF Growing, Inv, Tasks

\* moving a chunk from one sequence to the end of another
MovesOver(to, from, e, S) ==
  /\ SubSeq(from, 1, e) \in Seq(S)
  /\ SubSeq(from, e + 1, Len(from)) \in Seq(S)
  /\ to \o SubSeq(from, 1, e) \in Seq(S)
  /\ (to \o SubSeq(from, 1, e)) \o SubSeq(from, e + 1, Len(from)) = to \o from

Grouped(r, t, u) == (r \o t) \o u = r \o (t \o u)

LEMMA Regroups == \A S : \A r, t, u \in Seq(S) : Grouped(r, t, u)
BY ConcatAssociative, Zenon DEF Grouped

LEMMA ChunkMovesOver ==
  ASSUME NEW S, NEW to \in Seq(S), NEW from \in Seq(S), NEW e \in 0..Len(from)
  PROVE  MovesOver(to, from, e, S)
<1> DEFINE part == SubSeq(from, 1, e)
           rest == SubSeq(from, e + 1, Len(from))
<1>1. part \in Seq(S) /\ Len(part) = e
  OBVIOUS
<1>2. rest \in Seq(S) /\ Len(rest) = Len(from) - e
  OBVIOUS
<1>3. part \o rest = from
  <2>1. Len(from) \in Nat /\ e \in Nat /\ e <= Len(from)
    OBVIOUS
  <2>2. \A i \in 1..e : part[i] = from[i]
    OBVIOUS
  <2>3. \A i \in 1..(Len(from) - e) : rest[i] = from[e + i]
    OBVIOUS
  <2>4. part \in Seq(S) /\ rest \in Seq(S)
    BY <1>1, <1>2
  <2> HIDE DEF part, rest
  <2> DEFINE n == Len(from)
             both == part \o rest
  <2>5. Joined(both, part, rest, Len(part), Len(rest))
    BY <2>4, ConcatJoins, Zenon
  <2>6. Joined(both, part, rest, e, n - e)
    BY <1>1, <1>2, <2>5, Zenon
  <2>7. both \in Seq(S) /\ from \in Seq(S) /\ DOMAIN from = 1..n
    BY <2>4
  <2>8. \A i \in 1..n : i \in 1..e \/ (i - e \in 1..(n - e) /\ e + (i - e) = i)
    BY <2>1
  <2> HIDE DEF n, both
  <2>9. e + (n - e) = n
    BY <2>1 DEF n
  <2>10. DOMAIN both = 1..n
    BY <2>6, <2>9, Zenon DEF Joined
  <2>11. \A i \in 1..n : both[i] = from[i]
    <3>1. ASSUME NEW i \in 1..n, i \in 1..e PROVE both[i] = from[i]
      BY <2>2, <2>6, <3>1, Zenon DEF Joined
    <3>2. ASSUME NEW j \in 1..(n - e) PROVE both[e + j] = from[e + j]
      <4>1. both[e + j] = rest[j]
        BY <2>6, Zenon DEF Joined
      <4>2. rest[j] = from[e + j]
        BY <2>3, Zenon DEF n
      <4>3. QED
        BY <4>1, <4>2, Zenon
    <3>3. QED
      BY <2>8, <3>1, <3>2
  <2>12. both = from
    <3>1. both = [i \in DOMAIN both |-> both[i]] /\ from = [i \in DOMAIN from |-> from[i]]
      BY <2>7
    <3>2. QED
      BY <2>7, <2>10, <2>11, <3>1
  <2>13. QED
    BY <2>12 DEF both
<1> HIDE DEF part, rest
<1>4. to \o part \in Seq(S)
  BY <1>1
<1>5. (to \o part) \o rest = to \o (part \o rest)
  <2>1. to \in Seq(S) /\ part \in Seq(S) /\ rest \in Seq(S)
    BY <1>1, <1>2
  <2>2. \A r, t, u \in Seq(S) : Grouped(r, t, u)
    BY Regroups, Zenon
  <2>3. Grouped(to, part, rest)
    BY <2>1, <2>2, Zenon
  <2>4. QED
    BY <2>3, Zenon DEF Grouped
<1>6. QED
  BY <1>1, <1>2, <1>3, <1>4, <1>5, Zenon DEF MovesOver, part, rest

LEMMA AppendsKeep ==
  ASSUME Inv, NEW c \in Clients,
         \/ AppendEvents(c) \/ Conflict(c) \/ Validated(c) \/ InsertChunk(c) \/ Commit(c)
         \/ StatementFails(c)
  PROVE  Inv'
<1>1. CASE AppendEvents(c)
  <2>1. /\ verdict[c] = "running" /\ Call(c).op = "append"
        /\ task[c] # "inserting" /\ inserted[c] = << >>
    BY <1>1, ExecutesIdly DEF AppendEvents
  <2>2. /\ Call(c).expects = "Ok" => VersionsMatch(Call(c))
        /\ VersionsMatch(Call(c)) => Call(c).expects = "Ok"
        /\ Call(c).expects \in {"Ok", "VersionConflict"}
    BY <2>1, ExpectsWhatIs DEF Inv
  <2>3. Passes(c)
    <3>1. Accepts(c, (IF VersionsMatch(Call(c)) THEN "Ok" ELSE "VersionConflict") = Call(c).expects)
      BY <1>1 DEF AppendEvents, Answers
    <3>2. (IF VersionsMatch(Call(c)) THEN "Ok" ELSE "VersionConflict") = Call(c).expects
      BY <2>2
    <3>3. QED
      BY <2>1, <3>1, <3>2, RunningScript DEF Inv, Accepts, Ends, Passes
  <2>4. CASE VersionsMatch(Call(c))
    <3>1. log' = log \o NewRows(Call(c))
      BY <1>1, <2>4 DEF AppendEvents
    <3>2. inserted' = inserted /\ DOMAIN inserted = Clients
      BY <1>1 DEF AppendEvents, Returns, Inv, Tasks
    <3>3. Growing(c)
      BY <1>1, <2>1, <2>2, <2>3, <2>4, <3>1, <3>2
         DEF AppendEvents, Growing, Grows, Returns, ReleaseConnection, fixed
    <3>4. QED
      BY <3>3, GrowingKeeps
  <2>5. CASE ~VersionsMatch(Call(c))
    <3>1. log' = log /\ Accepted(Call(c)) = << >>
      BY <1>1, <2>2, <2>5 DEF AppendEvents, Accepted
    <3>2. QED
      BY <1>1, <2>1, <2>3, <3>1, AnsweringKeeps
         DEF AppendEvents, Answering, Returns, ReleaseConnection, fixed
  <2>6. QED
    BY <2>4, <2>5
<1>2. CASE Conflict(c)
  <2>1. verdict[c] = "running" /\ Call(c).op = "append" /\ task[c] # "inserting"
    BY <1>2, ExecutesIdly DEF Conflict
  <2>2. Call(c).expects = "VersionConflict"
    BY <1>2, <2>1, ExpectsWhatIs DEF Conflict, Inv
  <2>3. Passes(c)
    BY <1>2, <2>1, <2>2, RunningScript DEF Inv, Conflict, Answers, Accepts, Ends, Passes
  <2>4. Accepted(Call(c)) = << >>
    BY <2>2 DEF Accepted
  <2>5. QED
    BY <1>2, <2>1, <2>3, <2>4, AnsweringKeeps
       DEF Conflict, Answering, Returns, ReleaseConnection, fixed, data
<1>3. CASE Validated(c)
  <2>1. verdict[c] = "running" /\ Call(c).op = "append" /\ inserted[c] = << >>
    BY <1>3, ExecutesIdly DEF Validated
  <2>2. Call(c).expects = "Ok"
    BY <1>3, <2>1, ExpectsWhatIs DEF Validated, Inv
  <2>3. NewRows(Call(c)) \in Seq(LogRow)
    BY <2>1, <2>2, NewRowsFollow DEF Inv
  <2>4. /\ script' = script /\ step' = step /\ verdict' = verdict /\ backend' = backend
        /\ log' = log /\ inserted' = inserted
        /\ task' = [task EXCEPT ![c] = "inserting"]
        /\ rows' = [rows EXCEPT ![c] = NewRows(Call(c))]
        /\ backend = "sqlite"
    BY <1>3 DEF Validated, fixed, data
  <2>5. task'[c] = "inserting" /\ rows'[c] = NewRows(Call(c)) /\ inserted'[c] = << >>
    BY <2>1, <2>4 DEF Inv, Tasks
  <2>6. << >> \o NewRows(Call(c)) = NewRows(Call(c)) /\ << >> \in Seq(LogRow)
    BY <2>3
  <2>7. Call(c)' = Call(c) /\ NewRows(Call(c))' = NewRows(Call(c)) /\ LogRow' = LogRow
    BY <2>4 DEF Call, NewRows, LogRow, Named
  <2>8. Inserting(c)'
    BY <2>1, <2>2, <2>3, <2>5, <2>6, <2>7, Zenon DEF Inserting
  <2>9. Tasked(c)'
    BY <2>1, <2>4, <2>5, <2>7, <2>8 DEF Tasked
  <2>10. Working(c)
    BY <2>4, <2>9 DEF Working, Inv, Tasks
  <2>11. QED
    BY <2>10, WorkingKeeps
<1>4. CASE InsertChunk(c)
  <2> DEFINE e == ChunkEnd(c)
             part == SubSeq(rows[c], 1, e)
             rest == SubSeq(rows[c], e + 1, Len(rows[c]))
  <2>1. /\ script' = script /\ step' = step /\ verdict' = verdict /\ backend' = backend
        /\ log' = log /\ task' = task
        /\ inserted' = [inserted EXCEPT ![c] = inserted[c] \o part]
        /\ rows' = [rows EXCEPT ![c] = rest]
        /\ task[c] = "inserting"
    BY <1>4 DEF InsertChunk, fixed, data
  <2>2. Tasked(c) /\ Inserting(c)
    BY <2>1 DEF Inv, Tasks, Tasked
  <2>3. inserted'[c] = inserted[c] \o part /\ rows'[c] = rest
    BY <2>1 DEF Inv, Tasks
  <2>4. rows[c] \in Seq(LogRow) /\ inserted[c] \in Seq(LogRow)
    BY <2>2 DEF Inserting
  <2>5. e \in 0..Len(rows[c])
    BY <2>4, ChunkSizeAssumption DEF ChunkEnd
  <2>6. /\ part \in Seq(LogRow) /\ rest \in Seq(LogRow)
        /\ (inserted[c] \o part) \o rest = inserted[c] \o rows[c]
        /\ inserted[c] \o part \in Seq(LogRow)
    <3>1. MovesOver(inserted[c], rows[c], e, LogRow)
      <4> HIDE DEF e
      <4>1. QED
        BY <2>4, <2>5, ChunkMovesOver
    <3>2. QED
      BY <3>1, Zenon DEF MovesOver
  <2> HIDE DEF part, rest
  <2>7. Call(c)' = Call(c) /\ NewRows(Call(c))' = NewRows(Call(c)) /\ LogRow' = LogRow
    BY <2>1 DEF Call, NewRows, LogRow, Named
  <2>8. Inserting(c)'
    BY <2>2, <2>3, <2>6, <2>7, Zenon DEF Inserting
  <2>9. Tasked(c)'
    BY <2>1, <2>2, <2>7, <2>8 DEF Tasked
  <2>10. Working(c)
    BY <2>1, <2>9 DEF Working, Inv, Tasks
  <2>11. QED
    BY <2>10, WorkingKeeps
<1>5. CASE Commit(c)
  <2>1. task[c] = "inserting" /\ rows[c] = << >>
    BY <1>5 DEF Commit
  <2>2. verdict[c] = "running" /\ Inserting(c)
    BY <2>1 DEF Inv, Tasks, Tasked
  <2>3. inserted[c] = NewRows(Call(c))
    <3>1. inserted[c] \in Seq(LogRow) /\ inserted[c] \o << >> = NewRows(Call(c))
      BY <2>1, <2>2 DEF Inserting
    <3>2. QED
      BY <3>1
  <2>4. Call(c).op = "append" /\ Call(c).expects = "Ok"
    BY <2>2 DEF Inserting
  <2>5. Passes(c)
    BY <1>5, <2>2, <2>4, RunningScript DEF Inv, Commit, Answers, Accepts, Ends, Passes
  <2>6. Growing(c)
    BY <1>5, <2>2, <2>3, <2>4, <2>5
       DEF Commit, Growing, Grows, ReleaseConnection, fixed, Inv, Tasks
  <2>7. QED
    BY <2>6, GrowingKeeps
<1>6. CASE StatementFails(c)
  <2>1. verdict[c] = "running"
    BY <1>6 DEF StatementFails, Inv, Tasks, Tasked
  <2>2. /\ Fails(c)
        /\ script' = script /\ backend' = backend /\ log' = log
        /\ task' = [task EXCEPT ![c] = "none"]
        /\ rows' = [rows EXCEPT ![c] = << >>]
        /\ inserted' = [inserted EXCEPT ![c] = << >>]
    BY <1>6 DEF StatementFails, Fails, Ends, ReleaseConnection, fixed, data
  <2>3. Logged'
    <3>1. Quiet(c)
      BY <2>1, <2>2 DEF Quiet
    <3>2. QED
      BY <3>1, QuietKeeps DEF Inv
  <2>4. OthersStay(c)
    <3>1. \A d \in Clients \ {c} : step'[d] = step[d] /\ verdict'[d] = verdict[d]
      BY <2>2, FailsLeavesOthers DEF Inv
    <3>2. QED
      BY <2>2, <3>1 DEF OthersStay, Inv, Tasks
  <2>5. Tasked(c)'
    BY <2>2 DEF Tasked, Inv, Tasks
  <2>6. QED
    BY <2>2, <2>3, <2>4, <2>5, TasksKept DEF Inv, Tasks
<1>7. QED
  BY <1>1, <1>2, <1>3, <1>4, <1>5, <1>6

LEMMA InvNext == Inv /\ [Next]_vars => Inv'
<1> SUFFICES ASSUME Inv, [Next]_vars PROVE Inv'
  OBVIOUS
<1>1. CASE UNCHANGED vars
  <2>1. Logged'
    BY <1>1 DEF Inv, Logged, Progress, Mirrored, Counted, AcceptedBatches, Answered, LogRow, Named,
                vars, fixed, data, tasks
  <2>2. Tasks'
    <3>1. /\ script' = script /\ backend' = backend /\ step' = step /\ verdict' = verdict
          /\ task' = task /\ rows' = rows /\ inserted' = inserted
      BY <1>1 DEF vars, fixed, tasks
    <3>2. LogRow' = LogRow /\ \A c \in Clients : NewRows(Call(c))' = NewRows(Call(c))
      BY <3>1 DEF LogRow, Named, NewRows, Call
    <3>3. \A c \in Clients : Inserting(c) => Inserting(c)'
      BY <3>1, <3>2 DEF Inserting, Call
    <3>4. \A c \in Clients : Tasked(c)'
      BY <3>1, <3>3 DEF Inv, Tasks, Tasked, Call
    <3>5. QED
      BY <3>1, <3>4 DEF Inv, Tasks
  <2>3. QED
    BY <2>1, <2>2 DEF Inv
<1>2. ASSUME NEW c \in Clients, Step(c) PROVE Inv'
  BY <1>2, CallsKeep, CoordinationKeeps, ReadTasksKeep, AppendsKeep DEF Step
<1>3. QED
  BY <1>1, <1>2 DEF Next, AllSettled

(***************************************************************************)
(* At every moment, on every backend and whatever tests run side by side,  *)
(* the log holds exactly the batches whose appends were answered with      *)
(* success, whole and in order, and nothing of what was refused, rolled    *)
(* back or not yet committed; versions count the events of a stream.       *)
(***************************************************************************)
THEOREM LogHoldsAcceptedBatches == Spec => []LogIsAcceptedBatches
<1>1. Inv => LogIsAcceptedBatches
  <2> SUFFICES ASSUME Inv PROVE LogIsAcceptedBatches
    OBVIOUS
  <2>1. \A c \in Clients : Mirrors(log, c, AcceptedBatches(c))
    BY DEF Inv, Logged, Mirrored
  <2>2. Numbers(log)
    BY DEF Inv, Logged
  <2>3. QED
    BY <2>1, <2>2 DEF LogIsAcceptedBatches, Mirrors, Numbers, NumberedAt, OwnRows, Owned, Rank
<1>2. QED
  BY InvInit, InvNext, <1>1, PTL DEF Spec

-------------------------------------------------------------------------------
(***************************************************************************)
(* A compiled filter on a name: the positions the items reach, one after   *)
(* the other.                                                              *)
(***************************************************************************)
Reaching(items, name, f) ==
  [i \in 0..Len(items) |-> IF i = 0 THEN {0} ELSE ReachedBy(items[i], f[i - 1], name)]

LEMMA TakesChosen ==
  ASSUME NEW items, NEW name
  PROVE  TakesWhole(items, name)
           <=> Len(name) \in (CHOOSE f : f = Reaching(items, name, f))[Len(items)]
BY Zenon DEF TakesWhole, Reaching

Reaches(r, n, items, name) ==
  /\ r[0] = {0}
  /\ \A i \in 1..n : r[i] = ReachedBy(items[i], r[i - 1], name)
  /\ TakesWhole(items, name) <=> Len(name) \in r[n]

LEMMA TakesEquation ==
  ASSUME NEW n \in Nat, NEW items, Len(items) = n, NEW name, Len(name) \in Nat
  PROVE  \E r : Reaches(r, n, items, name)
<1> DEFINE S == SUBSET (0..Len(name))
           next == [i \in 1..n |-> [from \in S |-> ReachedBy(items[i], from, name)]]
<1>1. next \in [1..n -> [S -> S]]
  <2>1. \A item, from : ReachedBy(item, from, name) \in S
    BY DEF ReachedBy
  <2>2. QED
    BY <2>1
<1>2. {0} \in S
  OBVIOUS
<1>3. PICK g \in [0..n -> S] : Iterates(g, n, {0}, next)
  <2> HIDE DEF next, S
  <2>1. QED
    BY <1>1, <1>2, Recursion
<1>4. g = Reaching(items, name, g)
  <2>1. g[0] = {0} /\ \A i \in 1..n : g[i] = next[i][g[i - 1]]
    BY <1>3 DEF Iterates
  <2>2. \A i \in 1..n : i - 1 \in 0..n
    OBVIOUS
  <2>3. \A i \in 1..n : g[i] = ReachedBy(items[i], g[i - 1], name)
    BY <2>1, <2>2
  <2>4. \A i \in 0..n : i = 0 \/ i \in 1..n
    OBVIOUS
  <2>5. \A i \in 0..n : g[i] = IF i = 0 THEN {0} ELSE ReachedBy(items[i], g[i - 1], name)
    BY <2>1, <2>3, <2>4
  <2>6. g = [i \in 0..n |-> g[i]]
    OBVIOUS
  <2> HIDE DEF next, S
  <2>7. QED
    BY <2>5, <2>6 DEF Reaching
<1> DEFINE h == CHOOSE f : f = Reaching(items, name, f)
<1>5. h = Reaching(items, name, h)
  BY <1>4, Zenon
<1>6. h = [i \in 0..n |-> IF i = 0 THEN {0} ELSE ReachedBy(items[i], h[i - 1], name)]
  BY <1>5, Zenon DEF Reaching
<1>7. TakesWhole(items, name) <=> Len(name) \in h[n]
  BY TakesChosen, Zenon
<1> HIDE DEF h
<1>8. h[0] = {0} /\ \A i \in 1..n : h[i] = ReachedBy(items[i], h[i - 1], name)
  <2>1. 0 \in 0..n /\ \A i \in 1..n : i \in 0..n /\ i # 0
    OBVIOUS
  <2>2. ASSUME NEW i \in 0..n
        PROVE  h[i] = IF i = 0 THEN {0} ELSE ReachedBy(items[i], h[i - 1], name)
    BY <1>6, Zenon
  <2>3. QED
    BY <2>1, <2>2, Zenon
<1>9. QED
  BY <1>7, <1>8 DEF Reaches

\* a glob without negated classes compiles to the same items everywhere
LEMMA UnmarkedCompileAlike ==
  ASSUME NEW p, \A i \in DOMAIN p : p[i].mark = "", NEW name
  PROVE  /\ PostgresSelects(PatternFilter(p), name) = StreamPatternMatches(p, name)
         /\ SqliteSelects(PatternFilter(p), name) = StreamPatternMatches(p, name)
<1>1. \A i \in DOMAIN p : GlobItem(p[i]) = RegexItem(p[i]) /\ SqliteItem(p[i]) = RegexItem(p[i])
  BY DEF GlobItem, RegexItem, SqliteItem
<1>2. /\ [i \in DOMAIN p |-> GlobItem(p[i])] = [i \in DOMAIN p |-> RegexItem(p[i])]
      /\ [i \in DOMAIN p |-> SqliteItem(p[i])] = [i \in DOMAIN p |-> RegexItem(p[i])]
  BY <1>1
<1>3. /\ PostgresSelects(PatternFilter(p), name) = TakesWhole([i \in DOMAIN p |-> RegexItem(p[i])], name)
      /\ SqliteSelects(PatternFilter(p), name) = TakesWhole([i \in DOMAIN p |-> SqliteItem(p[i])], name)
  BY DEF PostgresSelects, SqliteSelects, PatternFilter, GlobToAnchoredRegex
<1>4. QED
  BY <1>2, <1>3 DEF StreamPatternMatches

(***************************************************************************)
(* Compiled filters whose items, but for a last run, take one symbol each. *)
(***************************************************************************)
Singles(items, k) == \A i \in 1..k : ~items[i].many

Leads(items, k, name) == k <= Len(name) /\ \A i \in 1..k : name[i] \in items[i].oneOf

SinglesAt(r, i, items, name) == \A q : q \in r[i] <=> q = i /\ Leads(items, i, name)

LEMMA SinglesReach ==
  ASSUME NEW n \in Nat, NEW items, NEW name, Len(name) \in Nat, NEW r, Reaches(r, n, items, name),
         NEW k \in 0..n, Singles(items, k)
  PROVE  SinglesAt(r, k, items, name)
<1> DEFINE Good == {i \in 0..k : \A q : q \in r[i] <=> q = i /\ Leads(items, i, name)}
<1>1. 0 \in Good
  BY DEF Reaches, Leads
<1>2. ASSUME NEW i \in 1..k, i - 1 \in Good PROVE i \in Good
  <2>1. i \in 1..n /\ ~items[i].many
    BY DEF Singles
  <2>2. r[i] = {q \in 1..Len(name) : q - 1 \in r[i - 1] /\ name[q] \in items[i].oneOf}
    BY <2>1 DEF Reaches, ReachedBy
  <2>3. \A q : q \in r[i - 1] <=> q = i - 1 /\ Leads(items, i - 1, name)
    BY <1>2
  <2>4. \A q : q \in r[i] <=> /\ q \in 1..Len(name) /\ q - 1 = i - 1
                             /\ Leads(items, i - 1, name) /\ name[q] \in items[i].oneOf
    BY <2>2, <2>3
  <2>5. Leads(items, i, name)
          <=> i \in 1..Len(name) /\ Leads(items, i - 1, name) /\ name[i] \in items[i].oneOf
    <3>1. \A j \in 1..i : j = i \/ j \in 1..(i - 1)
      OBVIOUS
    <3>2. i \in 1..i /\ \A j \in 1..(i - 1) : j \in 1..i
      OBVIOUS
    <3>3. i <= Len(name) <=> i \in 1..Len(name)
      OBVIOUS
    <3>4. i <= Len(name) => i - 1 <= Len(name)
      OBVIOUS
    <3>5. QED
      BY <3>1, <3>2, <3>3, <3>4 DEF Leads
  <2>6. \A q : q \in 1..Len(name) /\ q - 1 = i - 1 <=> q = i /\ i \in 1..Len(name)
    OBVIOUS
  <2>7. QED
    BY <2>4, <2>5, <2>6
<1>3. \A i \in 0..k : i \in Good
  <2> HIDE DEF Good
  <2>1. k \in Nat
    OBVIOUS
  <2>2. QED
    BY <1>1, <1>2, <2>1, Interval
<1>4. QED
  BY <1>3 DEF SinglesAt

LEMMA RunTaken ==
  ASSUME NEW k \in Nat, NEW items, Len(items) = k + 1, Singles(items, k), items[k + 1] = AnyRun,
         NEW name, Len(name) \in Nat
  PROVE  TakesWhole(items, name) <=> Leads(items, k, name)
<1> DEFINE n == k + 1
<1>1. n \in Nat /\ k \in 0..n /\ n \in 1..n /\ n - 1 = k /\ k \in 0..k
  OBVIOUS
<1>2. PICK r : Reaches(r, n, items, name)
  <2>1. Len(items) = n /\ n \in Nat
    OBVIOUS
  <2> HIDE DEF n
  <2>2. QED
    BY <2>1, TakesEquation
<1> HIDE DEF n
<1>3. \A q : q \in r[k] <=> q = k /\ Leads(items, k, name)
  <2>1. SinglesAt(r, k, items, name)
    BY <1>1, <1>2, SinglesReach, Zenon
  <2>2. QED
    BY <2>1 DEF SinglesAt
<1>4. r[n] = {q \in 0..Len(name) : \E p \in r[k] : p <= q}
  <2>1. r[n] = ReachedBy(items[n], r[k], name)
    BY <1>1, <1>2 DEF Reaches
  <2>2. items[n] = AnyRun
    BY DEF n
  <2>3. QED
    BY <2>1, <2>2 DEF ReachedBy, AnyRun
<1>5. Len(name) \in r[n] <=> Leads(items, k, name)
  BY <1>3, <1>4 DEF Leads
<1>6. QED
  BY <1>2, <1>5 DEF Reaches

LEMMA WholeTaken ==
  ASSUME NEW k \in Nat, NEW items, Len(items) = k, Singles(items, k), NEW name, Len(name) \in Nat
  PROVE  TakesWhole(items, name) <=> Leads(items, k, name) /\ Len(name) = k
<1>1. PICK r : Reaches(r, k, items, name)
  BY TakesEquation
<1>2. \A q : q \in r[k] <=> q = k /\ Leads(items, k, name)
  <2>1. k \in 0..k
    OBVIOUS
  <2>2. SinglesAt(r, k, items, name)
    BY <1>1, <2>1, SinglesReach, Zenon
  <2>3. QED
    BY <2>2 DEF SinglesAt
<1>3. QED
  BY <1>1, <1>2 DEF Reaches

(***************************************************************************)
(* The filters of the suite, on any backend.                               *)
(***************************************************************************)
Known == backend \in {"memory", "postgres", "sqlite"}

BeginsWith(name, first, second) == 2 <= Len(name) /\ name[1] = first /\ name[2] = second

LEMMA AllChosen ==
  ASSUME Known, NEW row
  PROVE  Chosen(AllStreams, row)
BY DEF Known, Chosen, AllStreams, MemorySelects, PostgresSelects, SqliteSelects

LEMMA LikeOfAccounts ==
  ASSUME NEW T, NEW name \in Seq(T), name[1] \in Words, name[2] \in Words, NEW ignoreCase \in BOOLEAN
  PROVE  TakesWhole(Like(<< "account", "-" >>, ignoreCase), name) <=> BeginsWith(name, "account", "-")
<1> DEFINE items == Like(<< "account", "-" >>, ignoreCase)
<1>1. /\ Len(items) = 3
      /\ items[1] = LikeItem("account", ignoreCase)
      /\ items[2] = LikeItem("-", ignoreCase)
      /\ items[3] = AnyRun
  BY DEF Like
<1>2. \A s \in {"account", "-"} : \A x \in Words :
         /\ LikeItem(s, ignoreCase).many = FALSE
         /\ x \in LikeItem(s, ignoreCase).oneOf <=> x = s
  <2>1. {"account", "-"} \subseteq Words
    BY DEF Words
  <2>2. \A s \in {"account", "-"} : \A x \in Words : x \in EitherCase(s) <=> x = s
    BY <2>1, LetterCasesAssumption DEF EitherCase
  <2>3. QED
    BY <2>2 DEF LikeItem, OneOf
<1> HIDE DEF items
<1>3. \A i \in 1..2 : i = 1 \/ i = 2
  OBVIOUS
<1>4. Singles(items, 2)
  BY <1>1, <1>2, <1>3 DEF Singles
<1>5. TakesWhole(items, name) <=> Leads(items, 2, name)
  <2>1. 2 \in Nat /\ Len(items) = 2 + 1 /\ items[2 + 1] = AnyRun /\ Len(name) \in Nat
    BY <1>1
  <2>2. QED
    BY <1>4, <2>1, RunTaken
<1>6. Leads(items, 2, name) <=> BeginsWith(name, "account", "-")
  <2>1. 1 \in 1..2 /\ 2 \in 1..2
    OBVIOUS
  <2>2. QED
    BY <1>1, <1>2, <1>3, <2>1 DEF Leads, BeginsWith
<1>7. QED
  BY <1>5, <1>6 DEF items

LEMMA PrefixChosen ==
  ASSUME Known, NEW T, NEW row, row.stream \in Seq(T), row.stream[1] \in Words, row.stream[2] \in Words
  PROVE  Chosen(AccountPrefix, row) <=> BeginsWith(row.stream, "account", "-")
<1> DEFINE name == row.stream
<1>1. AccountPrefix = PrefixFilter(<< "account", "-" >>)
  BY DEF AccountPrefix, Account
<1>2. \A b \in BOOLEAN :
         TakesWhole(Like(<< "account", "-" >>, b), name) <=> BeginsWith(name, "account", "-")
  BY LikeOfAccounts
<1>3. IsPrefix(<< "account", "-" >>, name) <=> BeginsWith(name, "account", "-")
  <2> DEFINE p == << "account", "-" >>
  <2>1. p \in Seq({"account", "-"}) /\ Len(p) = 2 /\ p[1] = "account" /\ p[2] = "-"
    OBVIOUS
  <2> HIDE DEF p, name
  <2>2. name \in Seq(T)
    BY DEF name
  <2>3. ASSUME 2 <= Len(name)
        PROVE  SubSeq(p, 1, 2) = SubSeq(name, 1, 2) <=> p[1] = name[1] /\ p[2] = name[2]
    <3>1. /\ SubSeq(p, 1, 2) = [i \in 1..2 |-> p[i]]
          /\ SubSeq(name, 1, 2) = [i \in 1..2 |-> name[i]]
      BY <2>1, <2>2, <2>3
    <3>2. \A i \in 1..2 : i = 1 \/ i = 2
      OBVIOUS
    <3>3. QED
      BY <3>1, <3>2
  <2>4. IsPrefix(p, name) <=> BeginsWith(name, "account", "-")
    BY <2>1, <2>2, <2>3 DEF IsPrefix, BeginsWith
  <2>5. QED
    BY <2>4 DEF p
<1>4. QED
  BY <1>1, <1>2, <1>3 DEF Known, Chosen, PrefixFilter, MemorySelects, PostgresSelects, SqliteSelects

LEMMA GlobChosen ==
  ASSUME Known, NEW p, \A i \in DOMAIN p : p[i].mark = "", NEW row
  PROVE  Chosen(PatternFilter(p), row)
           <=> TakesWhole([i \in DOMAIN p |-> GlobItem(p[i])], row.stream)
<1> DEFINE name == row.stream
<1>1. /\ PostgresSelects(PatternFilter(p), name) = StreamPatternMatches(p, name)
      /\ SqliteSelects(PatternFilter(p), name) = StreamPatternMatches(p, name)
  BY UnmarkedCompileAlike
<1>2. MemorySelects(PatternFilter(p), name) = StreamPatternMatches(p, name)
  BY DEF MemorySelects, PatternFilter
<1>3. \/ Chosen(PatternFilter(p), row) = MemorySelects(PatternFilter(p), name)
      \/ Chosen(PatternFilter(p), row) = PostgresSelects(PatternFilter(p), name)
      \/ Chosen(PatternFilter(p), row) = SqliteSelects(PatternFilter(p), name)
  BY DEF Known, Chosen
<1>4. QED
  BY <1>1, <1>2, <1>3 DEF StreamPatternMatches

LEMMA ShortTuples ==
  ASSUME NEW a, NEW b, NEW x, NEW y
  PROVE  /\ << a, b >> \o << x >> = << a, b, x >>
         /\ << a, b >> \o << x, y >> = << a, b, x, y >>
<1> DEFINE S == {a, b, x, y}
           l == << a, b >>
<1>1. l \in Seq(S) /\ Len(l) = 2 /\ l[1] = a /\ l[2] = b
  OBVIOUS
<1>2. ASSUME NEW r \in Seq(S), NEW t \in Seq(S), Len(t) = 2 + Len(r), t[1] = a, t[2] = b,
             \A k \in 1..Len(r) : t[2 + k] = r[k]
      PROVE  l \o r = t
  <2> HIDE DEF l, S
  <2>1. Joined(l \o r, l, r, Len(l), Len(r))
    BY <1>1, ConcatJoins, Zenon
  <2>2. \A p, q \in Seq(S) : p \o q \in Seq(S)
    OBVIOUS
  <2>3. l \o r \in Seq(S)
    BY <1>1, <2>2, Zenon
  <2> DEFINE all == l \o r
  <2> HIDE DEF all
  <2>4. /\ all \in Seq(S) /\ Len(all) = Len(t)
        /\ all[1] = a /\ all[2] = b
        /\ \A k \in 1..Len(r) : all[2 + k] = t[2 + k]
    <3>1. Joined(all, l, r, 2, Len(r)) /\ all \in Seq(S)
      BY <1>1, <2>1, <2>3, Zenon DEF all
    <3>2. QED
      BY <1>1, <1>2, <3>1 DEF Joined
  <2>5. \A i \in 1..Len(t) : i = 1 \/ i = 2 \/ \E k \in 1..Len(r) : i = 2 + k
    <3>1. \A i \in 1..Len(t) : i = 1 \/ i = 2 \/ (i - 2 \in 1..Len(r) /\ i = 2 + (i - 2))
      BY <1>2
    <3>2. QED
      BY <3>1
  <2>6. \A i \in 1..Len(t) : all[i] = t[i]
    BY <1>2, <2>4, <2>5
  <2>7. QED
    BY <2>4, <2>6, SeqEqual, Zenon DEF all
<1>3. l \o << x >> = << a, b, x >>
  <2> DEFINE r == << x >>
             t == << a, b, x >>
  <2>1. /\ r \in Seq(S) /\ t \in Seq(S) /\ Len(t) = 2 + Len(r) /\ t[1] = a /\ t[2] = b
        /\ \A k \in 1..Len(r) : t[2 + k] = r[k]
    OBVIOUS
  <2> HIDE DEF r, t, l, S
  <2>2. l \o r = t
    BY <1>2, <2>1, Zenon
  <2>3. QED
    BY <2>2 DEF r, t
<1>4. l \o << x, y >> = << a, b, x, y >>
  <2> DEFINE r == << x, y >>
             t == << a, b, x, y >>
  <2>1. /\ r \in Seq(S) /\ t \in Seq(S) /\ Len(t) = 2 + Len(r) /\ t[1] = a /\ t[2] = b
        /\ \A k \in 1..Len(r) : t[2 + k] = r[k]
    OBVIOUS
  <2> HIDE DEF r, t, l, S
  <2>2. l \o r = t
    BY <1>2, <2>1, Zenon
  <2>3. QED
    BY <2>2 DEF r, t
<1>5. QED
  BY <1>3, <1>4

LEMMA ElementsCompile ==
  /\ \A x : Literal(x).mark = "" /\ GlobItem(Literal(x)) = OneOf({x})
  /\ Asterisk.mark = "" /\ GlobItem(Asterisk) = AnyRun
  /\ QuestionMark.mark = "" /\ GlobItem(QuestionMark) = OneOf(Characters)
  /\ \A set : Class("", set).mark = "" /\ GlobItem(Class("", set)) = OneOf(set)
<1>1. \A x : Literal(x).mark = "" /\ GlobItem(Literal(x)) = OneOf({x})
  BY DEF Literal, GlobItem, Item
<1>2. Asterisk.mark = "" /\ GlobItem(Asterisk) = AnyRun
  BY DEF Asterisk, GlobItem, Item
<1>3. QuestionMark.mark = "" /\ GlobItem(QuestionMark) = OneOf(Characters)
  BY DEF QuestionMark, GlobItem, Item
<1>4. \A set : Class("", set).mark = "" /\ GlobItem(Class("", set)) = OneOf(set)
  BY DEF Class, GlobItem, Item
<1>5. QED
  BY <1>1, <1>2, <1>3, <1>4

LEMMA AccountsChosen ==
  ASSUME Known, NEW T, NEW row, row.stream \in Seq(T)
  PROVE  Chosen(AccountPattern(<< Asterisk >>), row)
           <=> BeginsWith(row.stream, "account", "-")
<1> DEFINE name == row.stream
           p == << Literal("account"), Literal("-"), Asterisk >>
           items == [i \in DOMAIN p |-> GlobItem(p[i])]
<1>1. AccountPattern(<< Asterisk >>) = PatternFilter(p)
  BY ShortTuples, Zenon DEF AccountPattern
<1>2. /\ Len(p) = 3 /\ DOMAIN p = 1..3
      /\ p[1] = Literal("account")
      /\ p[2] = Literal("-")
      /\ p[3] = Asterisk
  OBVIOUS
<1>3. \A i \in 1..3 : i = 1 \/ i = 2 \/ i = 3
  OBVIOUS
<1> HIDE DEF p
<1>4. \A i \in DOMAIN p : p[i].mark = ""
  BY <1>2, <1>3, ElementsCompile
<1>5. Chosen(PatternFilter(p), row) <=> TakesWhole(items, name)
  BY <1>4, GlobChosen
<1>6. /\ Len(items) = 3
      /\ items[1] = OneOf({"account"})
      /\ items[2] = OneOf({"-"})
      /\ items[3] = AnyRun
  <2>1. Len(items) = 3
    <3>1. DOMAIN items = 1..3
      BY <1>2
    <3> HIDE DEF items
    <3>2. QED
      BY <3>1
  <2>2. 1 \in 1..3 /\ 2 \in 1..3 /\ 3 \in 1..3
    OBVIOUS
  <2>3. \A i \in 1..3 : items[i] = GlobItem(p[i])
    BY <1>2
  <2>4. QED
    BY <1>2, <2>1, <2>2, <2>3, ElementsCompile
<1> HIDE DEF items
<1>7. \A i \in 1..2 : i = 1 \/ i = 2
  OBVIOUS
<1>8. Singles(items, 2)
  BY <1>6, <1>7 DEF Singles, OneOf
<1>9. TakesWhole(items, name) <=> Leads(items, 2, name)
  <2>1. 2 \in Nat /\ Len(items) = 2 + 1 /\ items[2 + 1] = AnyRun /\ Len(name) \in Nat
    BY <1>6
  <2>2. QED
    BY <1>8, <2>1, RunTaken
<1>10. (Leads(items, 2, name)
              <=> 2 <= Len(name) /\ name[1] = "account" /\ name[2] = "-")
  <2>1. 1 \in 1..2 /\ 2 \in 1..2
    OBVIOUS
  <2>2. QED
    BY <1>6, <1>7, <2>1 DEF Leads, OneOf
<1>11. QED
  BY <1>1, <1>5, <1>9, <1>10 DEF BeginsWith

LEMMA DigitsChosen ==
  ASSUME Known, NEW T, NEW row, row.stream \in Seq(T)
  PROVE  Chosen(AccountPattern(<< Class("", {"1", "2", "7"}), Asterisk >>), row)
           <=> /\ 3 <= Len(row.stream) /\ row.stream[1] = "account" /\ row.stream[2] = "-"
               /\ row.stream[3] \in {"1", "2", "7"}
<1> DEFINE name == row.stream
           p == << Literal("account"), Literal("-"), Class("", {"1", "2", "7"}), Asterisk >>
           items == [i \in DOMAIN p |-> GlobItem(p[i])]
<1>1. AccountPattern(<< Class("", {"1", "2", "7"}), Asterisk >>) = PatternFilter(p)
  BY ShortTuples, Zenon DEF AccountPattern
<1>2. /\ Len(p) = 4 /\ DOMAIN p = 1..4
      /\ p[1] = Literal("account")
      /\ p[2] = Literal("-")
      /\ p[3] = Class("", {"1", "2", "7"})
      /\ p[4] = Asterisk
  OBVIOUS
<1>3. \A i \in 1..4 : i = 1 \/ i = 2 \/ i = 3 \/ i = 4
  OBVIOUS
<1> HIDE DEF p
<1>4. \A i \in DOMAIN p : p[i].mark = ""
  BY <1>2, <1>3, ElementsCompile
<1>5. Chosen(PatternFilter(p), row) <=> TakesWhole(items, name)
  BY <1>4, GlobChosen
<1>6. /\ Len(items) = 4
      /\ items[1] = OneOf({"account"})
      /\ items[2] = OneOf({"-"})
      /\ items[3] = OneOf({"1", "2", "7"})
      /\ items[4] = AnyRun
  <2>1. Len(items) = 4
    <3>1. DOMAIN items = 1..4
      BY <1>2
    <3> HIDE DEF items
    <3>2. QED
      BY <3>1
  <2>2. 1 \in 1..4 /\ 2 \in 1..4 /\ 3 \in 1..4 /\ 4 \in 1..4
    OBVIOUS
  <2>3. \A i \in 1..4 : items[i] = GlobItem(p[i])
    BY <1>2
  <2>4. QED
    BY <1>2, <2>1, <2>2, <2>3, ElementsCompile
<1> HIDE DEF items
<1>7. \A i \in 1..3 : i = 1 \/ i = 2 \/ i = 3
  OBVIOUS
<1>8. Singles(items, 3)
  BY <1>6, <1>7 DEF Singles, OneOf
<1>9. TakesWhole(items, name) <=> Leads(items, 3, name)
  <2>1. 3 \in Nat /\ Len(items) = 3 + 1 /\ items[3 + 1] = AnyRun /\ Len(name) \in Nat
    BY <1>6
  <2>2. QED
    BY <1>8, <2>1, RunTaken
<1>10. (Leads(items, 3, name)
              <=> /\ 3 <= Len(name) /\ name[1] = "account" /\ name[2] = "-"
                  /\ name[3] \in {"1", "2", "7"})
  <2>1. 1 \in 1..3 /\ 2 \in 1..3 /\ 3 \in 1..3
    OBVIOUS
  <2>2. QED
    BY <1>6, <1>7, <2>1 DEF Leads, OneOf
<1>11. QED
  BY <1>1, <1>5, <1>9, <1>10 DEF BeginsWith

LEMMA SingleCharChosen ==
  ASSUME Known, NEW T, NEW row, row.stream \in Seq(T), NEW run
  PROVE  Chosen(AccountPattern(<< QuestionMark, Literal(run) >>), row)
           <=> /\ Len(row.stream) = 4 /\ row.stream[1] = "account" /\ row.stream[2] = "-"
               /\ row.stream[3] \in Characters /\ row.stream[4] = run
<1> DEFINE name == row.stream
           p == << Literal("account"), Literal("-"), QuestionMark, Literal(run) >>
           items == [i \in DOMAIN p |-> GlobItem(p[i])]
<1>1. AccountPattern(<< QuestionMark, Literal(run) >>) = PatternFilter(p)
  BY ShortTuples, Zenon DEF AccountPattern
<1>2. /\ Len(p) = 4 /\ DOMAIN p = 1..4
      /\ p[1] = Literal("account")
      /\ p[2] = Literal("-")
      /\ p[3] = QuestionMark
      /\ p[4] = Literal(run)
  OBVIOUS
<1>3. \A i \in 1..4 : i = 1 \/ i = 2 \/ i = 3 \/ i = 4
  OBVIOUS
<1> HIDE DEF p
<1>4. \A i \in DOMAIN p : p[i].mark = ""
  BY <1>2, <1>3, ElementsCompile
<1>5. Chosen(PatternFilter(p), row) <=> TakesWhole(items, name)
  BY <1>4, GlobChosen
<1>6. /\ Len(items) = 4
      /\ items[1] = OneOf({"account"})
      /\ items[2] = OneOf({"-"})
      /\ items[3] = OneOf(Characters)
      /\ items[4] = OneOf({run})
  <2>1. Len(items) = 4
    <3>1. DOMAIN items = 1..4
      BY <1>2
    <3> HIDE DEF items
    <3>2. QED
      BY <3>1
  <2>2. 1 \in 1..4 /\ 2 \in 1..4 /\ 3 \in 1..4 /\ 4 \in 1..4
    OBVIOUS
  <2>3. \A i \in 1..4 : items[i] = GlobItem(p[i])
    BY <1>2
  <2>4. QED
    BY <1>2, <2>1, <2>2, <2>3, ElementsCompile
<1> HIDE DEF items
<1>7. \A i \in 1..4 : i = 1 \/ i = 2 \/ i = 3 \/ i = 4
  OBVIOUS
<1>8. Singles(items, 4)
  BY <1>6, <1>7 DEF Singles, OneOf
<1>9. TakesWhole(items, name) <=> Leads(items, 4, name) /\ Len(name) = 4
  <2>1. 4 \in Nat /\ Len(items) = 4 /\ Len(name) \in Nat
    BY <1>6
  <2>2. QED
    BY <1>8, <2>1, WholeTaken
<1>10. Len(name) = 4 =>
        (Leads(items, 4, name)
              <=> /\ name[1] = "account" /\ name[2] = "-"
                  /\ name[3] \in Characters /\ name[4] = run)
  <2>1. 1 \in 1..4 /\ 2 \in 1..4 /\ 3 \in 1..4 /\ 4 \in 1..4
    OBVIOUS
  <2>2. QED
    BY <1>6, <1>7, <2>1 DEF Leads, OneOf
<1>11. QED
  BY <1>1, <1>5, <1>9, <1>10 DEF BeginsWith

-------------------------------------------------------------------------------
(***************************************************************************)
(* The k-th of a set of positions, and its rows.                           *)
(***************************************************************************)
LEMMA RanksOfPositions ==
  ASSUME NEW m \in Nat, NEW P, Within(P, m)
  PROVE  /\ Cardinality(P) \in Nat
         /\ IsFiniteSet(P)
         /\ \A i \in P : Rank(P, i) \in 1..Cardinality(P)
         /\ \A i, j \in P : Rank(P, i) = Rank(P, j) => i = j
         /\ \A k \in 1..Cardinality(P) : \E i \in P : Rank(P, i) = k
<1> DEFINE R == {p \in P \X P : p[1] <= p[2]}
<1>1. P \subseteq 1..m
  BY DEF Within
<1>2. IsFiniteSet(P)
  <2>1. IsFiniteSet(1..m)
    BY FS_Interval
  <2>2. QED
    BY <1>1, <2>1, FS_Subset
<1>3. IsLinearOrder(R, P)
  BY <1>1 DEF IsLinearOrder
<1>4. \A i \in P : Below(R, P, i) = {j \in P : j <= i}
  BY <1>1 DEF Below
<1> HIDE DEF R
<1>5. \A i \in P : Cardinality(Below(R, P, i)) = Rank(P, i)
  BY <1>4, Zenon DEF Rank
<1>6. \A i \in P : Rank(P, i) \in 1..Cardinality(P)
  BY <1>2, <1>3, <1>5, RankBounds
<1>7. Cardinality(P) \in Nat /\ \A k \in 1..Cardinality(P) : \E i \in P : Rank(P, i) = k
  <2>1. /\ Cardinality(P) \in Nat
        /\ \A k \in 1..Cardinality(P) : \E i \in P : Cardinality(Below(R, P, i)) = k
    BY <1>2, <1>3, RanksAreDense
  <2>2. QED
    BY <1>5, <2>1
<1>8. ASSUME NEW i \in P, NEW j \in P, i # j PROVE Rank(P, i) # Rank(P, j)
  <2>1. << i, j >> \in R \/ << j, i >> \in R
    BY <1>3 DEF IsLinearOrder
  <2>2. \/ Cardinality(Below(R, P, i)) < Cardinality(Below(R, P, j))
        \/ Cardinality(Below(R, P, j)) < Cardinality(Below(R, P, i))
    BY <1>2, <1>3, <1>8, <2>1, RankOrder
  <2>3. Rank(P, i) < Rank(P, j) \/ Rank(P, j) < Rank(P, i)
    BY <1>5, <2>2
  <2>4. Rank(P, i) \in Nat /\ Rank(P, j) \in Nat
    BY <1>6, <1>7
  <2>5. QED
    BY <2>3, <2>4
<1>9. QED
  BY <1>2, <1>6, <1>7, <1>8

LEMMA NthIsThere ==
  ASSUME NEW m \in Nat, NEW P, Within(P, m), NEW k \in 1..Cardinality(P)
  PROVE  Nth(P, k) \in P /\ Rank(P, Nth(P, k)) = k
<1>1. \E i \in P : Cardinality({j \in P : j <= i}) = k
  BY RanksOfPositions DEF Rank
<1>2. QED
  BY <1>1, Zenon DEF Nth, Rank

\* positions that are not among the first ones
LEMMA LaterRanks ==
  ASSUME NEW m \in Nat, NEW P, Within(P, m), NEW a \in Nat, a <= Cardinality(P)
  PROVE  Cardinality({i \in P : Rank(P, i) > a}) = Cardinality(P) - a
<1> DEFINE N == Cardinality(P)
           later == {i \in P : Rank(P, i) > a}
           rank == [i \in later |-> Rank(P, i)]
<1>1. /\ N \in Nat /\ IsFiniteSet(P)
      /\ \A i \in P : Rank(P, i) \in 1..N
      /\ \A i, j \in P : Rank(P, i) = Rank(P, j) => i = j
      /\ \A k \in 1..N : \E i \in P : Rank(P, i) = k
  BY RanksOfPositions
<1> HIDE DEF N
<1>2. rank \in [later -> (a + 1)..N]
  BY <1>1
<1>3. \A i, j \in later : rank[i] = rank[j] => i = j
  BY <1>1
<1>4. \A k \in (a + 1)..N : \E i \in later : rank[i] = k
  <2>1. ASSUME NEW k \in (a + 1)..N PROVE \E i \in later : rank[i] = k
    <3>1. k \in 1..N /\ k > a
      BY <1>1
    <3>2. PICK i \in P : Rank(P, i) = k
      BY <1>1, <3>1
    <3>3. QED
      BY <3>1, <3>2
  <2>2. QED
    BY <2>1
<1>5. ExistsBijection(later, (a + 1)..N)
  <2> HIDE DEF later, rank
  <2>1. rank \in Bijection(later, (a + 1)..N)
    BY <1>2, <1>3, <1>4 DEF Bijection, Injection, Surjection, IsInjective
  <2>2. QED
    BY <2>1 DEF ExistsBijection
<1>6. IsFiniteSet(later)
  BY <1>1, FS_Subset
<1>7. Cardinality(later) = Cardinality((a + 1)..N)
  <2> HIDE DEF later
  <2>1. QED
    BY <1>5, <1>6, FS_Bijection
<1>8. Cardinality((a + 1)..N) = N - a
  <2>1. a + 1 \in Int /\ N \in Int /\ a <= N
    BY <1>1 DEF N
  <2>2. Cardinality((a + 1)..N) = IF a + 1 > N THEN 0 ELSE N - (a + 1) + 1
    BY <2>1, FS_Interval
  <2>3. QED
    BY <2>1, <2>2
<1>9. QED
  BY <1>7, <1>8 DEF N

(***************************************************************************)
(* Pages that are intervals.                                               *)
(***************************************************************************)
RankedFrom(a, n) ==
  /\ Cardinality((a + 1)..(a + n)) = n
  /\ \A i \in (a + 1)..(a + n) : Rank((a + 1)..(a + n), i) = i - a

LEMMA RanksOfInterval ==
  ASSUME NEW a \in Nat, NEW n \in Nat
  PROVE  RankedFrom(a, n)
<1>1. ASSUME NEW i \in Int, a <= i PROVE Cardinality((a + 1)..i) = i - a
  <2>1. a + 1 \in Int
    OBVIOUS
  <2>2. Cardinality((a + 1)..i) = IF a + 1 > i THEN 0 ELSE i - (a + 1) + 1
    BY <2>1, FS_Interval
  <2>3. QED
    BY <1>1, <2>2
<1>2. Cardinality((a + 1)..(a + n)) = n
  <2>1. a + n \in Int /\ a <= a + n /\ (a + n) - a = n
    OBVIOUS
  <2>2. Cardinality((a + 1)..(a + n)) = (a + n) - a
    BY <1>1, <2>1
  <2>3. QED
    BY <2>1, <2>2
<1>3. ASSUME NEW i \in (a + 1)..(a + n) PROVE Rank((a + 1)..(a + n), i) = i - a
  <2>1. {j \in (a + 1)..(a + n) : j <= i} = (a + 1)..i
    OBVIOUS
  <2>2. i \in Int /\ a <= i
    OBVIOUS
  <2>3. Cardinality((a + 1)..i) = i - a
    BY <1>1, <2>2
  <2>4. QED
    BY <2>1, <2>3 DEF Rank
<1>4. QED
  BY <1>2, <1>3 DEF RankedFrom

NthFrom(a, n) == \A k \in 1..n : Nth((a + 1)..(a + n), k) = a + k

LEMMA NthOfInterval ==
  ASSUME NEW a \in Nat, NEW n \in Nat
  PROVE  NthFrom(a, n)
<1> DEFINE P == (a + 1)..(a + n)
<1>1. Cardinality(P) = n /\ \A i \in P : Rank(P, i) = i - a
  BY RanksOfInterval DEF RankedFrom
<1>2. ASSUME NEW k \in 1..n PROVE Nth(P, k) = a + k
  <2>1. Within(P, a + n) /\ a + n \in Nat
    BY DEF Within
  <2>2. k \in 1..Cardinality(P)
    BY <1>1
  <2> HIDE DEF P
  <2>3. Nth(P, k) \in P /\ Rank(P, Nth(P, k)) = k
    <3> DEFINE m == a + n
    <3>1. Within(P, m) /\ m \in Nat
      BY <2>1
    <3> HIDE DEF m
    <3>2. QED
      BY <2>2, <3>1, NthIsThere
  <2>4. Nth(P, k) - a = k
    BY <1>1, <2>3
  <2>5. Nth(P, k) \in Int
    BY <2>3 DEF P
  <2>6. QED
    BY <2>4, <2>5
<1>3. QED
  BY <1>2 DEF NthFrom

FirstsFrom(limit, a, n, k) == FirstOf(limit, (a + 1)..(a + n)) = (a + 1)..(a + k)

LEMMA FirstOfInterval ==
  ASSUME NEW a \in Nat, NEW n \in Nat, NEW limit \in Nat, NEW k \in Nat,
         \/ n <= limit /\ k = n
         \/ limit <= n /\ k = limit
  PROVE  FirstsFrom(limit, a, n, k)
<1> DEFINE P == (a + 1)..(a + n)
<1>1. \A i \in P : Cardinality({j \in P : j <= i}) = i - a
  BY RanksOfInterval DEF RankedFrom, Rank
<1>2. FirstOf(limit, P) = {i \in P : i - a <= limit}
  <2> HIDE DEF P
  <2>1. QED
    BY <1>1 DEF FirstOf
<1>3. {i \in P : i - a <= limit} = (a + 1)..(a + k)
  OBVIOUS
<1>4. QED
  BY <1>2, <1>3 DEF FirstsFrom

(***************************************************************************)
(* The page a readEvents call gets, when the log is the test's own events. *)
(***************************************************************************)
Holds(batch) ==
  /\ Len(log) \in Nat
  /\ Len(log) = Len(batch)
  /\ \A i \in 1..Len(log) : log[i].stream = batch[i] /\ log[i].type = ContractTestEvent

AfterOf(c) == IF Call(c).resume THEN mark[c] ELSE 0

PageOf(c) == Page(Call(c).filter, Call(c).limit, AfterOf(c))

Limits(limit, n, k) ==
  /\ n \in Nat /\ k \in Nat /\ limit \in Nat
  /\ \/ n <= limit /\ k = n
     \/ limit <= n /\ k = limit

PagedAt(c, batch, a, n, k) ==
  /\ a \in Nat
  /\ Limits(Call(c).limit, n, k)
  /\ AfterOf(c) \in Nat /\ AfterOf(c) <= a
  /\ a + n <= Len(log)
  /\ \A i \in (AfterOf(c) + 1)..Len(log) :
        Chosen(Call(c).filter, log[i]) <=> i \in (a + 1)..(a + n)
  /\ Len(Call(c).from) = k
  /\ \A j \in 1..k : batch[a + j] \in Call(c).from[j]

PageAt(c, a, k) ==
  /\ EventsAreExpected(c, PageOf(c))
  /\ Cardinality(PageOf(c)) = k
  /\ \A j \in 1..k : Nth(PageOf(c), j) = a + j

LEMMA IntervalPage ==
  ASSUME NEW c, NEW batch, Holds(batch), NEW a, NEW n, NEW k, PagedAt(c, batch, a, n, k)
  PROVE  PageAt(c, a, k)
<1> DEFINE after == AfterOf(c)
           limit == Call(c).limit
           P == (a + 1)..(a + n)
           K == (a + 1)..(a + k)
<1>1. /\ a \in Nat /\ n \in Nat /\ k \in Nat /\ limit \in Nat /\ k <= n
      /\ after \in Nat /\ after <= a /\ a + n <= Len(log) /\ Len(log) \in Nat
      /\ (n <= limit /\ k = n) \/ (limit <= n /\ k = limit)
  BY DEF PagedAt, Limits, Holds
<1>2. Positions(Call(c).filter, after) = P
  <2>1. \A i \in (after + 1)..Len(log) :
           /\ log[i].type = ContractTestEvent
           /\ Chosen(Call(c).filter, log[i]) <=> i \in P
    <3>1. \A i \in (after + 1)..Len(log) : i \in 1..Len(log)
      BY <1>1
    <3>2. QED
      BY <3>1 DEF PagedAt, Holds
  <2>2. P \subseteq (after + 1)..Len(log)
    BY <1>1
  <2> HIDE DEF P, after
  <2>3. QED
    BY <2>1, <2>2 DEF Positions
<1>3. PageOf(c) = K
  <2>1. FirstsFrom(limit, a, n, k)
    <3>1. \A lim \in Nat : (n <= lim /\ k = n) \/ (lim <= n /\ k = lim) => FirstsFrom(lim, a, n, k)
      BY <1>1, FirstOfInterval
    <3>2. QED
      BY <1>1, <3>1, Zenon
  <2>2. FirstOf(limit, P) = K
    BY <2>1 DEF FirstsFrom
  <2>3. QED
    BY <1>2, <2>2, Zenon DEF PageOf, Page
<1>4. Cardinality(K) = k
  <2>1. RankedFrom(a, k)
    BY <1>1, RanksOfInterval
  <2>2. QED
    BY <2>1 DEF RankedFrom
<1>5. \A j \in 1..k : Nth(K, j) = a + j
  <2>1. NthFrom(a, k)
    BY <1>1, NthOfInterval
  <2>2. QED
    BY <2>1 DEF NthFrom
<1>6. \A j \in 1..k : log[a + j].stream \in Call(c).from[j]
  <2>1. \A j \in 1..k : a + j \in 1..Len(log)
    BY <1>1
  <2>2. QED
    BY <2>1 DEF PagedAt, Holds
<1>7. Call(c).resume => \A i \in K : i > mark[c]
  <2>1. Call(c).resume => mark[c] = after
    BY DEF AfterOf
  <2>2. \A i \in K : i > after
    BY <1>1
  <2>3. QED
    BY <2>1, <2>2
<1>8. Len(Call(c).from) = k
  BY DEF PagedAt
<1> HIDE DEF K
<1>9. EventsAreExpected(c, K)
  <2>1. \A j \in 1..k : log[Nth(K, j)].stream \in Call(c).from[j]
    BY <1>5, <1>6
  <2>2. QED
    BY <1>4, <1>7, <1>8, <2>1 DEF EventsAreExpected
<1>10. QED
  BY <1>3, <1>4, <1>5, <1>9 DEF PageAt

-------------------------------------------------------------------------------
LEMMA AccumulatesOn ==
  ASSUME NEW c, NEW sc, WellScripted(sc, c), NEW k \in 1..Len(sc)
  PROVE  /\ Accumulated(sc, k) = Accumulated(sc, k - 1) \o Accepted(sc[k])
         /\ Accumulated(sc, k - 1) \in Seq(StreamsIn(sc))
         /\ Accepted(sc[k]) \in Seq(StreamsIn(sc))
<1>1. /\ \A i \in 1..Len(sc) : Accepted(sc[i]) \in Seq(StreamsIn(sc))
      /\ Len(sc) \in Nat
  BY AcceptedIsNamed
<1>2. k \in Nat /\ k # 0 /\ k - 1 \in Nat /\ \A i \in 1..(k - 1) : i \in 1..Len(sc)
  BY <1>1
<1>3. \A i \in 1..k : i \in 1..Len(sc)
  BY <1>1
<1> DEFINE S == StreamsIn(sc)
<1> HIDE DEF S
<1>4. \A i \in 1..Len(sc) : Accepted(sc[i]) \in Seq(S)
  BY <1>1 DEF S
<1>5. Accumulated(sc, k) = Accumulated(sc, k - 1) \o Accepted(sc[k])
  <2>1. \A i \in 1..k : Accepted(sc[i]) \in Seq(S)
    BY <1>3, <1>4
  <2>2. QED
    BY <1>2, <2>1, Accumulates
<1>6. Accumulated(sc, k - 1) \in Seq(S)
  <2>1. \A i \in 1..(k - 1) : Accepted(sc[i]) \in Seq(S)
    BY <1>2, <1>4
  <2>2. QED
    BY <1>2, <2>1, AccumulatedIsSequence
<1>7. QED
  BY <1>4, <1>5, <1>6 DEF S

LEMMA RefusedAccumulatesNothing ==
  ASSUME NEW c, NEW sc, WellScripted(sc, c), NEW k \in 1..Len(sc), Accepted(sc[k]) = << >>
  PROVE  Accumulated(sc, k) = Accumulated(sc, k - 1)
<1> DEFINE before == Accumulated(sc, k - 1)
<1>1. Accumulated(sc, k) = before \o << >> /\ before \in Seq(StreamsIn(sc))
  BY AccumulatesOn, Zenon
<1> HIDE DEF before
<1>2. before \o << >> = before
  BY <1>1
<1>3. QED
  BY <1>1, <1>2, Zenon DEF before

\* a script whose calls after the first append nothing
LEMMA OnceAccumulated ==
  ASSUME NEW c, NEW sc, WellScripted(sc, c), NEW k \in 1..Len(sc),
         \A i \in 2..k : Accepted(sc[i]) = << >>
  PROVE  Accumulated(sc, k) = Accepted(sc[1])
<1> DEFINE Good == {i \in 0..k : i = 0 \/ Accumulated(sc, i) = Accepted(sc[1])}
<1>1. Len(sc) \in Nat /\ k \in Nat /\ 1 \in 1..Len(sc)
  BY AcceptedIsNamed
<1>2. Accumulated(sc, 1) = Accepted(sc[1])
  <2>1. Accepted(sc[1]) \in Seq(StreamsIn(sc))
    BY <1>1, AcceptedIsNamed
  <2>2. QED
    BY <2>1, FirstAccumulated
<1>3. 0 \in Good
  BY <1>1
<1>4. ASSUME NEW i \in 1..k, i - 1 \in Good PROVE i \in Good
  <2>1. i = 1 \/ i \in 2..k
    BY <1>1
  <2>2. CASE i = 1
    BY <1>2, <2>2, <1>1
  <2>3. CASE i \in 2..k
    <3>1. i \in 1..Len(sc) /\ i - 1 # 0
      BY <1>1, <2>3
    <3>2. Accumulated(sc, i) = Accumulated(sc, i - 1)
      BY <2>3, <3>1, RefusedAccumulatesNothing
    <3>3. QED
      BY <1>4, <3>1, <3>2
  <2>4. QED
    BY <2>1, <2>2, <2>3
<1>5. \A i \in 0..k : i \in Good
  <2> HIDE DEF Good
  <2>1. QED
    BY <1>1, <1>3, <1>4, Interval
<1>6. QED
  BY <1>1, <1>5

LEMMA CountOfTimes ==
  ASSUME NEW n \in Nat, NEW s
  PROVE  Count(Times(n, s), s) = n
<1>1. {j \in DOMAIN Times(n, s) : Times(n, s)[j] = s} = 1..n
  BY DEF Times
<1>2. Cardinality(1..n) = n
  BY FS_Interval
<1>3. QED
  BY <1>1, <1>2 DEF Count

(***************************************************************************)
(* What the calls of a script may expect, from the calls before them.      *)
(***************************************************************************)
SavesAt(sc, i, name) == sc[i].op = "saveCheckpoint" /\ sc[i].name = name

Told(sc, k, name, position) ==
  \/ position = 0 /\ \A i \in 1..k : ~SavesAt(sc, i, name)
  \/ \E j \in 1..k : /\ SavesAt(sc, j, name) /\ sc[j].position = position
                     /\ \A i \in (j + 1)..k : ~SavesAt(sc, i, name)

HeldAfter(sc, k, name) ==
  \E j \in 1..k : /\ sc[j].op = "acquire" /\ sc[j].name = name
                  /\ \A i \in (j + 1)..k : ~(sc[i].op = "drop" /\ sc[i].name = name)

\* the first snapshot saved is the one that is kept
KeptAfter(sc, k, found) ==
  \/ found = NoSnapshot /\ \A i \in 1..k : sc[i].op # "saveSnapshot"
  \/ \E j \in 1..k : /\ sc[j].op = "saveSnapshot" /\ sc[j].snapshot = found
                     /\ \A i \in 1..(j - 1) : sc[i].op # "saveSnapshot"

SnapshotsRight(sc, i, c) ==
  /\ sc[i].op \in {"saveSnapshot", "loadSnapshot"} => sc[i].id = c
  /\ sc[i].op = "saveSnapshot" =>
        /\ sc[i].expects = "Ok"
        /\ \A j \in 1..(i - 1) :
              sc[j].op = "saveSnapshot" => ~Covers(sc[i].snapshot, sc[j].snapshot)
  /\ sc[i].op = "loadSnapshot" => KeptAfter(sc, i - 1, sc[i].found)

CheckpointsRight(sc, i, c) ==
  /\ sc[i].op \in {"saveCheckpoint", "loadCheckpoint"} => sc[i].name[2] = c
  /\ sc[i].op = "saveCheckpoint" => sc[i].expects = "Ok"
  /\ sc[i].op = "loadCheckpoint" => Told(sc, i - 1, sc[i].name, sc[i].found)

CoordinationRight(sc, i, c) ==
  /\ sc[i].op \in {"acquire", "drop"} => sc[i].name[2] = c
  /\ sc[i].op = "drop" => sc[i].expects = "Ok"
  /\ sc[i].op = "acquire" =>
        sc[i].expects = IF HeldAfter(sc, i - 1, sc[i].name) THEN "LeadershipNotAcquired" ELSE "Ok"

DataRight(sc, i, c) ==
  SnapshotsRight(sc, i, c) /\ CheckpointsRight(sc, i, c) /\ CoordinationRight(sc, i, c)

ReadRight(sc, i, c) ==
  /\ Separate(sc[i].stream, c)
  /\ sc[i].stream \in StreamsIn(sc) \/ Accumulated(sc, i - 1) = << >>
  /\ sc[i].after \in Nat
  /\ LET n == Count(Accumulated(sc, i - 1), sc[i].stream)
     IN \/ /\ sc[i].type = ContractTestEvent
           /\ sc[i].expects = "Ok"
           /\ sc[i].after <= n
           /\ sc[i].count = n - sc[i].after
        \/ /\ sc[i].type = MismatchedEvent
           /\ sc[i].expects = "DeserializationFailed"
           /\ sc[i].after = 0
           /\ n # 0

StoreOps == {"append", "readStream", "readEvents"}

\* a test of the event store, or one of the other parts
RightlyStored(sc, c) ==
  /\ \A i \in 1..Len(sc) : sc[i].op \in StoreOps
  /\ \A i \in 1..Len(sc) : sc[i].op = "readStream" => ReadRight(sc, i, c)

RightlyKept(sc, c) ==
  \A i \in 1..Len(sc) : sc[i].op \notin StoreOps /\ DataRight(sc, i, c)

USE DEF Appends, AppendTo, At, AtBoth, AtZero, ReadsAfter, Reads, ReadsMismatched, ReadsEvents,
        Selects, SavesSnapshot, LoadsSnapshot, SavesCheckpoint, LoadsCheckpoint, Acquires, Drops

LEMMA KeepingTestsAreRight ==
  ASSUME NEW c
  PROVE  /\ RightlyKept(SnapshotLoadMissing(c), c)
         /\ RightlyKept(SnapshotRoundTripAndMonotonic(c), c)
         /\ RightlyKept(CheckpointSaveAndLoad(c), c)
         /\ RightlyKept(CheckpointUpdateOverwrites(c), c)
         /\ RightlyKept(CheckpointLoadMissingReturnsNone(c), c)
         /\ RightlyKept(CheckpointIndependentSubscriptions(c), c)
         /\ RightlyKept(CoordinationAcquireLeadership(c), c)
         /\ RightlyKept(CoordinationSecondInstanceBlocked(c), c)
         /\ RightlyKept(CoordinationIndependentSubscriptions(c), c)
         /\ RightlyKept(CoordinationLeadershipReleasedOnGuardDrop(c), c)
<1> USE DEF RightlyKept, DataRight, SnapshotsRight, CheckpointsRight, CoordinationRight, StoreOps
<1>1. RightlyKept(SnapshotLoadMissing(c), c)
  BY DEF SnapshotLoadMissing, KeptAfter
<1>2. RightlyKept(SnapshotRoundTripAndMonotonic(c), c)
  <2> DEFINE primary == Stream(c, "primary")
             secondary == Stream(c, "secondary")
             newer == ContractSnapshot(primary, secondary, 4, 9, 200)
             stale == ContractSnapshot(primary, secondary, 3, 8, 100)
  <2>1. ~Covers(stale, newer)
    <3>1. /\ DOMAIN newer.versions = {primary, secondary}
          /\ newer.versions[primary] = 4 /\ stale.versions[primary] = 3
      BY DEF ContractSnapshot
    <3> HIDE DEF newer, stale
    <3>2. QED
      BY <3>1 DEF Covers
  <2>2. SnapshotRoundTripAndMonotonic(c)
          = << SavesSnapshot(c, newer), SavesSnapshot(c, stale), LoadsSnapshot(c, newer) >>
    BY DEF SnapshotRoundTripAndMonotonic
  <2> HIDE DEF newer, stale
  <2>3. QED
    BY <2>1, <2>2 DEF KeptAfter
<1>3. RightlyKept(CheckpointSaveAndLoad(c), c)
  BY DEF CheckpointSaveAndLoad, Told, SavesAt
<1>4. RightlyKept(CheckpointUpdateOverwrites(c), c)
  BY DEF CheckpointUpdateOverwrites, Told, SavesAt
<1>5. RightlyKept(CheckpointLoadMissingReturnsNone(c), c)
  BY DEF CheckpointLoadMissingReturnsNone, Told, SavesAt
<1>6. RightlyKept(CheckpointIndependentSubscriptions(c), c)
  <2> DEFINE a == << "sub-a", c >>
             b == << "sub-b", c >>
             sc == CheckpointIndependentSubscriptions(c)
  <2>1. /\ Len(sc) = 4
        /\ sc[1] = SavesCheckpoint(a, 1) /\ sc[2] = SavesCheckpoint(b, 2)
        /\ sc[3] = LoadsCheckpoint(a, 1) /\ sc[4] = LoadsCheckpoint(b, 2)
    BY DEF CheckpointIndependentSubscriptions
  <2>2. a # b /\ a[2] = c /\ b[2] = c
    OBVIOUS
  <2> HIDE DEF a, b, sc
  <2>3. Told(sc, 3 - 1, a, 1) /\ Told(sc, 4 - 1, b, 2)
    BY <2>1, <2>2 DEF Told, SavesAt
  <2>4. \A i \in 1..4 : DataRight(sc, i, c) /\ sc[i].op \notin StoreOps
    <3>1. \A i \in 1..4 : i = 1 \/ i = 2 \/ i = 3 \/ i = 4
      OBVIOUS
    <3>2. \A i \in {1, 2, 3, 4} : DataRight(sc, i, c) /\ sc[i].op \notin StoreOps
      BY <2>1, <2>2, <2>3
    <3>3. QED
      BY <3>1, <3>2
  <2>5. RightlyKept(sc, c)
    BY <2>1, <2>4 DEF RightlyKept
  <2>6. QED
    BY <2>5 DEF sc
<1>7. RightlyKept(CoordinationAcquireLeadership(c), c)
  BY DEF CoordinationAcquireLeadership, HeldAfter
<1>8. RightlyKept(CoordinationSecondInstanceBlocked(c), c)
  BY DEF CoordinationSecondInstanceBlocked, HeldAfter
<1>9. RightlyKept(CoordinationIndependentSubscriptions(c), c)
  BY DEF CoordinationIndependentSubscriptions, HeldAfter
<1>10. RightlyKept(CoordinationLeadershipReleasedOnGuardDrop(c), c)
  BY DEF CoordinationLeadershipReleasedOnGuardDrop, HeldAfter
<1>11. QED
  BY <1>1, <1>2, <1>3, <1>4, <1>5, <1>6, <1>7, <1>8, <1>9, <1>10

\* a test without readStream
LEMMA UnreadIsRight ==
  ASSUME NEW c, NEW sc, \A i \in 1..Len(sc) : sc[i].op \in {"append", "readEvents"}
  PROVE  RightlyStored(sc, c)
BY DEF RightlyStored, StoreOps

LEMMA UnreadTestsAreRight ==
  ASSUME NEW c
  PROVE  /\ RightlyStored(ConcurrentVersionConflicts(c), c)
         /\ RightlyStored(EventOrderingAcrossStreams(c), c)
         /\ RightlyStored(PositionBasedResumption(c), c)
         /\ RightlyStored(StreamPrefixFiltering(c), c)
         /\ RightlyStored(StreamPrefixRequiresPrefixMatch(c), c)
         /\ RightlyStored(StreamPatternFiltering(c), c)
         /\ RightlyStored(StreamPatternSingleChar(c), c)
         /\ RightlyStored(StreamPatternCharClass(c), c)
         /\ RightlyStored(BatchLimiting(c), c)
<1>1. RightlyStored(ConcurrentVersionConflicts(c), c)
  BY UnreadIsRight DEF ConcurrentVersionConflicts
<1>2. RightlyStored(EventOrderingAcrossStreams(c), c)
  BY UnreadIsRight DEF EventOrderingAcrossStreams
<1>3. RightlyStored(PositionBasedResumption(c), c)
  BY UnreadIsRight DEF PositionBasedResumption
<1>4. RightlyStored(StreamPrefixFiltering(c), c)
  <2> DEFINE sc == StreamPrefixFiltering(c)
  <2>1. Len(sc) = 2 /\ sc[1].op = "append" /\ sc[2].op = "readEvents"
    BY DEF StreamPrefixFiltering
  <2> HIDE DEF sc
  <2>2. RightlyStored(sc, c)
    BY <2>1, UnreadIsRight
  <2>3. QED
    BY <2>2 DEF sc
<1>5. RightlyStored(StreamPrefixRequiresPrefixMatch(c), c)
  <2> DEFINE sc == StreamPrefixRequiresPrefixMatch(c)
  <2>1. Len(sc) = 2 /\ sc[1].op = "append" /\ sc[2].op = "readEvents"
    BY DEF StreamPrefixRequiresPrefixMatch
  <2> HIDE DEF sc
  <2>2. RightlyStored(sc, c)
    BY <2>1, UnreadIsRight
  <2>3. QED
    BY <2>2 DEF sc
<1>6. RightlyStored(StreamPatternFiltering(c), c)
  <2> DEFINE sc == StreamPatternFiltering(c)
  <2>1. Len(sc) = 2 /\ sc[1].op = "append" /\ sc[2].op = "readEvents"
    BY DEF StreamPatternFiltering
  <2> HIDE DEF sc
  <2>2. RightlyStored(sc, c)
    BY <2>1, UnreadIsRight
  <2>3. QED
    BY <2>2 DEF sc
<1>7. RightlyStored(StreamPatternSingleChar(c), c)
  <2> DEFINE sc == StreamPatternSingleChar(c)
  <2>1. Len(sc) = 2 /\ sc[1].op = "append" /\ sc[2].op = "readEvents"
    BY DEF StreamPatternSingleChar
  <2> HIDE DEF sc
  <2>2. RightlyStored(sc, c)
    BY <2>1, UnreadIsRight
  <2>3. QED
    BY <2>2 DEF sc
<1>8. RightlyStored(StreamPatternCharClass(c), c)
  <2> DEFINE sc == StreamPatternCharClass(c)
  <2>1. Len(sc) = 2 /\ sc[1].op = "append" /\ sc[2].op = "readEvents"
    BY DEF StreamPatternCharClass
  <2> HIDE DEF sc
  <2>2. RightlyStored(sc, c)
    BY <2>1, UnreadIsRight
  <2>3. QED
    BY <2>2 DEF sc
<1>9. RightlyStored(BatchLimiting(c), c)
  BY UnreadIsRight DEF BatchLimiting
<1>10. QED
  BY <1>1, <1>2, <1>3, <1>4, <1>5, <1>6, <1>7, <1>8, <1>9

\* a test that appends with its first call only, and then reads
ReadsBack(call, batch, streams) ==
  /\ call.stream \in streams
  /\ call.after \in Nat
  /\ \/ /\ call.type = ContractTestEvent
        /\ call.expects = "Ok"
        /\ call.after <= Count(batch, call.stream)
        /\ call.count = Count(batch, call.stream) - call.after
     \/ /\ call.type = MismatchedEvent
        /\ call.expects = "DeserializationFailed"
        /\ call.after = 0
        /\ Count(batch, call.stream) # 0

LEMMA ReadingIsRight ==
  ASSUME NEW c, NEW sc, WellScripted(sc, c), NEW batch,
         Accepted(sc[1]) = batch, sc[1].op = "append",
         \A i \in 2..Len(sc) : sc[i].op \in {"append", "readStream"} /\ Accepted(sc[i]) = << >>,
         \A i \in 2..Len(sc) :
            sc[i].op = "readStream" => ReadsBack(sc[i], batch, StreamsIn(sc))
  PROVE  RightlyStored(sc, c)
<1>1. Len(sc) \in Nat /\ \A i \in 1..Len(sc) : i = 1 \/ i \in 2..Len(sc)
  BY AcceptedIsNamed
<1>2. ASSUME NEW i \in 2..Len(sc) PROVE Accumulated(sc, i - 1) = batch
  <2>1. i - 1 \in 1..Len(sc) /\ \A j \in 2..(i - 1) : j \in 2..Len(sc)
    BY <1>1
  <2>2. \A j \in 2..(i - 1) : Accepted(sc[j]) = << >>
    BY <2>1
  <2>3. QED
    BY <2>1, <2>2, OnceAccumulated
<1>3. ASSUME NEW i \in 2..Len(sc), sc[i].op = "readStream" PROVE ReadRight(sc, i, c)
  <2>1. Separate(sc[i].stream, c)
    BY <1>3, AcceptedIsNamed DEF ReadsBack
  <2>2. Count(Accumulated(sc, i - 1), sc[i].stream) = Count(batch, sc[i].stream)
    BY <1>2
  <2>3. QED
    BY <1>3, <2>1, <2>2 DEF ReadRight, ReadsBack
<1>4. QED
  BY <1>1, <1>3 DEF RightlyStored, StoreOps

LEMMA ReadingTestsAreRight ==
  ASSUME NEW c \in Clients
  PROVE  /\ RightlyStored(ReadStreamAfterExcludesReconstructedEvents(c), c)
         /\ RightlyStored(BasicReadWrite(c), c)
         /\ RightlyStored(ReadOnlyParticipantConflictPreservesAtomicity(c), c)
         /\ RightlyStored(StreamIsolation(c), c)
         /\ RightlyStored(ConflictPreservesAtomicity(c), c)
         /\ RightlyStored(ReadStreamErrorsOnTypeMismatch(c), c)
         /\ RightlyStored(PersistsLargeBatchAcrossChunkBoundary(c), c)
<1>1. RightlyStored(ReadStreamAfterExcludesReconstructedEvents(c), c)
  <2> DEFINE history == Stream(c, "history")
             batch == Times(3, history)
             sc == ReadStreamAfterExcludesReconstructedEvents(c)
  <2>1. WellScripted(sc, c)
    BY OneStreamTestsFit
  <2>2. Count(batch, history) = 3
    BY CountOfTimes, DistinctLabels
  <2>3. Accepted(sc[1]) = batch /\ sc[1].op = "append"
    BY DEF ReadStreamAfterExcludesReconstructedEvents, Accepted
  <2> HIDE DEF batch
  <2>4. history \in StreamsIn(sc)
    BY DEF ReadStreamAfterExcludesReconstructedEvents, StreamsIn
  <2>5. /\ Len(sc) = 2
      /\ sc[2] = ReadsAfter(history, 2, 1)
    BY DEF ReadStreamAfterExcludesReconstructedEvents
  <2> HIDE DEF sc, history
  <2>6. \A i \in 2..Len(sc) : sc[i].op \in {"append", "readStream"} /\ Accepted(sc[i]) = << >>
    BY <2>5 DEF Accepted
  <2>7. \A i \in 2..Len(sc) :
           sc[i].op = "readStream" => ReadsBack(sc[i], batch, StreamsIn(sc))
    BY <2>2, <2>4, <2>5 DEF ReadsBack
  <2>8. RightlyStored(sc, c)
    BY <2>1, <2>3, <2>6, <2>7, ReadingIsRight
  <2>9. QED
    BY <2>8 DEF sc
<1>2. RightlyStored(BasicReadWrite(c), c)
  <2> DEFINE single == Stream(c, "single")
             batch == << single >>
             sc == BasicReadWrite(c)
  <2>1. WellScripted(sc, c)
    BY OneStreamTestsFit
  <2>2. Count(batch, single) = 1
    BY CountOfOne, DistinctLabels
  <2>3. Accepted(sc[1]) = batch /\ sc[1].op = "append"
    BY DEF BasicReadWrite, Accepted
  <2> HIDE DEF batch
  <2>4. single \in StreamsIn(sc)
    BY DEF BasicReadWrite, StreamsIn
  <2>5. /\ Len(sc) = 2
      /\ sc[2] = Reads(single, 1)
    BY DEF BasicReadWrite
  <2> HIDE DEF sc, single
  <2>6. \A i \in 2..Len(sc) : sc[i].op \in {"append", "readStream"} /\ Accepted(sc[i]) = << >>
    BY <2>5 DEF Accepted
  <2>7. \A i \in 2..Len(sc) :
           sc[i].op = "readStream" => ReadsBack(sc[i], batch, StreamsIn(sc))
    BY <2>2, <2>4, <2>5 DEF ReadsBack
  <2>8. RightlyStored(sc, c)
    BY <2>1, <2>3, <2>6, <2>7, ReadingIsRight
  <2>9. QED
    BY <2>8 DEF sc
<1>3. RightlyStored(ReadOnlyParticipantConflictPreservesAtomicity(c), c)
  <2> DEFINE participant == Stream(c, "participant")
             target == Stream(c, "target")
             batch == << participant >>
             sc == ReadOnlyParticipantConflictPreservesAtomicity(c)
  <2>1. WellScripted(sc, c)
    BY RepeatedAppendsFit
  <2>2. Count(batch, target) = 0
    BY CountOfOne, DistinctLabels
  <2>3. Accepted(sc[1]) = batch /\ sc[1].op = "append"
    BY DEF ReadOnlyParticipantConflictPreservesAtomicity, Accepted
  <2> HIDE DEF batch
  <2>4. participant \in StreamsIn(sc) /\ target \in StreamsIn(sc)
    BY DEF ReadOnlyParticipantConflictPreservesAtomicity, StreamsIn
  <2>5. /\ Len(sc) = 3
      /\ sc[2] = AppendTo(AtZero({participant, target}), << target >>, "VersionConflict")
      /\ sc[3] = Reads(target, 0)
    BY DEF ReadOnlyParticipantConflictPreservesAtomicity
  <2> HIDE DEF sc, participant, target
  <2>6. \A i \in 2..Len(sc) : sc[i].op \in {"append", "readStream"} /\ Accepted(sc[i]) = << >>
    BY <2>5 DEF Accepted
  <2>7. \A i \in 2..Len(sc) :
           sc[i].op = "readStream" => ReadsBack(sc[i], batch, StreamsIn(sc))
    BY <2>2, <2>4, <2>5 DEF ReadsBack
  <2>8. RightlyStored(sc, c)
    BY <2>1, <2>3, <2>6, <2>7, ReadingIsRight
  <2>9. QED
    BY <2>8 DEF sc
<1>4. RightlyStored(StreamIsolation(c), c)
  <2> DEFINE left == Stream(c, "left")
             right == Stream(c, "right")
             batch == << left, right >>
             sc == StreamIsolation(c)
  <2>1. WellScripted(sc, c)
    BY OneStreamTestsFit
  <2>2. Count(batch, left) = 1 /\ Count(batch, right) = 1
    BY CountOfTwo, DistinctLabels
  <2>3. Accepted(sc[1]) = batch /\ sc[1].op = "append"
    BY DEF StreamIsolation, Accepted
  <2> HIDE DEF batch
  <2>4. left \in StreamsIn(sc) /\ right \in StreamsIn(sc)
    BY DEF StreamIsolation, StreamsIn
  <2>5. /\ Len(sc) = 3
      /\ sc[2] = Reads(left, 1)
      /\ sc[3] = Reads(right, 1)
    BY DEF StreamIsolation
  <2> HIDE DEF sc, left, right
  <2>6. \A i \in 2..Len(sc) : sc[i].op \in {"append", "readStream"} /\ Accepted(sc[i]) = << >>
    BY <2>5 DEF Accepted
  <2>7. \A i \in 2..Len(sc) :
           sc[i].op = "readStream" => ReadsBack(sc[i], batch, StreamsIn(sc))
    BY <2>2, <2>4, <2>5 DEF ReadsBack
  <2>8. RightlyStored(sc, c)
    BY <2>1, <2>3, <2>6, <2>7, ReadingIsRight
  <2>9. QED
    BY <2>8 DEF sc
<1>5. RightlyStored(ConflictPreservesAtomicity(c), c)
  <2> DEFINE left == Stream(c, "left")
             right == Stream(c, "right")
             batch == << left, right >>
             sc == ConflictPreservesAtomicity(c)
  <2>1. WellScripted(sc, c)
    BY RepeatedAppendsFit
  <2>2. Count(batch, left) = 1 /\ Count(batch, right) = 1
    BY CountOfTwo, DistinctLabels
  <2>3. Accepted(sc[1]) = batch /\ sc[1].op = "append"
    BY DEF ConflictPreservesAtomicity, Accepted
  <2> HIDE DEF batch
  <2>4. left \in StreamsIn(sc) /\ right \in StreamsIn(sc)
    BY DEF ConflictPreservesAtomicity, StreamsIn
  <2>5. /\ Len(sc) = 4
      /\ sc[2] = AppendTo(AtBoth(left, 0, right, 1), << left, right >>, "VersionConflict")
      /\ sc[3] = Reads(left, 1)
      /\ sc[4] = Reads(right, 1)
    BY DEF ConflictPreservesAtomicity
  <2> HIDE DEF sc, left, right
  <2>6. \A i \in 2..Len(sc) : sc[i].op \in {"append", "readStream"} /\ Accepted(sc[i]) = << >>
    BY <2>5 DEF Accepted
  <2>7. \A i \in 2..Len(sc) :
           sc[i].op = "readStream" => ReadsBack(sc[i], batch, StreamsIn(sc))
    BY <2>2, <2>4, <2>5 DEF ReadsBack
  <2>8. RightlyStored(sc, c)
    BY <2>1, <2>3, <2>6, <2>7, ReadingIsRight
  <2>9. QED
    BY <2>8 DEF sc
<1>6. RightlyStored(ReadStreamErrorsOnTypeMismatch(c), c)
  <2> DEFINE mismatched == Stream(c, "mismatched")
             batch == << mismatched >>
             sc == ReadStreamErrorsOnTypeMismatch(c)
  <2>1. WellScripted(sc, c)
    BY OneStreamTestsFit
  <2>2. Count(batch, mismatched) = 1
    BY CountOfOne, DistinctLabels
  <2>3. Accepted(sc[1]) = batch /\ sc[1].op = "append"
    BY DEF ReadStreamErrorsOnTypeMismatch, Accepted
  <2> HIDE DEF batch
  <2>4. mismatched \in StreamsIn(sc)
    BY DEF ReadStreamErrorsOnTypeMismatch, StreamsIn
  <2>5. /\ Len(sc) = 2
      /\ sc[2] = ReadsMismatched(mismatched)
    BY DEF ReadStreamErrorsOnTypeMismatch
  <2> HIDE DEF sc, mismatched
  <2>6. \A i \in 2..Len(sc) : sc[i].op \in {"append", "readStream"} /\ Accepted(sc[i]) = << >>
    BY <2>5 DEF Accepted
  <2>7. \A i \in 2..Len(sc) :
           sc[i].op = "readStream" => ReadsBack(sc[i], batch, StreamsIn(sc))
    BY <2>2, <2>4, <2>5 DEF ReadsBack
  <2>8. RightlyStored(sc, c)
    BY <2>1, <2>3, <2>6, <2>7, ReadingIsRight
  <2>9. QED
    BY <2>8 DEF sc
<1>7. RightlyStored(PersistsLargeBatchAcrossChunkBoundary(c), c)
  <2> DEFINE large == Stream(c, "large")
             batch == Times(5, large)
             sc == PersistsLargeBatchAcrossChunkBoundary(c)
  <2>1. WellScripted(sc, c)
    BY OneStreamTestsFit
  <2>2. Count(batch, large) = 5
    BY CountOfTimes, DistinctLabels
  <2>3. Accepted(sc[1]) = batch /\ sc[1].op = "append"
    BY DEF PersistsLargeBatchAcrossChunkBoundary, Accepted
  <2> HIDE DEF batch
  <2>4. large \in StreamsIn(sc)
    BY DEF PersistsLargeBatchAcrossChunkBoundary, StreamsIn
  <2>5. /\ Len(sc) = 2
      /\ sc[2] = Reads(large, 5)
    BY DEF PersistsLargeBatchAcrossChunkBoundary
  <2> HIDE DEF sc, large
  <2>6. \A i \in 2..Len(sc) : sc[i].op \in {"append", "readStream"} /\ Accepted(sc[i]) = << >>
    BY <2>5 DEF Accepted
  <2>7. \A i \in 2..Len(sc) :
           sc[i].op = "readStream" => ReadsBack(sc[i], batch, StreamsIn(sc))
    BY <2>2, <2>4, <2>5 DEF ReadsBack
  <2>8. RightlyStored(sc, c)
    BY <2>1, <2>3, <2>6, <2>7, ReadingIsRight
  <2>9. QED
    BY <2>8 DEF sc
<1>8. QED
  BY <1>1, <1>2, <1>3, <1>4, <1>5, <1>6, <1>7

LEMMA MissingStreamReadsIsRight ==
  ASSUME NEW c \in Clients
  PROVE  RightlyStored(MissingStreamReads(c), c)
<1> DEFINE ghost == Stream(c, "ghost")
           sc == MissingStreamReads(c)
<1>1. Len(sc) = 1 /\ sc[1] = Reads(ghost, 0)
  BY DEF MissingStreamReads
<1>2. Separate(ghost, c)
  BY ClientsAssumption DEF Separate, Stream, ToSet, Words
<1>3. Count(Accumulated(sc, 1 - 1), ghost) = 0 /\ Accumulated(sc, 1 - 1) = << >>
  BY NothingAccumulated, CountOfNone
<1>4. ReadRight(sc, 1, c)
  <2> HIDE DEF sc, ghost
  <2>1. QED
    BY <1>1, <1>2, <1>3 DEF ReadRight
<1>5. QED
  BY <1>1, <1>4 DEF RightlyStored, StoreOps

LEMMA ParticipantTestIsRight ==
  ASSUME NEW c \in Clients
  PROVE  RightlyStored(CurrentReadOnlyParticipantAllowsWrite(c), c)
<1> DEFINE participant == Stream(c, "participant")
           target == Stream(c, "target")
           sc == CurrentReadOnlyParticipantAllowsWrite(c)
<1>1. /\ Len(sc) = 3
      /\ sc[1] = Appends(At(participant, 0), << participant >>)
      /\ sc[2] = Appends(AtBoth(participant, 1, target, 0), << target >>)
      /\ sc[3] = Reads(target, 1)
  BY DEF CurrentReadOnlyParticipantAllowsWrite
<1>2. WellScripted(sc, c) /\ Separate(target, c) /\ participant # target
  BY RepeatedAppendsFit, StreamsAreSeparate, DistinctLabels
<1>3. target \in StreamsIn(sc)
  BY DEF CurrentReadOnlyParticipantAllowsWrite, StreamsIn
<1> HIDE DEF participant, target, sc
<1>4. Accepted(sc[1]) = << participant >> /\ Accepted(sc[2]) = << target >>
  BY <1>1 DEF Accepted
<1> DEFINE S == StreamsIn(sc)
<1> HIDE DEF S
<1>5. Accumulated(sc, 1) = << participant >> /\ << participant >> \in Seq(S) /\ << target >> \in Seq(S)
  <2>1. 1 \in 1..Len(sc) /\ \A i \in 2..1 : Accepted(sc[i]) = << >>
    BY <1>1
  <2>2. Accumulated(sc, 1) = Accepted(sc[1])
    BY <1>2, <2>1, OnceAccumulated
  <2>3. Accepted(sc[1]) \in Seq(StreamsIn(sc)) /\ Accepted(sc[2]) \in Seq(StreamsIn(sc))
    <3>1. \A i \in 1..Len(sc) : Accepted(sc[i]) \in Seq(StreamsIn(sc))
      BY <1>2, AcceptedIsNamed
    <3>2. 1 \in 1..Len(sc) /\ 2 \in 1..Len(sc)
      BY <1>1
    <3>3. QED
      BY <3>1, <3>2, Zenon
  <2>4. QED
    BY <1>4, <2>2, <2>3, Zenon DEF S
<1>6. Accumulated(sc, 2) = << participant >> \o << target >>
  <2>1. 2 \in 1..Len(sc) /\ 2 - 1 = 1
    BY <1>1
  <2>2. Accumulated(sc, 2) = Accumulated(sc, 2 - 1) \o Accepted(sc[2])
    BY <1>2, <2>1, AccumulatesOn
  <2>3. QED
    BY <1>4, <1>5, <2>1, <2>2, Zenon
<1>7. Count(Accumulated(sc, 2), target) = 1
  <2>1. Sums(<< participant >>, << target >>, target)
    BY <1>5, CountConcat, Zenon
  <2>2. Count(<< participant >>, target) = 0 /\ Count(<< target >>, target) = 1
    BY <1>2, CountOfOne
  <2>3. Count(<< participant >> \o << target >>, target)
          = Count(<< participant >>, target) + Count(<< target >>, target)
    BY <2>1, Zenon DEF Sums
  <2>4. Count(<< participant >> \o << target >>, target) = 0 + 1
    BY <2>2, <2>3, Zenon
  <2>5. 0 + 1 = 1
    OBVIOUS
  <2>6. QED
    BY <1>6, <2>4, <2>5, Zenon
<1>8. Count(Accumulated(sc, 3 - 1), target) = 1
  <2>1. 3 - 1 = 2
    OBVIOUS
  <2>2. QED
    BY <1>7, <2>1, Zenon
<1>9. ReadRight(sc, 3, c)
  BY <1>1, <1>2, <1>3, <1>8 DEF ReadRight
<1>10. RightlyStored(sc, c)
  BY <1>1, <1>9 DEF RightlyStored, StoreOps
<1>11. QED
  BY <1>10 DEF sc

HIDE DEF Appends, AppendTo, At, AtBoth, AtZero, ReadsAfter, Reads, ReadsMismatched, ReadsEvents,
         Selects, SavesSnapshot, LoadsSnapshot, SavesCheckpoint, LoadsCheckpoint, Acquires, Drops

LEMMA SuiteIsRight ==
  ASSUME NEW c \in Clients, NEW t \in DOMAIN SuiteFor(c)
  PROVE  RightlyKept(SuiteFor(c)[t], c) \/ RightlyStored(SuiteFor(c)[t], c)
BY KeepingTestsAreRight, UnreadTestsAreRight, ReadingTestsAreRight, MissingStreamReadsIsRight,
   ParticipantTestIsRight DEF SuiteFor

-------------------------------------------------------------------------------
Pages(c) ==
  \E a, k : /\ PageAt(c, a, k)
            /\ Call(c).remember # 0 => Call(c).remember = 3 /\ a = 0 /\ k = 5

USE DEF Appends, AppendTo, At, AtBoth, AtZero, ReadsAfter, Reads, ReadsMismatched, ReadsEvents,
        Selects, SavesSnapshot, LoadsSnapshot, SavesCheckpoint, LoadsCheckpoint, Acquires, Drops

AccountName(name, x) == Len(name) = 5 /\ name[1] = "account" /\ name[2] = "-" /\ name[3] = x

Starts(name, x) == name[1] = x /\ name[2] = "-"

LEMMA AccountNames ==
  ASSUME NEW c
  PROVE  /\ AccountName(Account(<< "1", "-", c >>), "1")
         /\ AccountName(Account(<< "2", "-", c >>), "2")
         /\ AccountName(Account(<< "7", "-", c >>), "7")
         /\ AccountName(Account(<< "a", "-", c >>), "a")
         /\ AccountName(Account(<< "123", "-", c >>), "123")
<1>1. \A x \in {"1", "2", "7", "a", "123"} : AccountName(Account(<< x, "-", c >>), x)
  BY DEF Account, AccountName
<1>2. QED
  BY <1>1

LEMMA OtherNames ==
  ASSUME NEW c
  PROVE  /\ Starts(Order(<< "1", "-", c >>), "order")
         /\ Starts(Order(<< "789", "-", c >>), "order")
         /\ Starts(Order(<< "w", "-", c >>), "order")
         /\ Starts(Order(<< "x", "-", c >>), "order")
         /\ Starts(Order(<< "y", "-", c >>), "order")
         /\ Starts(Order(<< "z", "-", c >>), "order")
         /\ Starts(<< "my", "-" >> \o Account(<< "456", "-", c >>), "my")
<1>1. \A x \in {"1", "789", "w", "x", "y", "z"} : Starts(Order(<< x, "-", c >>), "order")
  BY DEF Order, Starts
<1>2. Starts(<< "my", "-" >> \o Account(<< "456", "-", c >>), "my")
  BY DEF Account, Starts
<1>3. QED
  BY <1>1, <1>2

LEMMA SecondOfTwo ==
  ASSUME NEW x, NEW y
  PROVE  << x, y >>[2] = y
OBVIOUS

LEMMA ResumptionPages ==
  ASSUME Known, NEW c, Holds(Times(5, Stream(c, "stream"))),
         \/ Call(c) = PositionBasedResumption(c)[2]
         \/ Call(c) = PositionBasedResumption(c)[3] /\ mark[c] = 3
  PROVE  Pages(c)
<1> DEFINE stream == Stream(c, "stream")
           batch == Times(5, stream)
<1>1. Len(batch) = 5 /\ \A i \in 1..5 : batch[i] = stream
  BY DEF Times
<1>2. \A row : Chosen(AllStreams, row)
  BY AllChosen
<1>3. Len(log) = 5
  BY <1>1 DEF Holds
<1>4. CASE Call(c) = PositionBasedResumption(c)[2]
  <2>1. /\ Call(c).filter = AllStreams /\ Call(c).limit = 100 /\ Call(c).from = Times(5, {stream})
        /\ Call(c).remember = 3 /\ Call(c).resume = FALSE
    BY <1>4 DEF PositionBasedResumption, Unlimited
  <2>2. AfterOf(c) = 0
    BY <2>1 DEF AfterOf
  <2>3. Len(Times(5, {stream})) = 5 /\ \A i \in 1..5 : Times(5, {stream})[i] = {stream}
    BY DEF Times
  <2> HIDE DEF batch, stream
  <2>4. PagedAt(c, batch, 0, 5, 5)
    BY <1>1, <1>2, <1>3, <2>1, <2>2, <2>3 DEF PagedAt, Limits
  <2>5. PageAt(c, 0, 5)
    BY <2>4, IntervalPage DEF batch, stream
  <2>6. QED
    BY <2>1, <2>5 DEF Pages
<1>5. CASE Call(c) = PositionBasedResumption(c)[3] /\ mark[c] = 3
  <2>1. /\ Call(c).filter = AllStreams /\ Call(c).limit = 100 /\ Call(c).from = Times(2, {stream})
        /\ Call(c).remember = 0 /\ Call(c).resume = TRUE
    BY <1>5 DEF PositionBasedResumption, Unlimited
  <2>2. AfterOf(c) = 3
    BY <1>5, <2>1 DEF AfterOf
  <2>3. Len(Times(2, {stream})) = 2 /\ \A i \in 1..2 : Times(2, {stream})[i] = {stream}
    BY DEF Times
  <2> HIDE DEF batch, stream
  <2>4. PagedAt(c, batch, 3, 2, 2)
    BY <1>1, <1>2, <1>3, <2>1, <2>2, <2>3 DEF PagedAt, Limits
  <2>5. PageAt(c, 3, 2)
    BY <2>4, IntervalPage DEF batch, stream
  <2>6. QED
    BY <2>1, <2>5 DEF Pages
<1>6. QED
  BY <1>4, <1>5

LEMMA LimitingPages ==
  ASSUME Known, NEW c, Holds(Times(4, Stream(c, "stream"))), Call(c) = BatchLimiting(c)[2]
  PROVE  Pages(c)
<1> DEFINE stream == Stream(c, "stream")
           batch == Times(4, stream)
<1>1. Len(batch) = 4 /\ \A i \in 1..4 : batch[i] = stream
  BY DEF Times
<1>2. \A row : Chosen(AllStreams, row)
  BY AllChosen
<1>3. Len(log) = 4
  BY <1>1 DEF Holds
<1>4. /\ Call(c).filter = AllStreams /\ Call(c).limit = 3 /\ Call(c).from = Times(3, {stream})
      /\ Call(c).remember = 0 /\ Call(c).resume = FALSE
  BY DEF BatchLimiting, PageLimit
<1>5. AfterOf(c) = 0
  BY <1>4 DEF AfterOf
<1>6. Len(Times(3, {stream})) = 3 /\ \A i \in 1..3 : Times(3, {stream})[i] = {stream}
  BY DEF Times
<1> HIDE DEF batch, stream
<1>7. PagedAt(c, batch, 0, 4, 3)
  BY <1>1, <1>2, <1>3, <1>4, <1>5, <1>6 DEF PagedAt, Limits
<1>8. PageAt(c, 0, 3)
  BY <1>7, IntervalPage DEF batch, stream
<1>9. QED
  BY <1>4, <1>8 DEF Pages

LEMMA OrderingPages ==
  ASSUME Known, NEW c, Call(c) = EventOrderingAcrossStreams(c)[4],
         Holds(<< Stream(c, "stream-a"), Stream(c, "stream-b"), Stream(c, "stream-c") >>)
  PROVE  Pages(c)
<1> DEFINE a == Stream(c, "stream-a")
           b == Stream(c, "stream-b")
           d == Stream(c, "stream-c")
           batch == << a, b, d >>
<1>1. Len(batch) = 3 /\ batch[1] = a /\ batch[2] = b /\ batch[3] = d
  OBVIOUS
<1>2. \A row : Chosen(AllStreams, row)
  BY AllChosen
<1>3. Len(log) = 3
  BY <1>1 DEF Holds
<1>4. /\ Call(c).filter = AllStreams /\ Call(c).limit = 100 /\ Call(c).from = << {a}, {b}, {d} >>
      /\ Call(c).remember = 0 /\ Call(c).resume = FALSE
  BY DEF EventOrderingAcrossStreams, Unlimited
<1>5. AfterOf(c) = 0
  BY <1>4 DEF AfterOf
<1> HIDE DEF batch, a, b, d
<1>6. Len(Call(c).from) = 3 /\ \A i \in 1..3 : batch[i] \in Call(c).from[i]
  BY <1>1, <1>4
<1>7. PagedAt(c, batch, 0, 3, 3)
  BY <1>1, <1>2, <1>3, <1>4, <1>5, <1>6 DEF PagedAt, Limits
<1>8. PageAt(c, 0, 3)
  BY <1>7, IntervalPage DEF batch, a, b, d
<1>9. QED
  BY <1>4, <1>8 DEF Pages

LEMMA PrefixPages ==
  ASSUME Known, NEW c \in Clients, Call(c) = StreamPrefixFiltering(c)[2],
         Holds(<< Account(<< "1", "-", c >>), Account(<< "2", "-", c >>), Order(<< "1", "-", c >>) >>)
  PROVE  Pages(c)
<1> DEFINE account1 == Account(<< "1", "-", c >>)
           account2 == Account(<< "2", "-", c >>)
           order1 == Order(<< "1", "-", c >>)
           batch == << account1, account2, order1 >>
           filter == AccountPrefix
<1>1. Len(batch) = 3 /\ batch[1] = account1 /\ batch[2] = account2 /\ batch[3] = order1
  OBVIOUS
<1>2. Separate(account1, c) /\ Separate(account2, c) /\ Separate(order1, c)
  BY AccountsAreSeparate
<1>3. AccountName(account1, "1") /\ AccountName(account2, "2") /\ Starts(order1, "order")
  BY AccountNames, OtherNames
<1>4. Call(c) = Selects(filter, Unlimited, Times(2, {account1, account2}))
  BY SecondOfTwo, Zenon DEF StreamPrefixFiltering
<1>5. Holds(batch)
  OBVIOUS
<1> HIDE DEF batch, filter, account1, account2, order1
<1>6. Len(log) = 3 /\ \A i \in 1..3 : log[i].stream = batch[i]
  BY <1>1, <1>5 DEF Holds
<1>7. /\ Call(c).filter = filter /\ Call(c).limit = 100
      /\ Call(c).from = Times(2, {account1, account2})
      /\ Call(c).remember = 0 /\ Call(c).resume = FALSE /\ AfterOf(c) = 0
  BY <1>4 DEF AfterOf, Unlimited
<1>8. Chosen(filter, log[1])
  <2>1. log[1].stream = account1 /\ log[1].stream \in Seq(ToSet(log[1].stream))
    BY <1>1, <1>2, <1>6 DEF Separate
  <2>2. account1[1] \in Words /\ account1[2] \in Words
    BY <1>3 DEF Words, AccountName, Starts
  <2>3. Chosen(filter, log[1]) <=> BeginsWith(log[1].stream, "account", "-")
    BY <2>1, <2>2, PrefixChosen DEF filter
  <2>4. BeginsWith(account1, "account", "-")
    BY <1>3 DEF BeginsWith, AccountName, Starts
  <2>5. QED
    BY <2>1, <2>3, <2>4, Zenon
<1>9. Chosen(filter, log[2])
  <2>1. log[2].stream = account2 /\ log[2].stream \in Seq(ToSet(log[2].stream))
    BY <1>1, <1>2, <1>6 DEF Separate
  <2>2. account2[1] \in Words /\ account2[2] \in Words
    BY <1>3 DEF Words, AccountName, Starts
  <2>3. Chosen(filter, log[2]) <=> BeginsWith(log[2].stream, "account", "-")
    BY <2>1, <2>2, PrefixChosen DEF filter
  <2>4. BeginsWith(account2, "account", "-")
    BY <1>3 DEF BeginsWith, AccountName, Starts
  <2>5. QED
    BY <2>1, <2>3, <2>4, Zenon
<1>10. ~Chosen(filter, log[3])
  <2>1. log[3].stream = order1 /\ log[3].stream \in Seq(ToSet(log[3].stream))
    BY <1>1, <1>2, <1>6 DEF Separate
  <2>2. order1[1] \in Words /\ order1[2] \in Words
    BY <1>3 DEF Words, AccountName, Starts
  <2>3. Chosen(filter, log[3]) <=> BeginsWith(log[3].stream, "account", "-")
    BY <2>1, <2>2, PrefixChosen DEF filter
  <2>4. ~BeginsWith(order1, "account", "-")
    BY <1>3 DEF BeginsWith, AccountName, Starts
  <2>5. QED
    BY <2>1, <2>3, <2>4, Zenon
<1>11. \A i \in 1..3 : Chosen(filter, log[i]) <=> i \in (0 + 1)..(0 + 2)
  <2>1. \A i \in 1..3 : i = 1 \/ i = 2 \/ i = 3
    OBVIOUS
  <2>2. QED
    BY <2>1, <1>8, <1>9, <1>10
<1>12. Len(Call(c).from) = 2 /\ \A j \in 1..2 : batch[0 + j] \in Call(c).from[j]
  BY <1>1, <1>7 DEF Times
<1>13. PagedAt(c, batch, 0, 2, 2)
  BY <1>6, <1>7, <1>11, <1>12 DEF PagedAt, Limits
<1>14. PageAt(c, 0, 2)
  BY <1>5, <1>13, IntervalPage
<1>15. QED
  BY <1>7, <1>14 DEF Pages

LEMMA PrefixMatchPages ==
  ASSUME Known, NEW c \in Clients, Call(c) = StreamPrefixRequiresPrefixMatch(c)[2],
         Holds(<< Account(<< "123", "-", c >>), << "my", "-" >> \o Account(<< "456", "-", c >>),
                  Order(<< "789", "-", c >>) >>)
  PROVE  Pages(c)
<1> DEFINE account == Account(<< "123", "-", c >>)
           myAccount == << "my", "-" >> \o Account(<< "456", "-", c >>)
           order == Order(<< "789", "-", c >>)
           batch == << account, myAccount, order >>
           filter == AccountPrefix
<1>1. Len(batch) = 3 /\ batch[1] = account /\ batch[2] = myAccount /\ batch[3] = order
  OBVIOUS
<1>2. Separate(account, c) /\ Separate(myAccount, c) /\ Separate(order, c)
  BY AccountsAreSeparate
<1>3. AccountName(account, "123") /\ Starts(myAccount, "my") /\ Starts(order, "order")
  BY AccountNames, OtherNames
<1>4. Call(c) = Selects(filter, Unlimited, << {account} >>)
  BY SecondOfTwo, Zenon DEF StreamPrefixRequiresPrefixMatch
<1>5. Holds(batch)
  OBVIOUS
<1> HIDE DEF batch, filter, account, myAccount, order
<1>6. Len(log) = 3 /\ \A i \in 1..3 : log[i].stream = batch[i]
  BY <1>1, <1>5 DEF Holds
<1>7. /\ Call(c).filter = filter /\ Call(c).limit = 100
      /\ Call(c).from = << {account} >>
      /\ Call(c).remember = 0 /\ Call(c).resume = FALSE /\ AfterOf(c) = 0
  BY <1>4 DEF AfterOf, Unlimited
<1>8. Chosen(filter, log[1])
  <2>1. log[1].stream = account /\ log[1].stream \in Seq(ToSet(log[1].stream))
    BY <1>1, <1>2, <1>6 DEF Separate
  <2>2. account[1] \in Words /\ account[2] \in Words
    BY <1>3 DEF Words, AccountName, Starts
  <2>3. Chosen(filter, log[1]) <=> BeginsWith(log[1].stream, "account", "-")
    BY <2>1, <2>2, PrefixChosen DEF filter
  <2>4. BeginsWith(account, "account", "-")
    BY <1>3 DEF BeginsWith, AccountName, Starts
  <2>5. QED
    BY <2>1, <2>3, <2>4, Zenon
<1>9. ~Chosen(filter, log[2])
  <2>1. log[2].stream = myAccount /\ log[2].stream \in Seq(ToSet(log[2].stream))
    BY <1>1, <1>2, <1>6 DEF Separate
  <2>2. myAccount[1] \in Words /\ myAccount[2] \in Words
    BY <1>3 DEF Words, AccountName, Starts
  <2>3. Chosen(filter, log[2]) <=> BeginsWith(log[2].stream, "account", "-")
    BY <2>1, <2>2, PrefixChosen DEF filter
  <2>4. ~BeginsWith(myAccount, "account", "-")
    BY <1>3 DEF BeginsWith, AccountName, Starts
  <2>5. QED
    BY <2>1, <2>3, <2>4, Zenon
<1>10. ~Chosen(filter, log[3])
  <2>1. log[3].stream = order /\ log[3].stream \in Seq(ToSet(log[3].stream))
    BY <1>1, <1>2, <1>6 DEF Separate
  <2>2. order[1] \in Words /\ order[2] \in Words
    BY <1>3 DEF Words, AccountName, Starts
  <2>3. Chosen(filter, log[3]) <=> BeginsWith(log[3].stream, "account", "-")
    BY <2>1, <2>2, PrefixChosen DEF filter
  <2>4. ~BeginsWith(order, "account", "-")
    BY <1>3 DEF BeginsWith, AccountName, Starts
  <2>5. QED
    BY <2>1, <2>3, <2>4, Zenon
<1>11. \A i \in 1..3 : Chosen(filter, log[i]) <=> i \in (0 + 1)..(0 + 1)
  <2>1. \A i \in 1..3 : i = 1 \/ i = 2 \/ i = 3
    OBVIOUS
  <2>2. QED
    BY <2>1, <1>8, <1>9, <1>10
<1>12. Len(Call(c).from) = 1 /\ \A j \in 1..1 : batch[0 + j] \in Call(c).from[j]
  BY <1>1, <1>7 DEF Times
<1>13. PagedAt(c, batch, 0, 1, 1)
  BY <1>6, <1>7, <1>11, <1>12 DEF PagedAt, Limits
<1>14. PageAt(c, 0, 1)
  BY <1>5, <1>13, IntervalPage
<1>15. QED
  BY <1>7, <1>14 DEF Pages

LEMMA ClassPages ==
  ASSUME Known, NEW c \in Clients, Call(c) = StreamPatternCharClass(c)[2],
         Holds(<< Account(<< "7", "-", c >>), Account(<< "a", "-", c >>) >>)
  PROVE  Pages(c)
<1> DEFINE digit == Account(<< "7", "-", c >>)
           letter == Account(<< "a", "-", c >>)
           batch == << digit, letter >>
           filter == AccountPattern(<< Class("", {"1", "2", "7"}), Asterisk >>)
<1>1. Len(batch) = 2 /\ batch[1] = digit /\ batch[2] = letter
  OBVIOUS
<1>2. Separate(digit, c) /\ Separate(letter, c)
  BY AccountsAreSeparate
<1>3. AccountName(digit, "7") /\ AccountName(letter, "a")
  BY AccountNames, OtherNames
<1>4. Call(c) = Selects(filter, Unlimited, << {digit} >>)
  BY SecondOfTwo, Zenon DEF StreamPatternCharClass
<1>5. Holds(batch)
  OBVIOUS
<1> HIDE DEF batch, filter, digit, letter
<1>6. Len(log) = 2 /\ \A i \in 1..2 : log[i].stream = batch[i]
  BY <1>1, <1>5 DEF Holds
<1>7. /\ Call(c).filter = filter /\ Call(c).limit = 100
      /\ Call(c).from = << {digit} >>
      /\ Call(c).remember = 0 /\ Call(c).resume = FALSE /\ AfterOf(c) = 0
  BY <1>4 DEF AfterOf, Unlimited
<1>8. Chosen(filter, log[1])
  <2>1. log[1].stream = digit /\ log[1].stream \in Seq(ToSet(log[1].stream))
    BY <1>1, <1>2, <1>6 DEF Separate
  <2>2. digit[1] \in Words /\ digit[2] \in Words
    BY <1>3 DEF Words, AccountName, Starts
  <2>3. Chosen(filter, log[1]) <=>
           /\ 3 <= Len(log[1].stream)
           /\ log[1].stream[1] = "account" /\ log[1].stream[2] = "-"
           /\ log[1].stream[3] \in {"1", "2", "7"}
    BY <2>1, <2>2, DigitsChosen DEF filter
  <2>4. /\ 3 <= Len(digit) /\ digit[1] = "account" /\ digit[2] = "-"
        /\ digit[3] \in {"1", "2", "7"}
    BY <1>3 DEF BeginsWith, AccountName, Starts
  <2>5. QED
    BY <2>1, <2>3, <2>4, Zenon
<1>9. ~Chosen(filter, log[2])
  <2>1. log[2].stream = letter /\ log[2].stream \in Seq(ToSet(log[2].stream))
    BY <1>1, <1>2, <1>6 DEF Separate
  <2>2. letter[1] \in Words /\ letter[2] \in Words
    BY <1>3 DEF Words, AccountName, Starts
  <2>3. Chosen(filter, log[2]) <=>
           /\ 3 <= Len(log[2].stream)
           /\ log[2].stream[1] = "account" /\ log[2].stream[2] = "-"
           /\ log[2].stream[3] \in {"1", "2", "7"}
    BY <2>1, <2>2, DigitsChosen DEF filter
  <2>4. ~(/\ 3 <= Len(letter) /\ letter[1] = "account" /\ letter[2] = "-"
          /\ letter[3] \in {"1", "2", "7"})
    BY <1>3 DEF BeginsWith, AccountName, Starts
  <2>5. QED
    BY <2>1, <2>3, <2>4, Zenon
<1>10. \A i \in 1..2 : Chosen(filter, log[i]) <=> i \in (0 + 1)..(0 + 1)
  <2>1. \A i \in 1..2 : i = 1 \/ i = 2
    OBVIOUS
  <2>2. QED
    BY <2>1, <1>8, <1>9
<1>11. Len(Call(c).from) = 1 /\ \A j \in 1..1 : batch[0 + j] \in Call(c).from[j]
  BY <1>1, <1>7 DEF Times
<1>12. PagedAt(c, batch, 0, 1, 1)
  BY <1>6, <1>7, <1>10, <1>11 DEF PagedAt, Limits
<1>13. PageAt(c, 0, 1)
  BY <1>5, <1>12, IntervalPage
<1>14. QED
  BY <1>7, <1>13 DEF Pages

OrdersOf(c) == [i \in 1..4 |-> Order(<< << "w", "x", "y", "z" >>[i], "-", c >>)]

AccountsOf(c) == << Account(<< "1", "-", c >>), Account(<< "2", "-", c >>) >>

LEMMA OrdersAndAccounts ==
  ASSUME NEW c \in Clients
  PROVE  /\ Len(OrdersOf(c) \o AccountsOf(c)) = 6
         /\ \A i \in 1..4 : /\ Starts((OrdersOf(c) \o AccountsOf(c))[i], "order")
                            /\ Separate((OrdersOf(c) \o AccountsOf(c))[i], c)
         /\ AccountName((OrdersOf(c) \o AccountsOf(c))[5], "1")
         /\ AccountName((OrdersOf(c) \o AccountsOf(c))[6], "2")
         /\ (OrdersOf(c) \o AccountsOf(c))[5] = Account(<< "1", "-", c >>)
         /\ (OrdersOf(c) \o AccountsOf(c))[6] = Account(<< "2", "-", c >>)
<1> DEFINE orders == OrdersOf(c)
           accounts == AccountsOf(c)
           S == ToSet(orders) \cup ToSet(accounts)
           account1 == Account(<< "1", "-", c >>)
           account2 == Account(<< "2", "-", c >>)
<1>1. \A i \in 1..4 : << "w", "x", "y", "z" >>[i] \in {"w", "x", "y", "z"}
  OBVIOUS
<1>2. \A x \in {"w", "x", "y", "z"} :
         Starts(Order(<< x, "-", c >>), "order") /\ Separate(Order(<< x, "-", c >>), c)
  BY OtherNames, AccountsAreSeparate
<1>3. \A i \in 1..4 : Starts(orders[i], "order") /\ Separate(orders[i], c)
  BY <1>1, <1>2 DEF OrdersOf
<1>4. orders \in Seq(S) /\ Len(orders) = 4
  BY DEF OrdersOf, ToSet
<1>5. AccountName(account1, "1") /\ AccountName(account2, "2")
  BY AccountNames
<1> HIDE DEF account1, account2
<1>6. /\ accounts \in Seq(S) /\ Len(accounts) = 2
      /\ accounts[1] = account1 /\ accounts[2] = account2
  <2>1. accounts = << account1, account2 >>
    BY DEF AccountsOf, account1, account2
  <2> HIDE DEF accounts
  <2>2. QED
    BY <2>1 DEF ToSet
<1> HIDE DEF orders, accounts, S
<1>7. Joined(orders \o accounts, orders, accounts, 4, 2)
  BY <1>4, <1>6, ConcatJoins, Zenon
<1> DEFINE all == orders \o accounts
<1>8. Len(all) = 6
  <2>1. \A p, q \in Seq(S) : Len(p \o q) = Len(p) + Len(q)
    OBVIOUS
  <2>2. Len(all) = 4 + 2
    BY <1>4, <1>6, <2>1, Zenon
  <2>3. QED
    BY <2>2
<1> HIDE DEF all
<1>9. (\A i \in 1..4 : all[i] = orders[i]) /\ all[5] = account1 /\ all[6] = account2
  <2>1. Joined(all, orders, accounts, 4, 2)
    BY <1>7 DEF all
  <2>2. 5 = 4 + 1 /\ 6 = 4 + 2 /\ 1 \in 1..2 /\ 2 \in 1..2
    OBVIOUS
  <2>3. QED
    BY <1>6, <2>1, <2>2 DEF Joined
<1>10. /\ Len(all) = 6
       /\ \A i \in 1..4 : Starts(all[i], "order") /\ Separate(all[i], c)
       /\ AccountName(all[5], "1") /\ AccountName(all[6], "2")
       /\ all[5] = account1 /\ all[6] = account2
  BY <1>3, <1>5, <1>8, <1>9
<1>11. QED
  BY <1>10 DEF all, account1, account2, orders, accounts

LEMMA PatternPages ==
  ASSUME Known, NEW c \in Clients, Call(c) = StreamPatternFiltering(c)[2],
         Holds(OrdersOf(c) \o AccountsOf(c))
  PROVE  Pages(c)
<1> DEFINE account1 == Account(<< "1", "-", c >>)
           account2 == Account(<< "2", "-", c >>)
           batch == OrdersOf(c) \o AccountsOf(c)
           filter == AccountPattern(<< Asterisk >>)
<1>1. /\ Len(batch) = 6
      /\ \A i \in 1..4 : Starts(batch[i], "order") /\ Separate(batch[i], c)
      /\ AccountName(batch[5], "1") /\ AccountName(batch[6], "2")
      /\ batch[5] = account1 /\ batch[6] = account2
  BY OrdersAndAccounts
<1>2. Separate(batch[5], c) /\ Separate(batch[6], c)
  <2>1. Separate(account1, c) /\ Separate(account2, c)
    BY AccountsAreSeparate
  <2>2. QED
    BY <1>1, <2>1, Zenon
<1>3. Call(c) = Selects(filter, PageLimit, Times(2, {account1, account2}))
  BY SecondOfTwo, Zenon DEF StreamPatternFiltering
<1>4. Holds(batch)
  OBVIOUS
<1> HIDE DEF batch, filter, account1, account2
<1>5. Len(log) = 6 /\ \A i \in 1..6 : log[i].stream = batch[i]
  BY <1>1, <1>4 DEF Holds
<1>6. /\ Call(c).filter = filter /\ Call(c).limit = 3
      /\ Call(c).from = Times(2, {account1, account2})
      /\ Call(c).remember = 0 /\ Call(c).resume = FALSE /\ AfterOf(c) = 0
  BY <1>3 DEF AfterOf, PageLimit
<1>7. ASSUME NEW i \in 1..6 PROVE Chosen(filter, log[i]) <=> i \in (4 + 1)..(4 + 2)
  <2>1. i \in 1..4 \/ i = 5 \/ i = 6
    OBVIOUS
  <2>2. Separate(batch[i], c)
    BY <1>1, <1>2, <2>1
  <2>3. log[i].stream = batch[i] /\ log[i].stream \in Seq(ToSet(log[i].stream))
    BY <1>5, <2>2 DEF Separate
  <2>4. Chosen(filter, log[i]) <=> BeginsWith(log[i].stream, "account", "-")
    BY <2>3, AccountsChosen DEF filter
  <2>5. BeginsWith(batch[i], "account", "-") <=> i \in (4 + 1)..(4 + 2)
    <3>1. CASE i \in 1..4
      BY <1>1, <3>1 DEF BeginsWith, Starts
    <3>2. CASE i = 5
      BY <1>1, <3>2 DEF BeginsWith, AccountName
    <3>3. CASE i = 6
      BY <1>1, <3>3 DEF BeginsWith, AccountName
    <3>4. QED
      BY <2>1, <3>1, <3>2, <3>3
  <2>6. QED
    BY <2>3, <2>4, <2>5, Zenon
<1>8. Len(Call(c).from) = 2 /\ \A j \in 1..2 : batch[4 + j] \in Call(c).from[j]
  BY <1>1, <1>6 DEF Times
<1>9. PagedAt(c, batch, 4, 2, 2)
  BY <1>5, <1>6, <1>7, <1>8 DEF PagedAt, Limits
<1>10. PageAt(c, 4, 2)
  BY <1>4, <1>9, IntervalPage
<1>11. QED
  BY <1>6, <1>10 DEF Pages

(***************************************************************************)
(* stream_pattern_single_char runs beside other tests: its pattern ends in *)
(* its own run, so no row of another test is selected.                     *)
(***************************************************************************)
SingleCharBatch(c) ==
  << Account(<< "x", c >>), Account(<< "x", "y", c >>), Order(<< "z", c >>) >>

SelectedFirst(c, p) ==
  /\ p \in 1..Len(log)
  /\ log[p].stream = Account(<< "x", c >>)
  /\ \A i \in 1..Len(log) :
        Chosen(AccountPattern(<< QuestionMark, Literal(c) >>), log[i]) <=> i = p

LEMMA SingleCharSelection ==
  ASSUME Known, NEW c \in Clients, NEW R, log \in Seq(R), Mirrors(log, c, SingleCharBatch(c)),
         \A i \in 1..Len(log) : log[i].stream \in Seq(ToSet(log[i].stream))
  PROVE  \E p : SelectedFirst(c, p)
<1> DEFINE own == Owned(log, c)
           batch == SingleCharBatch(c)
           name1 == Account(<< "x", c >>)
           name2 == Account(<< "x", "y", c >>)
           name3 == Order(<< "z", c >>)
           filter == AccountPattern(<< QuestionMark, Literal(c) >>)
           N == Len(log)
<1>1. Len(batch) = 3 /\ batch[1] = name1 /\ batch[2] = name2 /\ batch[3] = name3
  BY DEF SingleCharBatch
<1>2. /\ Len(name1) = 4 /\ name1[1] = "account" /\ name1[2] = "-" /\ name1[3] = "x" /\ name1[4] = c
      /\ Len(name2) = 5 /\ name3[1] = "order"
  BY DEF Account, Order
<1> HIDE DEF batch, name1, name2, name3
<1>3. N \in Nat /\ DOMAIN log = 1..N /\ Within(own, N)
  BY DEF Within, Owned
<1>4. Cardinality(own) = 3 /\ \A i \in own : log[i].stream = batch[Rank(own, i)]
  BY <1>1 DEF Mirrors, batch
<1> HIDE DEF own
<1>5. \A i \in own : Rank(own, i) \in 1..3
  <2>1. \A i \in own : Rank(own, i) \in 1..Cardinality(own)
    <3> HIDE DEF N
    <3>1. QED
      BY <1>3, RanksOfPositions
  <2>2. QED
    BY <1>4, <2>1
<1>6. PICK p \in own : Rank(own, p) = 1
  <2>1. 1 \in 1..Cardinality(own)
    BY <1>4
  <2>2. \A k \in 1..Cardinality(own) : \E i \in own : Rank(own, i) = k
    <3> HIDE DEF N
    <3>1. QED
      BY <1>3, RanksOfPositions
  <2>3. QED
    BY <2>1, <2>2
<1>7. \A i \in own : Rank(own, i) = 1 => i = p
  <2>1. \A i, j \in own : Rank(own, i) = Rank(own, j) => i = j
    <3> HIDE DEF N
    <3>1. QED
      BY <1>3, RanksOfPositions
  <2>2. QED
    BY <1>6, <2>1
<1>8. \A i \in own : \/ i = p /\ log[i].stream = name1
                     \/ i # p /\ log[i].stream = name2
                     \/ i # p /\ log[i].stream = name3
  BY <1>1, <1>4, <1>5, <1>6, <1>7
<1>9. ASSUME NEW i \in 1..N PROVE Chosen(filter, log[i]) <=> i = p
  <2> DEFINE name == log[i].stream
  <2>1. Chosen(filter, log[i])
          <=> /\ Len(name) = 4 /\ name[1] = "account" /\ name[2] = "-"
              /\ name[3] \in Characters /\ name[4] = c
    <3> DEFINE row == log[i]
    <3>1. row.stream \in Seq(ToSet(row.stream))
      OBVIOUS
    <3> HIDE DEF row
    <3>2. Chosen(filter, row)
            <=> /\ Len(row.stream) = 4 /\ row.stream[1] = "account" /\ row.stream[2] = "-"
                /\ row.stream[3] \in Characters /\ row.stream[4] = c
      BY <3>1, SingleCharChosen
    <3>3. QED
      BY <3>2 DEF row
  <2> HIDE DEF filter
  <2>2. CASE i \in own
    <3>1. "x" \in Characters
      BY CharactersAssumption
    <3>2. i = p => name = name1
      BY <1>2, <1>8, <2>2
    <3>3. i # p => name = name2 \/ name = name3
      BY <1>8, <2>2
    <3> HIDE DEF name
    <3>4. CASE i = p
      BY <1>2, <2>1, <3>1, <3>2, <3>4, Zenon
    <3>5. CASE i # p
      <4>1. Len(name) # 4 \/ name[1] # "account"
        <5>1. Len(name) = 5 \/ name[1] = "order"
          BY <1>2, <3>3, <3>5, Zenon
        <5>2. 5 # 4 /\ "order" # "account"
          OBVIOUS
        <5>3. QED
          BY <5>1, <5>2, Zenon
      <4>2. QED
        BY <2>1, <3>5, <4>1, Zenon
    <3>6. QED
      BY <3>4, <3>5
  <2>3. CASE i \notin own
    <3>1. c \notin ToSet(name)
      BY <1>3, <2>3 DEF own, Owned
    <3>2. Len(name) = 4 => name[4] \in ToSet(name)
      <4>1. name \in Seq(ToSet(name))
        OBVIOUS
      <4>2. ASSUME NEW S, NEW s \in Seq(S), Len(s) = 4 PROVE s[4] \in ToSet(s)
        <5>1. 4 \in DOMAIN s
          BY <4>2
        <5>2. QED
          BY <5>1 DEF ToSet
      <4> HIDE DEF name
      <4>3. QED
        BY <4>1, <4>2
    <3> HIDE DEF name
    <3>3. QED
      BY <1>6, <2>1, <2>3, <3>1, <3>2, Zenon
  <2>4. QED
    BY <2>2, <2>3
<1>10. p \in 1..N /\ log[p].stream = name1
  BY <1>3, <1>6, <1>8 DEF Within
<1>11. SelectedFirst(c, p)
  BY <1>9, <1>10 DEF SelectedFirst, name1
<1>12. QED
  BY <1>11

LEMMA SingleCharPages ==
  ASSUME Known, NEW c \in Clients, Call(c) = StreamPatternSingleChar(c)[2],
         NEW R, log \in Seq(R), \A i \in 1..Len(log) : log[i].type = ContractTestEvent,
         Mirrors(log, c, SingleCharBatch(c)),
         \A i \in 1..Len(log) : log[i].stream \in Seq(ToSet(log[i].stream))
  PROVE  Pages(c)
<1> DEFINE filter == AccountPattern(<< QuestionMark, Literal(c) >>)
           name1 == Account(<< "x", c >>)
           N == Len(log)
<1>1. PICK p : SelectedFirst(c, p)
  BY SingleCharSelection
<1>2. Call(c) = Selects(filter, Unlimited, << {name1} >>)
  BY SecondOfTwo, Zenon DEF StreamPatternSingleChar
<1>3. /\ p \in 1..N /\ log[p].stream = name1
      /\ \A i \in 1..N : Chosen(filter, log[i]) <=> i = p
  BY <1>1 DEF SelectedFirst
<1> HIDE DEF filter, name1
<1>4. /\ Call(c).filter = filter /\ Call(c).limit = 100
      /\ Call(c).from = << {name1} >>
      /\ Call(c).remember = 0 /\ Call(c).resume = FALSE /\ AfterOf(c) = 0
  BY <1>2 DEF AfterOf, Unlimited
<1>5. Positions(filter, 0) = {p}
  BY <1>3 DEF Positions
<1>6. \A i \in {p} : {j \in {p} : j <= i} = {p}
  BY <1>3
<1>7. Cardinality({p}) = 1
  BY FS_Singleton
<1>8. \A i \in {p} : Cardinality({j \in {p} : j <= i}) = 1
  BY <1>6, <1>7
<1>9. FirstOf(100, {p}) = {p}
  <2>1. \A i \in {p} : Cardinality({j \in {p} : j <= i}) <= 100
    BY <1>8
  <2>2. QED
    BY <2>1, Zenon DEF FirstOf
<1>10. PageOf(c) = {p}
  BY <1>4, <1>5, <1>9, Zenon DEF PageOf, Page
<1>11. \A j \in 1..1 : j = 1
  OBVIOUS
<1>12. Nth({p}, 1) = p
  <2>1. \E i \in {p} : Cardinality({j \in {p} : j <= i}) = 1
    BY <1>8
  <2>2. QED
    BY <2>1, Zenon DEF Nth
<1>13. EventsAreExpected(c, {p})
  <2>1. Len(Call(c).from) = 1 /\ Call(c).from[1] = {name1}
    BY <1>4
  <2>2. \A k \in 1..Len(Call(c).from) : log[Nth({p}, k)].stream \in Call(c).from[k]
    BY <1>3, <1>11, <1>12, <2>1
  <2>3. QED
    BY <1>4, <1>7, <2>1, <2>2 DEF EventsAreExpected
<1>14. PageAt(c, p - 1, 1)
  <2>1. p - 1 + 1 = p
    BY <1>3
  <2>2. \A j \in 1..1 : Nth({p}, j) = p - 1 + j
    BY <1>11, <1>12, <2>1
  <2>3. QED
    BY <1>7, <1>10, <1>13, <2>2 DEF PageAt
<1>15. QED
  BY <1>4, <1>14 DEF Pages

HIDE DEF Appends, AppendTo, At, AtBoth, AtZero, ReadsAfter, Reads, ReadsMismatched, ReadsEvents,
         Selects, SavesSnapshot, LoadsSnapshot, SavesCheckpoint, LoadsCheckpoint, Acquires, Drops

-------------------------------------------------------------------------------
(***************************************************************************)
(* What a running test may count on, beside the log: the checkpoints and   *)
(* leaderships of its own subscriptions and its own snapshot are those its *)
(* script has left, and the rows under way in an open stream are those of  *)
(* the stream that were not yet received.                                  *)
(***************************************************************************)
NamesIn(sc) ==
  {sc[i].name : i \in {j \in 1..Len(sc) :
                         sc[j].op \in {"saveCheckpoint", "loadCheckpoint", "acquire", "drop"}}}

Scripted(c) ==
  \/ test[c] = "none" /\ script[c] = << >>
  \/ test[c] \in DOMAIN SuiteFor(c) /\ script[c] = SuiteFor(c)[test[c]]

CheckpointOf(name) == IF name \in DOMAIN checkpoints THEN checkpoints[name] ELSE 0

Checkpointed(c) ==
  \A name \in NamesIn(script[c]) : Told(script[c], step[c] - 1, name, CheckpointOf(name))

Led(c) ==
  \A name \in NamesIn(script[c]) : name \in locks <=> HeldAfter(script[c], step[c] - 1, name)

SavesFirst(sc, j) ==
  /\ sc[j].op = "saveSnapshot"
  /\ \A i \in 1..(j - 1) : sc[i].op # "saveSnapshot"

Snapshotted(c) ==
  \/ c \notin DOMAIN snapshots /\ \A i \in 1..(step[c] - 1) : script[c][i].op # "saveSnapshot"
  \/ c \in DOMAIN snapshots /\ \E j \in 1..(step[c] - 1) :
        SavesFirst(script[c], j) /\ script[c][j].snapshot = snapshots[c]

Marked(c) == test[c] = "position_based_resumption" /\ step[c] = 3 => mark[c] = 3

Remembers(c) == Checkpointed(c) /\ Led(c) /\ Snapshotted(c) /\ Marked(c)

RowOf(s) == [stream : {s}, version : Nat, type : {ContractTestEvent}]

\* received, sent and to be sent: all of the stream, unless a row fails
Fetching(c) ==
  LET s == Call(c).stream
  IN /\ rows[c] \in Seq(RowOf(s))
     /\ received[c] \in Seq(RowOf(s))
     /\ received[c] # << >> => Call(c).type = ContractTestEvent
     /\ channel[c] \in Seq(RowOf(s) \cup {FailedRow})
     /\ \/ \E i \in DOMAIN channel[c] : channel[c][i] = FailedRow
        \/ Len(received[c]) + Len(channel[c]) + Len(rows[c])
             = Count(Accumulated(script[c], step[c] - 1), s) - Call(c).after

Fetched(c) ==
  /\ task[c] \in {"holding", "inserting"} => conn = c
  /\ task[c] \in {"waiting", "holding"} => received[c] = << >>
  /\ verdict[c] = "running" =>
        /\ task[c] # "sending" => channel[c] = << >>
        /\ task[c] = "sending" => Fetching(c)
        /\ task[c] = "sending" /\ conn # c => rows[c] = << >>

Consistent ==
  /\ Known
  /\ Isolated(test)
  /\ DOMAIN mark = Clients /\ DOMAIN channel = Clients /\ DOMAIN received = Clients
  /\ \A c \in Clients : /\ Scripted(c) /\ Fetched(c)
                        /\ verdict[c] # "assertion"
                        /\ verdict[c] = "running" => Remembers(c)

(***************************************************************************)
(* A step of one client concerns no other: it changes nothing of theirs,   *)
(* takes the connection only when it is free, and touches the store's data *)
(* at its own names.                                                       *)
(***************************************************************************)
Alone(c) ==
  /\ backend' = backend /\ test' = test /\ script' = script
  /\ DOMAIN mark' = Clients /\ DOMAIN channel' = Clients /\ DOMAIN received' = Clients
  /\ \A d \in Clients \ {c} :
        /\ step'[d] = step[d] /\ verdict'[d] = verdict[d] /\ mark'[d] = mark[d]
        /\ task'[d] = task[d] /\ rows'[d] = rows[d]
        /\ channel'[d] = channel[d] /\ received'[d] = received[d]
  /\ \/ conn' = conn
     \/ conn = None /\ conn' = c
     \/ conn = c /\ conn' = None

\* what a call does to the store's data
Does(c) ==
  /\ snapshots' = IF Call(c).op = "saveSnapshot"
                  THEN Kept(Call(c).id, Call(c).snapshot) ELSE snapshots
  /\ checkpoints' = IF Call(c).op = "saveCheckpoint"
                    THEN Put(checkpoints, Call(c).name, Call(c).position) ELSE checkpoints
  /\ locks' = IF Call(c).op = "acquire" THEN locks \cup {Call(c).name}
              ELSE IF Call(c).op = "drop" THEN locks \ {Call(c).name} ELSE locks
  /\ Marked(c)'

Resting(c) ==
  /\ step' = step /\ verdict' = verdict
  /\ mark' = mark /\ snapshots' = snapshots /\ checkpoints' = checkpoints
  /\ \/ locks' = locks
     \/ verdict[c] # "running" /\ locks' = locks \ GuardsOf(c)

Breaking(c) ==
  /\ verdict[c] = "running"
  /\ step' = step /\ verdict' = [verdict EXCEPT ![c] = "store_error"]
  /\ snapshots' = snapshots /\ checkpoints' = checkpoints /\ locks' = locks

Advancing(c) == verdict[c] = "running" /\ Passes(c) /\ Does(c)

LEMMA RunningTest ==
  ASSUME Inv, NEW c \in Clients, Scripted(c), verdict[c] = "running"
  PROVE  /\ test[c] \in DOMAIN SuiteFor(c)
         /\ script[c] = SuiteFor(c)[test[c]]
         /\ RightlyKept(script[c], c) \/ RightlyStored(script[c], c)
<1>1. script[c] # << >>
  <2>1. Len(script[c]) \in Nat \ {0}
    BY RunningScript DEF Inv, WellScripted, IsScript
  <2>2. QED
    BY <2>1
<1>2. test[c] \in DOMAIN SuiteFor(c) /\ script[c] = SuiteFor(c)[test[c]]
  BY <1>1 DEF Scripted
<1>3. QED
  BY <1>2, SuiteIsRight

LEMMA OwnNames ==
  ASSUME NEW c, NEW sc, RightlyKept(sc, c) \/ RightlyStored(sc, c)
  PROVE  \A name \in NamesIn(sc) : name[2] = c
BY DEF RightlyKept, RightlyStored, StoreOps, DataRight, CheckpointsRight, CoordinationRight, NamesIn

LEMMA RightCall ==
  ASSUME Inv, NEW c \in Clients, Scripted(c), verdict[c] = "running"
  PROVE  /\ Call(c).op \notin StoreOps => DataRight(script[c], step[c], c)
         /\ Call(c).op = "readStream" => ReadRight(script[c], step[c], c)
<1>1. step[c] \in 1..Len(script[c])
  BY RunningScript DEF Inv
<1>2. RightlyKept(script[c], c) \/ RightlyStored(script[c], c)
  BY RunningTest
<1>3. QED
  BY <1>1, <1>2 DEF RightlyKept, RightlyStored, StoreOps, Call

\* the data changes at the names of the client only
LEMMA DataIsOwn ==
  ASSUME Inv, NEW c \in Clients, Scripted(c), Resting(c) \/ Breaking(c) \/ Advancing(c)
  PROVE  /\ \A name : name[2] # c => /\ name \in locks' <=> name \in locks
                                     /\ CheckpointOf(name)' = CheckpointOf(name)
         /\ \A d \in Clients \ {c} : /\ d \in DOMAIN snapshots' <=> d \in DOMAIN snapshots
                                     /\ d \in DOMAIN snapshots => snapshots'[d] = snapshots[d]
<1>1. CASE Resting(c)
  BY <1>1 DEF Resting, GuardsOf, CheckpointOf
<1>2. CASE Breaking(c)
  BY <1>2 DEF Breaking, CheckpointOf
<1>3. CASE Advancing(c)
  <2>1. verdict[c] = "running" /\ Does(c)
    BY <1>3 DEF Advancing
  <2>2. /\ Call(c).op \in {"saveCheckpoint", "acquire", "drop"} => Call(c).name[2] = c
        /\ Call(c).op = "saveSnapshot" => Call(c).id = c
    BY <2>1, RightCall DEF DataRight, SnapshotsRight, CheckpointsRight, CoordinationRight, StoreOps,
                           Call
  <2>3. \A name : name[2] # c => (name \in locks' <=> name \in locks)
    BY <2>1, <2>2 DEF Does
  <2>4. ASSUME NEW name, name[2] # c PROVE CheckpointOf(name)' = CheckpointOf(name)
    BY <2>1, <2>2, <2>4 DEF Does, Put, CheckpointOf
  <2>5. ASSUME NEW d \in Clients \ {c}
        PROVE  /\ d \in DOMAIN snapshots' <=> d \in DOMAIN snapshots
               /\ d \in DOMAIN snapshots => snapshots'[d] = snapshots[d]
    BY <2>1, <2>2 DEF Does, Kept, Put
  <2>6. QED
    BY <2>3, <2>4, <2>5
<1>4. QED
  BY <1>1, <1>2, <1>3

LEMMA OthersRemember ==
  ASSUME Inv, Consistent, NEW c \in Clients, Alone(c),
         Resting(c) \/ Breaking(c) \/ Advancing(c), NEW d \in Clients \ {c}
  PROVE  /\ Scripted(d)' /\ Fetched(d)' /\ (verdict[d] # "assertion")'
         /\ (verdict[d] = "running" => Remembers(d))'
<1>1. /\ test' = test /\ script' = script
      /\ step'[d] = step[d] /\ verdict'[d] = verdict[d] /\ mark'[d] = mark[d]
      /\ task'[d] = task[d] /\ rows'[d] = rows[d]
      /\ channel'[d] = channel[d] /\ received'[d] = received[d]
      /\ conn = d => conn' = d
      /\ conn' # d => conn # d
  BY NoneAssumption DEF Alone
<1>2. /\ Scripted(d) /\ Fetched(d) /\ verdict[d] # "assertion"
      /\ verdict[d] = "running" => Remembers(d)
  BY DEF Consistent
<1>3. Scripted(d)'
  BY <1>1, <1>2 DEF Scripted
<1>4. Call(d)' = Call(d)
  BY <1>1 DEF Call
<1>5. Fetching(d) => Fetching(d)'
  BY <1>1, <1>4 DEF Fetching, RowOf, FailedRow
<1>6. Fetched(d)'
  BY <1>1, <1>2, <1>5 DEF Fetched
<1>7. ASSUME verdict[d] = "running" PROVE Remembers(d)'
  <2>1. \A name \in NamesIn(script[d]) : name[2] # c
    <3>1. \A name \in NamesIn(script[d]) : name[2] = d
      BY <1>2, <1>7, RunningTest, OwnNames
    <3>2. QED
      BY <3>1
  <2>2. Scripted(c)
    BY DEF Consistent
  <2>3. Checkpointed(d)' /\ Led(d)'
    <3>1. \A name \in NamesIn(script[d]) : /\ name \in locks' <=> name \in locks
                                          /\ CheckpointOf(name)' = CheckpointOf(name)
      BY <2>1, <2>2, DataIsOwn
    <3>2. Checkpointed(d) /\ Led(d)
      BY <1>2, <1>7 DEF Remembers
    <3>3. Checkpointed(d)'
      BY <1>1, <3>1, <3>2 DEF Checkpointed
    <3>4. Led(d)'
      BY <1>1, <3>1, <3>2 DEF Led
    <3>5. QED
      BY <3>3, <3>4
  <2>4. Snapshotted(d)'
    <3>1. /\ d \in DOMAIN snapshots' <=> d \in DOMAIN snapshots
          /\ d \in DOMAIN snapshots => snapshots'[d] = snapshots[d]
      BY <2>2, DataIsOwn
    <3>2. QED
      BY <1>1, <1>2, <1>7, <3>1 DEF Remembers, Snapshotted
  <2>5. Marked(d)'
    BY <1>1, <1>2, <1>7 DEF Remembers, Marked
  <2>6. QED
    BY <2>3, <2>4, <2>5 DEF Remembers
<1>8. QED
  BY <1>1, <1>2, <1>3, <1>6, <1>7

(***************************************************************************)
(* What one more answered call adds to what a test may count on.           *)
(***************************************************************************)
LEMMA ToldGoesOn ==
  ASSUME NEW sc, NEW k \in Nat, k # 0, NEW name, NEW position
  PROVE  /\ SavesAt(sc, k, name) => Told(sc, k, name, sc[k].position)
         /\ ~SavesAt(sc, k, name) /\ Told(sc, k - 1, name, position) => Told(sc, k, name, position)
<1>1. SavesAt(sc, k, name) => Told(sc, k, name, sc[k].position)
  <2>1. k \in 1..k /\ (k + 1)..k = {}
    OBVIOUS
  <2>2. QED
    BY <2>1 DEF Told
<1>2. ASSUME ~SavesAt(sc, k, name), Told(sc, k - 1, name, position)
      PROVE  Told(sc, k, name, position)
  <2>1. \A i \in 1..k : i \in 1..(k - 1) \/ i = k
    OBVIOUS
  <2>2. CASE position = 0 /\ \A i \in 1..(k - 1) : ~SavesAt(sc, i, name)
    BY <1>2, <2>1, <2>2 DEF Told
  <2>3. ASSUME NEW j \in 1..(k - 1), SavesAt(sc, j, name), sc[j].position = position,
               \A i \in (j + 1)..(k - 1) : ~SavesAt(sc, i, name)
        PROVE  Told(sc, k, name, position)
    <3>1. j \in 1..k /\ \A i \in (j + 1)..k : i \in (j + 1)..(k - 1) \/ i = k
      OBVIOUS
    <3>2. QED
      BY <1>2, <2>3, <3>1 DEF Told
  <2>4. QED
    BY <1>2, <2>2, <2>3 DEF Told
<1>3. QED
  BY <1>1, <1>2

\* two accounts of what was saved last are the same
LEMMA ToldOnce ==
  ASSUME NEW sc, NEW k \in Nat, NEW name, NEW p, NEW q, Told(sc, k, name, p), Told(sc, k, name, q)
  PROVE  p = q
<1>1. ASSUME NEW i \in 1..k, NEW j \in 1..k, SavesAt(sc, i, name), SavesAt(sc, j, name),
             \A l \in (i + 1)..k : ~SavesAt(sc, l, name),
             \A l \in (j + 1)..k : ~SavesAt(sc, l, name)
      PROVE  i = j
  <2>1. i < j => j \in (i + 1)..k
    OBVIOUS
  <2>2. j < i => i \in (j + 1)..k
    OBVIOUS
  <2>3. QED
    BY <1>1, <2>1, <2>2
<1>2. QED
  BY <1>1 DEF Told

HoldsBy(sc, i, name) == sc[i].op = "acquire" /\ sc[i].name = name
GivesUp(sc, i, name) == sc[i].op = "drop" /\ sc[i].name = name

LEMMA HeldGoesOn ==
  ASSUME NEW sc, NEW k \in Nat, k # 0, NEW name
  PROVE  HeldAfter(sc, k, name) <=>
            \/ HoldsBy(sc, k, name)
            \/ ~GivesUp(sc, k, name) /\ HeldAfter(sc, k - 1, name)
<1>1. /\ k \in 1..k /\ (k + 1)..k = {}
      /\ \A j \in 1..(k - 1) : /\ j \in 1..k
                               /\ k \in (j + 1)..k
                               /\ \A i \in (j + 1)..k : i \in (j + 1)..(k - 1) \/ i = k
                               /\ \A i \in (j + 1)..(k - 1) : i \in (j + 1)..k
      /\ \A j \in 1..k : j \in 1..(k - 1) \/ j = k
  OBVIOUS
<1>2. HoldsBy(sc, k, name) => HeldAfter(sc, k, name)
  BY <1>1 DEF HeldAfter, HoldsBy
<1>3. ASSUME ~GivesUp(sc, k, name), HeldAfter(sc, k - 1, name) PROVE HeldAfter(sc, k, name)
  BY <1>1, <1>3 DEF HeldAfter, GivesUp
<1>4. ASSUME HeldAfter(sc, k, name), ~HoldsBy(sc, k, name)
      PROVE  ~GivesUp(sc, k, name) /\ HeldAfter(sc, k - 1, name)
  <2>1. PICK j \in 1..k : /\ sc[j].op = "acquire" /\ sc[j].name = name
                          /\ \A i \in (j + 1)..k : ~(sc[i].op = "drop" /\ sc[i].name = name)
    BY <1>4 DEF HeldAfter
  <2>2. j \in 1..(k - 1)
    BY <1>1, <1>4, <2>1 DEF HoldsBy
  <2>3. QED
    BY <1>1, <2>1, <2>2 DEF HeldAfter, GivesUp
<1>5. QED
  BY <1>2, <1>3, <1>4

LEMMA SavesFirstOnce ==
  ASSUME NEW sc, NEW k \in Nat, NEW i \in 1..k, NEW j \in 1..k, SavesFirst(sc, i), SavesFirst(sc, j)
  PROVE  i = j
<1>1. i < j => i \in 1..(j - 1)
  OBVIOUS
<1>2. j < i => j \in 1..(i - 1)
  OBVIOUS
<1>3. QED
  BY <1>1, <1>2 DEF SavesFirst

\* where the client is after an answered call
LEMMA Onward ==
  ASSUME Inv, NEW c \in Clients, verdict[c] = "running", Passes(c), (verdict[c] = "running")'
  PROVE  /\ step'[c] - 1 = step[c]
         /\ step[c] \in Nat /\ step[c] # 0
         /\ step[c] \in 1..Len(script[c])
<1>1. step[c] \in 1..Len(script[c]) /\ Len(script[c]) \in Nat
  BY RunningScript DEF Inv
<1>2. step'[c] = step[c] + 1
  BY DEF Passes, Inv, Logged
<1>3. QED
  BY <1>1, <1>2

LEMMA AdvancingRemembers ==
  ASSUME Inv, Consistent, NEW c \in Clients, Alone(c), Advancing(c), (verdict[c] = "running")'
  PROVE  Remembers(c)'
<1> DEFINE sc == script[c]
           k == step[c]
<1>1. verdict[c] = "running" /\ Does(c) /\ Remembers(c) /\ Scripted(c)
  BY DEF Advancing, Consistent
<1>2. step'[c] - 1 = k /\ k \in Nat /\ k # 0 /\ k \in 1..Len(sc)
  BY Onward DEF Advancing
<1>3. script' = script /\ Call(c) = sc[k]
  BY DEF Alone, Call
<1>4. Call(c).op \notin StoreOps => DataRight(sc, k, c)
  BY <1>1, RightCall
<1> HIDE DEF sc, k
<1>5. Checkpointed(c)'
  <2>1. ASSUME NEW name \in NamesIn(sc) PROVE Told(sc, k, name, CheckpointOf(name)')
    <3>1. Told(sc, k - 1, name, CheckpointOf(name))
      BY <1>1 DEF Remembers, Checkpointed, sc, k
    <3>2. CASE SavesAt(sc, k, name)
      <4>1. checkpoints' = Put(checkpoints, name, sc[k].position)
        BY <1>1, <1>3, <3>2 DEF Does, SavesAt
      <4>2. CheckpointOf(name)' = sc[k].position
        BY <4>1 DEF CheckpointOf, Put
      <4>3. QED
        BY <1>2, <3>2, <4>2, ToldGoesOn, Zenon
    <3>3. CASE ~SavesAt(sc, k, name)
      <4>1. CheckpointOf(name)' = CheckpointOf(name)
        BY <1>1, <1>3, <3>3 DEF Does, SavesAt, CheckpointOf, Put
      <4>2. QED
        BY <1>2, <3>1, <3>3, <4>1, ToldGoesOn, Zenon
    <3>4. QED
      BY <3>2, <3>3
  <2>2. QED
    BY <1>2, <1>3, <2>1 DEF Checkpointed, sc
<1>6. Led(c)'
  <2>1. ASSUME NEW name \in NamesIn(sc) PROVE name \in locks' <=> HeldAfter(sc, k, name)
    <3>1. name \in locks <=> HeldAfter(sc, k - 1, name)
      BY <1>1 DEF Remembers, Led, sc, k
    <3>2. name \in locks' <=> HoldsBy(sc, k, name) \/ (~GivesUp(sc, k, name) /\ name \in locks)
      BY <1>1, <1>3 DEF Does, HoldsBy, GivesUp
    <3>3. QED
      BY <1>2, <3>1, <3>2, HeldGoesOn, Zenon
  <2>2. QED
    BY <1>2, <1>3, <2>1 DEF Led, sc
<1>7. Snapshotted(c)'
  <2>1. Snapshotted(c)
    BY <1>1 DEF Remembers
  <2>2. /\ \A i \in 1..k : i \in 1..(k - 1) \/ i = k
        /\ k \in 1..k /\ \A i \in 1..(k - 1) : i \in 1..k
    BY <1>2
  <2>3. CASE sc[k].op # "saveSnapshot"
    <3>1. snapshots' = snapshots
      BY <1>1, <1>3, <2>3 DEF Does
    <3>2. QED
      BY <1>2, <1>3, <2>1, <2>2, <2>3, <3>1 DEF Snapshotted, sc, k
  <2>4. CASE sc[k].op = "saveSnapshot"
    <3>1. /\ sc[k].id = c
          /\ \A j \in 1..(k - 1) :
                sc[j].op = "saveSnapshot" => ~Covers(sc[k].snapshot, sc[j].snapshot)
          /\ snapshots' = Kept(c, sc[k].snapshot)
      BY <1>1, <1>3, <1>4, <2>4 DEF StoreOps, DataRight, SnapshotsRight, Does
    <3>2. CASE c \notin DOMAIN snapshots /\ \A i \in 1..(k - 1) : sc[i].op # "saveSnapshot"
      <4>1. c \in DOMAIN snapshots' /\ snapshots'[c] = sc[k].snapshot
        BY <3>1, <3>2 DEF Kept, Put
      <4>2. SavesFirst(sc, k)
        BY <2>4, <3>2 DEF SavesFirst
      <4>3. QED
        BY <1>2, <1>3, <2>2, <4>1, <4>2 DEF Snapshotted, sc
    <3>3. CASE /\ c \in DOMAIN snapshots
               /\ \E j \in 1..(k - 1) : SavesFirst(sc, j) /\ sc[j].snapshot = snapshots[c]
      <4>1. PICK j \in 1..(k - 1) : SavesFirst(sc, j) /\ sc[j].snapshot = snapshots[c]
        BY <3>3
      <4>2. snapshots' = snapshots
        BY <3>1, <3>3, <4>1 DEF Kept, SavesFirst
      <4>3. QED
        BY <1>2, <1>3, <2>2, <3>3, <4>1, <4>2 DEF Snapshotted, sc
    <3>4. QED
      BY <2>1, <3>2, <3>3 DEF Snapshotted, sc, k
  <2>5. QED
    BY <2>3, <2>4
<1>8. QED
  BY <1>1, <1>5, <1>6, <1>7 DEF Remembers, Does

LEMMA StepKeepsConsistent ==
  ASSUME Inv, Consistent, NEW c \in Clients, Alone(c), Fetched(c)',
         Resting(c) \/ Breaking(c) \/ Advancing(c)
  PROVE  Consistent'
<1>1. Scripted(c)'
  BY DEF Consistent, Scripted, Alone
<1>2. (verdict[c] # "assertion")'
  BY DEF Consistent, Resting, Breaking, Advancing, Passes, Inv, Logged
<1>3. ASSUME (verdict[c] = "running")' PROVE Remembers(c)'
  <2>1. CASE Resting(c)
    <3>1. Remembers(c) /\ verdict[c] = "running"
      BY <1>3, <2>1 DEF Resting, Consistent
    <3>2. /\ script' = script /\ step' = step /\ test' = test /\ mark' = mark
          /\ snapshots' = snapshots /\ checkpoints' = checkpoints /\ locks' = locks
      BY <2>1, <3>1 DEF Resting, Alone
    <3>3. Checkpointed(c)' /\ Led(c)' /\ Snapshotted(c)' /\ Marked(c)'
      BY <3>1, <3>2 DEF Remembers, Checkpointed, CheckpointOf, Led, Snapshotted, Marked
    <3>4. QED
      BY <3>3 DEF Remembers
  <2>2. CASE Breaking(c)
    BY <1>3, <2>2 DEF Breaking, Inv, Logged
  <2>3. CASE Advancing(c)
    BY <1>3, <2>3, AdvancingRemembers
  <2>4. QED
    BY <2>1, <2>2, <2>3
<1>4. \A d \in Clients : /\ Scripted(d)' /\ Fetched(d)' /\ (verdict[d] # "assertion")'
                         /\ (verdict[d] = "running" => Remembers(d))'
  BY <1>1, <1>2, <1>3, OthersRemember
<1>5. Known' /\ Isolated(test)'
  BY DEF Consistent, Alone, Known, Isolated
<1>6. QED
  BY <1>4, <1>5 DEF Consistent, Alone

-------------------------------------------------------------------------------
(***************************************************************************)
(* The calls that are answered at once, or by a task with the connection.  *)
(***************************************************************************)
\* the task of a call that can be answered has no stream open
LEMMA ExecutesAlone ==
  ASSUME Inv, Consistent, NEW c \in Clients, NEW op, Executes(c, op)
  PROVE  /\ verdict[c] = "running" /\ Call(c).op = op
         /\ task[c] # "sending" /\ channel[c] = << >>
         /\ Scripted(c) /\ Remembers(c)
<1>1. verdict[c] = "running" /\ Call(c).op = op
  BY DEF Executes, Running
<1>2. task[c] # "sending"
  BY DEF Executes, Inv, Tasks, Tasked
<1>3. QED
  BY <1>1, <1>2 DEF Consistent, Fetched

LEMMA PassesElsewhere ==
  ASSUME Inv, NEW c \in Clients, Passes(c)
  PROVE  \A d \in Clients \ {c} : step'[d] = step[d] /\ verdict'[d] = verdict[d]
BY PassesLeavesOthers DEF Inv

LEMMA ReturnsAlone ==
  ASSUME Inv, Consistent, NEW c \in Clients, NEW op, Executes(c, op), Returns(c), Passes(c),
         DOMAIN mark' = Clients, \A d \in Clients \ {c} : mark'[d] = mark[d]
  PROVE  Alone(c) /\ Fetched(c)'
<1>1. /\ backend' = backend /\ test' = test /\ script' = script
      /\ rows' = rows /\ channel' = channel /\ received' = received
      /\ conn' = IF conn = c THEN None ELSE conn
      /\ task' = [task EXCEPT ![c] = "none"]
  BY DEF Returns, ReleaseConnection, fixed
<1>2. task'[c] = "none" /\ \A d \in Clients \ {c} : task'[d] = task[d]
  BY <1>1 DEF Inv, Tasks
<1>3. DOMAIN channel = Clients /\ DOMAIN received = Clients
  BY DEF Consistent
<1>4. \A d \in Clients \ {c} : step'[d] = step[d] /\ verdict'[d] = verdict[d]
  BY PassesElsewhere
<1>5. Alone(c)
  BY <1>1, <1>2, <1>3, <1>4 DEF Alone
<1>6. Fetched(c)'
  BY <1>1, <1>2, ExecutesAlone DEF Fetched
<1>7. QED
  BY <1>5, <1>6

\* the position remembered half-way through the test of resumption
LEMMA MarkedOn ==
  ASSUME Inv, NEW c \in Clients, Scripted(c), Marked(c), verdict[c] = "running", Passes(c),
         script' = script, test' = test, mark' = mark, Call(c).op # "readEvents"
  PROVE  Marked(c)'
<1> SUFFICES ASSUME test[c] = "position_based_resumption", step'[c] = 3 PROVE mark[c] = 3
  BY DEF Marked
<1>1. script[c] = PositionBasedResumption(c)
  <2>1. script[c] = SuiteFor(c)["position_based_resumption"]
    BY RunningTest
  <2>2. SuiteFor(c)["position_based_resumption"] = PositionBasedResumption(c)
    BY DEF SuiteFor
  <2>3. QED
    BY <2>1, <2>2
<1>2. PositionBasedResumption(c)[2].op = "readEvents"
  <2>1. PositionBasedResumption(c)[2]
          = ReadsEvents(AllStreams, Unlimited, Times(5, {Stream(c, "stream")}), 3, FALSE)
    BY DEF PositionBasedResumption
  <2>2. QED
    BY <2>1 DEF ReadsEvents
<1>3. step[c] \in Nat /\ (step'[c] = step[c] \/ step'[c] = step[c] + 1)
  BY DEF Passes, Inv, Logged
<1>4. step[c] # 2
  BY <1>1, <1>2 DEF Call
<1>5. QED
  BY <1>3, <1>4 DEF Marked

LEMMA AnswersPass ==
  ASSUME Inv, NEW c \in Clients, verdict[c] = "running", NEW ok, ok, Accepts(c, ok)
  PROVE  Passes(c)
BY RunningScript DEF Inv, Accepts, Ends, Passes

StepsOn(c) == Alone(c) /\ Fetched(c)' /\ (Resting(c) \/ Breaking(c) \/ Advancing(c))

LEMMA SnapshotCallsStepOn ==
  ASSUME Inv, Consistent, NEW c \in Clients, SaveSnapshot(c) \/ LoadSnapshot(c)
  PROVE  StepsOn(c)
<1> DEFINE sc == script[c]
           k == step[c]
<1>1. CASE SaveSnapshot(c)
  <2>1. /\ Executes(c, "saveSnapshot") /\ Answers(c, "Ok") /\ Returns(c)
        /\ mark' = mark /\ checkpoints' = checkpoints /\ locks' = locks
        /\ snapshots' = Kept(Call(c).id, Call(c).snapshot)
    BY <1>1 DEF SaveSnapshot
  <2>2. verdict[c] = "running" /\ Call(c).op = "saveSnapshot" /\ Scripted(c) /\ Remembers(c)
    BY <2>1, ExecutesAlone
  <2>3. Call(c).expects = "Ok"
    BY <2>2, RightCall DEF StoreOps, DataRight, SnapshotsRight, Call
  <2>4. Passes(c)
    BY <2>1, <2>2, <2>3, AnswersPass DEF Answers
  <2>5. Alone(c) /\ Fetched(c)'
    BY <2>1, <2>4, ReturnsAlone DEF Consistent
  <2>6. Marked(c)'
    BY <2>1, <2>2, <2>4, <2>5, MarkedOn DEF Remembers, Alone
  <2>7. Does(c)
    BY <2>1, <2>2, <2>6 DEF Does
  <2>8. QED
    BY <2>2, <2>4, <2>5, <2>7 DEF StepsOn, Advancing
<1>2. CASE LoadSnapshot(c)
  <2> DEFINE stored == IF c \in DOMAIN snapshots THEN snapshots[c] ELSE NoSnapshot
  <2>1. /\ Executes(c, "loadSnapshot") /\ Returns(c)
        /\ Accepts(c, Call(c).found = IF Call(c).id \in DOMAIN snapshots
                                      THEN snapshots[Call(c).id] ELSE NoSnapshot)
        /\ mark' = mark /\ checkpoints' = checkpoints /\ locks' = locks /\ snapshots' = snapshots
    BY <1>2 DEF LoadSnapshot, data
  <2>2. verdict[c] = "running" /\ Call(c).op = "loadSnapshot" /\ Scripted(c) /\ Remembers(c)
    BY <2>1, ExecutesAlone
  <2>3. Call(c).id = c /\ KeptAfter(sc, k - 1, Call(c).found)
    BY <2>2, RightCall DEF StoreOps, DataRight, SnapshotsRight, Call
  <2>4. Call(c).found = stored
    <3>1. k - 1 \in Nat
      BY <2>2, RunningScript DEF Inv
    <3>2. Snapshotted(c)
      BY <2>2 DEF Remembers
    <3>3. CASE c \notin DOMAIN snapshots /\ \A i \in 1..(k - 1) : sc[i].op # "saveSnapshot"
      BY <2>3, <3>3 DEF KeptAfter
    <3>4. ASSUME c \in DOMAIN snapshots, NEW j \in 1..(k - 1), SavesFirst(sc, j),
                 sc[j].snapshot = snapshots[c]
          PROVE  Call(c).found = stored
      <4>1. PICK i \in 1..(k - 1) : SavesFirst(sc, i) /\ sc[i].snapshot = Call(c).found
        BY <2>3, <3>4 DEF KeptAfter, SavesFirst
      <4> HIDE DEF k, sc
      <4>2. i = j
        <5> DEFINE m == k - 1
        <5>1. m \in Nat /\ i \in 1..m /\ j \in 1..m
          BY <3>1
        <5> HIDE DEF m
        <5>2. QED
          BY <5>1, <4>1, <3>4, SavesFirstOnce
      <4>3. QED
        BY <3>4, <4>1, <4>2
    <3>5. QED
      BY <3>2, <3>3, <3>4 DEF Snapshotted
  <2>5. Passes(c)
    <3>1. Call(c).found = IF Call(c).id \in DOMAIN snapshots
                          THEN snapshots[Call(c).id] ELSE NoSnapshot
      BY <2>3, <2>4
    <3>2. QED
      BY <2>1, <2>2, <3>1, AnswersPass
  <2>6. Alone(c) /\ Fetched(c)'
    BY <2>1, <2>5, ReturnsAlone DEF Consistent
  <2>7. Marked(c)'
    BY <2>1, <2>2, <2>5, <2>6, MarkedOn DEF Remembers, Alone
  <2>8. Does(c)
    BY <2>1, <2>2, <2>7 DEF Does
  <2>9. QED
    BY <2>2, <2>5, <2>6, <2>8 DEF StepsOn, Advancing
<1>3. QED
  BY <1>1, <1>2

LEMMA CheckpointCallsStepOn ==
  ASSUME Inv, Consistent, NEW c \in Clients, SaveCheckpoint(c) \/ LoadCheckpoint(c)
  PROVE  StepsOn(c)
<1>1. CASE SaveCheckpoint(c)
  <2>1. /\ Executes(c, "saveCheckpoint") /\ Answers(c, "Ok") /\ Returns(c)
        /\ mark' = mark /\ snapshots' = snapshots /\ locks' = locks
        /\ checkpoints' = Put(checkpoints, Call(c).name, Call(c).position)
    BY <1>1 DEF SaveCheckpoint
  <2>2. verdict[c] = "running" /\ Call(c).op = "saveCheckpoint" /\ Scripted(c) /\ Remembers(c)
    BY <2>1, ExecutesAlone
  <2>3. Call(c).expects = "Ok"
    BY <2>2, RightCall DEF StoreOps, DataRight, CheckpointsRight, Call
  <2>4. Passes(c)
    BY <2>1, <2>2, <2>3, AnswersPass DEF Answers
  <2>5. Alone(c) /\ Fetched(c)'
    BY <2>1, <2>4, ReturnsAlone DEF Consistent
  <2>6. Marked(c)'
    BY <2>1, <2>2, <2>4, <2>5, MarkedOn DEF Remembers, Alone
  <2>7. Does(c)
    BY <2>1, <2>2, <2>6 DEF Does
  <2>8. QED
    BY <2>2, <2>4, <2>5, <2>7 DEF StepsOn, Advancing
<1>2. CASE LoadCheckpoint(c)
  <2> DEFINE sc == script[c]
             k == step[c]
             name == Call(c).name
  <2>1. /\ Executes(c, "loadCheckpoint") /\ Returns(c)
        /\ Accepts(c, Call(c).found = CheckpointOf(name))
        /\ mark' = mark /\ checkpoints' = checkpoints /\ locks' = locks /\ snapshots' = snapshots
    BY <1>2 DEF LoadCheckpoint, data, CheckpointOf
  <2>2. verdict[c] = "running" /\ Call(c).op = "loadCheckpoint" /\ Scripted(c) /\ Remembers(c)
    BY <2>1, ExecutesAlone
  <2>3. Told(sc, k - 1, name, Call(c).found)
    BY <2>2, RightCall DEF StoreOps, DataRight, CheckpointsRight, Call
  <2>4. Told(sc, k - 1, name, CheckpointOf(name))
    <3>1. k \in 1..Len(sc)
      BY <2>2, RunningScript DEF Inv
    <3>2. name \in NamesIn(sc)
      BY <2>2, <3>1 DEF NamesIn, Call
    <3>3. QED
      BY <2>2, <3>2 DEF Remembers, Checkpointed
  <2>5. Call(c).found = CheckpointOf(name)
    <3> DEFINE m == k - 1
    <3>1. m \in Nat
      BY <2>2, RunningScript DEF Inv
    <3> HIDE DEF m, sc, name, CheckpointOf
    <3>2. Told(sc, m, name, Call(c).found) /\ Told(sc, m, name, CheckpointOf(name))
      BY <2>3, <2>4 DEF m
    <3>3. QED
      BY <3>1, <3>2, ToldOnce
  <2>6. Passes(c)
    BY <2>1, <2>2, <2>5, AnswersPass
  <2>7. Alone(c) /\ Fetched(c)'
    BY <2>1, <2>6, ReturnsAlone DEF Consistent
  <2>8. Marked(c)'
    BY <2>1, <2>2, <2>6, <2>7, MarkedOn DEF Remembers, Alone
  <2>9. Does(c)
    BY <2>1, <2>2, <2>8 DEF Does
  <2>10. QED
    BY <2>2, <2>6, <2>7, <2>9 DEF StepsOn, Advancing
<1>3. QED
  BY <1>1, <1>2

LEMMA CoordinationStepsOn ==
  ASSUME Inv, Consistent, NEW c \in Clients, TryAcquire(c) \/ DropGuard(c) \/ EndOfScope(c)
  PROVE  StepsOn(c)
<1>1. ASSUME TryAcquire(c) \/ DropGuard(c), Passes(c)
      PROVE  Alone(c) /\ Fetched(c)' /\ Marked(c)'
  <2>1. /\ verdict[c] = "running" /\ Call(c).op \in {"acquire", "drop"}
        /\ backend' = backend /\ test' = test /\ script' = script /\ mark' = mark
        /\ conn' = conn /\ task' = task /\ rows' = rows /\ channel' = channel
        /\ received' = received
    BY <1>1 DEF TryAcquire, DropGuard, Running, fixed, tasks
  <2>2. task[c] = "none"
    BY <2>1 DEF Inv, Tasks, Tasked
  <2>3. \A d \in Clients \ {c} : step'[d] = step[d] /\ verdict'[d] = verdict[d]
    BY <1>1, PassesElsewhere
  <2>4. Alone(c)
    BY <2>1, <2>3 DEF Alone, Consistent
  <2>5. Fetched(c)'
    BY <2>1, <2>2 DEF Fetched, Consistent
  <2>6. Marked(c)'
    BY <1>1, <2>1, MarkedOn DEF Consistent, Remembers
  <2>7. QED
    BY <2>4, <2>5, <2>6
<1>2. CASE TryAcquire(c)
  <2>1. /\ verdict[c] = "running" /\ Call(c).op = "acquire"
        /\ locks' = locks \cup {Call(c).name}
        /\ Answers(c, IF Call(c).name \in locks THEN "LeadershipNotAcquired" ELSE "Ok")
        /\ snapshots' = snapshots /\ checkpoints' = checkpoints
    BY <1>2 DEF TryAcquire, Running
  <2>2. Scripted(c) /\ Remembers(c) /\ step[c] \in 1..Len(script[c])
    BY <2>1, RunningScript DEF Consistent, Inv
  <2>3. Call(c).expects = IF HeldAfter(script[c], step[c] - 1, Call(c).name)
                          THEN "LeadershipNotAcquired" ELSE "Ok"
    BY <2>1, <2>2, RightCall DEF StoreOps, DataRight, CoordinationRight, Call
  <2>4. Call(c).name \in locks <=> HeldAfter(script[c], step[c] - 1, Call(c).name)
    <3>1. Call(c).name \in NamesIn(script[c])
      BY <2>1, <2>2 DEF NamesIn, Call
    <3>2. QED
      BY <2>2, <3>1 DEF Remembers, Led
  <2>5. Passes(c)
    BY <2>1, <2>3, <2>4, AnswersPass DEF Answers
  <2>6. Does(c)
    BY <1>1, <1>2, <2>1, <2>5 DEF Does
  <2>7. QED
    BY <1>1, <1>2, <2>1, <2>5, <2>6 DEF StepsOn, Advancing
<1>3. CASE DropGuard(c)
  <2>1. /\ verdict[c] = "running" /\ Call(c).op = "drop"
        /\ locks' = locks \ {Call(c).name}
        /\ Answers(c, "Ok")
        /\ snapshots' = snapshots /\ checkpoints' = checkpoints
    BY <1>3 DEF DropGuard, Running
  <2>2. Call(c).expects = "Ok"
    BY <2>1, RightCall DEF Consistent, StoreOps, DataRight, CoordinationRight, Call
  <2>3. Passes(c)
    BY <2>1, <2>2, AnswersPass DEF Answers
  <2>4. Does(c)
    BY <1>1, <1>3, <2>1, <2>3 DEF Does
  <2>5. QED
    BY <1>1, <1>3, <2>1, <2>3, <2>4 DEF StepsOn, Advancing
<1>4. CASE EndOfScope(c)
  <2>1. Alone(c) /\ Fetched(c)'
    BY <1>4 DEF EndOfScope, Alone, Fetched, Consistent, fixed, tasks
  <2>2. Resting(c)
    BY <1>4 DEF EndOfScope, Resting
  <2>3. QED
    BY <2>1, <2>2 DEF StepsOn
<1>5. QED
  BY <1>2, <1>3, <1>4

LEMMA AppendsStepOn ==
  ASSUME Inv, Consistent, NEW c \in Clients,
         \/ AppendEvents(c) \/ Conflict(c) \/ Validated(c) \/ InsertChunk(c) \/ Commit(c)
         \/ StatementFails(c)
  PROVE  StepsOn(c)
<1>1. CASE AppendEvents(c) \/ Conflict(c)
  <2>1. /\ Executes(c, "append") /\ Returns(c)
        /\ Answers(c, IF VersionsMatch(Call(c)) THEN "Ok" ELSE "VersionConflict")
        /\ mark' = mark /\ checkpoints' = checkpoints /\ locks' = locks /\ snapshots' = snapshots
    BY <1>1 DEF AppendEvents, Conflict, data
  <2>2. verdict[c] = "running" /\ Call(c).op = "append" /\ Scripted(c) /\ Remembers(c)
    BY <2>1, ExecutesAlone
  <2>3. Call(c).expects = IF VersionsMatch(Call(c)) THEN "Ok" ELSE "VersionConflict"
    BY <2>2, ExpectsWhatIs DEF Inv
  <2>4. Passes(c)
    BY <2>1, <2>2, <2>3, AnswersPass DEF Answers
  <2>5. Alone(c) /\ Fetched(c)'
    BY <2>1, <2>4, ReturnsAlone DEF Consistent
  <2>6. Marked(c)'
    BY <2>1, <2>2, <2>4, <2>5, MarkedOn DEF Remembers, Alone
  <2>7. Does(c)
    BY <2>1, <2>2, <2>6 DEF Does
  <2>8. QED
    BY <2>2, <2>4, <2>5, <2>7 DEF StepsOn, Advancing
<1>2. CASE Validated(c)
  <2>1. /\ backend' = backend /\ test' = test /\ script' = script
        /\ step' = step /\ verdict' = verdict /\ mark' = mark
        /\ snapshots' = snapshots /\ checkpoints' = checkpoints /\ locks' = locks
        /\ conn' = conn /\ channel' = channel /\ received' = received
        /\ task' = [task EXCEPT ![c] = "inserting"]
        /\ rows' = [rows EXCEPT ![c] = NewRows(Call(c))]
        /\ Executes(c, "append") /\ backend = "sqlite"
    BY <1>2 DEF Validated, fixed, data
  <2>2. conn = c /\ channel[c] = << >>
    BY <2>1, ExecutesAlone DEF Executes, Consistent, Fetched
  <2>3. Alone(c)
    BY <2>1 DEF Alone, Consistent, Inv, Tasks
  <2>4. Fetched(c)'
    BY <2>1, <2>2 DEF Fetched, Inv, Tasks
  <2>5. QED
    BY <2>1, <2>3, <2>4 DEF StepsOn, Resting
<1>3. CASE InsertChunk(c)
  <2>1. /\ backend' = backend /\ test' = test /\ script' = script
        /\ step' = step /\ verdict' = verdict /\ mark' = mark
        /\ snapshots' = snapshots /\ checkpoints' = checkpoints /\ locks' = locks
        /\ conn' = conn /\ channel' = channel /\ received' = received /\ task' = task
        /\ task[c] = "inserting"
        /\ \A d \in Clients \ {c} : rows'[d] = rows[d]
    BY <1>3 DEF InsertChunk, fixed, data, Inv, Tasks
  <2>2. Alone(c)
    BY <2>1 DEF Alone, Consistent
  <2>3. Fetched(c)'
    BY <2>1 DEF Fetched, Consistent
  <2>4. QED
    BY <2>1, <2>2, <2>3 DEF StepsOn, Resting
<1>4. CASE Commit(c)
  <2>1. /\ backend' = backend /\ test' = test /\ script' = script /\ mark' = mark
        /\ snapshots' = snapshots /\ checkpoints' = checkpoints /\ locks' = locks
        /\ rows' = rows /\ channel' = channel /\ received' = received
        /\ conn' = IF conn = c THEN None ELSE conn
        /\ task' = [task EXCEPT ![c] = "none"]
        /\ task[c] = "inserting"
        /\ Answers(c, "Ok")
    BY <1>4 DEF Commit, ReleaseConnection, fixed
  <2>2. verdict[c] = "running" /\ Call(c).op = "append" /\ Call(c).expects = "Ok"
    BY <2>1 DEF Inv, Tasks, Tasked, Inserting
  <2>3. Passes(c)
    BY <2>1, <2>2, AnswersPass DEF Answers
  <2>4. \A d \in Clients \ {c} : step'[d] = step[d] /\ verdict'[d] = verdict[d]
    BY <2>3, PassesElsewhere
  <2>5. Alone(c)
    BY <2>1, <2>4 DEF Alone, Consistent, Inv, Tasks
  <2>6. Fetched(c)'
    BY <2>1, <2>2 DEF Fetched, Consistent, Inv, Tasks
  <2>7. Marked(c)'
    BY <2>1, <2>2, <2>3, MarkedOn DEF Remembers, Consistent
  <2>8. Does(c)
    BY <2>1, <2>2, <2>7 DEF Does
  <2>9. QED
    BY <2>2, <2>3, <2>5, <2>6, <2>8 DEF StepsOn, Advancing
<1>5. CASE StatementFails(c)
  <2>1. /\ backend' = backend /\ test' = test /\ script' = script /\ mark' = mark
        /\ snapshots' = snapshots /\ checkpoints' = checkpoints /\ locks' = locks
        /\ channel' = channel /\ received' = received
        /\ conn' = IF conn = c THEN None ELSE conn
        /\ task' = [task EXCEPT ![c] = "none"]
        /\ rows' = [rows EXCEPT ![c] = << >>]
        /\ step' = step /\ verdict' = [verdict EXCEPT ![c] = "store_error"]
        /\ task[c] \in {"holding", "inserting"}
    BY <1>5 DEF StatementFails, Ends, ReleaseConnection, fixed, data
  <2>2. verdict[c] = "running"
    BY <2>1 DEF Inv, Tasks, Tasked
  <2>3. Alone(c)
    BY <2>1 DEF Alone, Consistent, Inv, Tasks, Logged
  <2>4. Fetched(c)'
    BY <2>1 DEF Fetched, Inv, Tasks, Logged
  <2>5. QED
    BY <2>1, <2>2, <2>3, <2>4 DEF StepsOn, Breaking
<1>6. QED
  BY <1>1, <1>2, <1>3, <1>4, <1>5

(***************************************************************************)
(* Reading a stream: the rows of the log, and those that are sent and      *)
(* received one by one.                                                    *)
(***************************************************************************)
AllOf(c) == Count(Accumulated(script[c], step[c] - 1), Call(c).stream)

OfStream(c) == Positioned(log, Call(c).stream)

\* the test's own stream holds what its script has appended to it
LEMMA StreamIsCounted ==
  ASSUME Logged, NEW c \in Clients, verdict[c] = "running", ReadRight(script[c], step[c], c)
  PROVE  Cardinality(OfStream(c)) = AllOf(c)
<1> DEFINE s == Call(c).stream
<1>1. AcceptedBatches(c) = Accumulated(script[c], step[c] - 1)
  <2>1. Answered(c) = step[c] - 1
    BY RunningScript
  <2>2. QED
    BY <2>1, Zenon DEF AcceptedBatches, Accumulated
<1>2. CASE s \in StreamsIn(script[c])
  BY <1>1, <1>2 DEF Logged, Counted, OfStream, AllOf
<1>3. CASE Accumulated(script[c], step[c] - 1) = << >>
  <2>1. Mirrors(log, c, << >>)
    BY <1>1, <1>3 DEF Logged, Mirrored
  <2>2. Cardinality(Owned(log, c)) = 0
    BY <2>1 DEF Mirrors
  <2>3. Within(Owned(log, c), Len(log)) /\ Len(log) \in Nat
    BY DEF Logged, Owned, Within
  <2>4. Owned(log, c) = {}
    <3>1. IsFiniteSet(Owned(log, c))
      <4>1. IsFiniteSet(1..Len(log))
        BY <2>3, FS_Interval
      <4>2. QED
        BY <2>3, <4>1, FS_Subset DEF Within
    <3>2. QED
      BY <2>2, <3>1, FS_EmptySet
  <2>5. c \in ToSet(s)
    BY DEF ReadRight, Separate, Call
  <2>6. OfStream(c) = {}
    BY <2>4, <2>5 DEF OfStream, Positioned, Owned
  <2>7. AllOf(c) = 0
    BY <1>3, CountOfNone DEF AllOf
  <2>8. QED
    BY <2>6, <2>7, FS_EmptySet
<1>4. QED
  BY <1>2, <1>3 DEF ReadRight, Call

LEMMA RowsOfStream ==
  ASSUME Logged, NEW s, NEW P, P \subseteq Positioned(log, s)
  PROVE  /\ RowsAt(P) \in Seq(RowOf(s))
         /\ Len(RowsAt(P)) = Cardinality(P)
         /\ Cardinality(P) \in Nat
<1>1. Len(log) \in Nat /\ DOMAIN log = 1..Len(log) /\ \A i \in DOMAIN log : log[i] \in LogRow
  BY DEF Logged
<1>2. Within(P, Len(log))
  BY <1>1 DEF Within, Positioned
<1>3. Cardinality(P) \in Nat
  BY <1>1, <1>2, RanksOfPositions
<1>4. \A k \in 1..Cardinality(P) : Nth(P, k) \in P
  BY <1>1, <1>2, NthIsThere
<1>5. \A i \in P : log[i] \in RowOf(s)
  BY <1>1 DEF Positioned, LogRow, RowOf
<1> DEFINE n == Cardinality(P)
<1> HIDE DEF n
<1>6. RowsAt(P) = [k \in 1..n |-> log[Nth(P, k)]]
  BY DEF RowsAt, n
<1>7. \A k \in 1..n : log[Nth(P, k)] \in RowOf(s)
  BY <1>4, <1>5 DEF n
<1>8. n \in Nat
  BY <1>3 DEF n
<1>9. RowsAt(P) \in Seq(RowOf(s)) /\ Len(RowsAt(P)) = n
  BY <1>6, <1>7, <1>8
<1>10. QED
  BY <1>3, <1>9 DEF n

\* all of the stream after the cursor is what the test expects
LEMMA WholeIsExpected ==
  ASSUME NEW c, ReadRight(script[c], step[c], c), NEW events \in Seq(RowOf(Call(c).stream)),
         AllOf(c) \in Nat, Len(events) = AllOf(c) - Call(c).after
  PROVE  StreamIsExpected(Call(c), events)
<1>1. \A i \in DOMAIN events : /\ events[i].type = ContractTestEvent
                               /\ events[i].stream = Call(c).stream
  <2>1. \A i \in DOMAIN events : events[i] \in RowOf(Call(c).stream)
    OBVIOUS
  <2>2. QED
    BY <2>1 DEF RowOf
<1>2. CASE /\ Call(c).type = ContractTestEvent /\ Call(c).expects = "Ok"
           /\ Call(c).count = AllOf(c) - Call(c).after
  BY <1>1, <1>2 DEF StreamIsExpected
<1>3. CASE /\ Call(c).type = MismatchedEvent /\ Call(c).expects = "DeserializationFailed"
           /\ Call(c).after = 0 /\ AllOf(c) # 0
  <2>1. Len(events) # 0
    BY <1>3
  <2>2. 1 \in DOMAIN events
    BY <2>1
  <2>3. events[1].type # Call(c).type
    BY <1>1, <1>3, <2>2 DEF ContractTestEvent, MismatchedEvent
  <2>4. QED
    BY <1>3, <2>2, <2>3 DEF StreamIsExpected
<1>4. QED
  BY <1>2, <1>3 DEF ReadRight, Call, AllOf

LEMMA ReadStreamStepsOn ==
  ASSUME Inv, Consistent, NEW c \in Clients, ReadStream(c)
  PROVE  StepsOn(c)
<1> DEFINE s == Call(c).stream
           all == RowsOf(s)
           events == SubSeq(all, Call(c).after + 1, Version(s))
<1>1. /\ Executes(c, "readStream") /\ Returns(c)
      /\ Accepts(c, StreamIsExpected(Call(c), events))
      /\ mark' = mark /\ checkpoints' = checkpoints /\ locks' = locks /\ snapshots' = snapshots
  BY DEF ReadStream, data
<1>2. verdict[c] = "running" /\ Call(c).op = "readStream" /\ Scripted(c) /\ Remembers(c)
  BY <1>1, ExecutesAlone
<1>3. ReadRight(script[c], step[c], c)
  BY <1>2, RightCall
<1>4. /\ all \in Seq(RowOf(s)) /\ Len(all) = AllOf(c) /\ Version(s) = AllOf(c) /\ AllOf(c) \in Nat
  <2>1. all = RowsAt(OfStream(c)) /\ Version(s) = Cardinality(OfStream(c))
    BY DEF RowsOf, OfStream, Positioned, Version
  <2>2. Cardinality(OfStream(c)) = AllOf(c)
    BY <1>2, <1>3, StreamIsCounted DEF Inv
  <2>3. /\ RowsAt(OfStream(c)) \in Seq(RowOf(s))
        /\ Len(RowsAt(OfStream(c))) = Cardinality(OfStream(c))
        /\ Cardinality(OfStream(c)) \in Nat
    BY RowsOfStream DEF OfStream, Inv
  <2> HIDE DEF all
  <2>4. QED
    BY <2>1, <2>2, <2>3
<1>5. Call(c).after \in Nat /\ Call(c).after <= AllOf(c)
  <2>1. \/ Call(c).after <= AllOf(c)
        \/ Call(c).after = 0
    BY <1>3 DEF ReadRight, Call, AllOf
  <2>2. QED
    BY <1>3, <1>4, <2>1 DEF ReadRight, Call
<1> HIDE DEF all, s
<1>6. events \in Seq(RowOf(s)) /\ Len(events) = AllOf(c) - Call(c).after
  BY <1>4, <1>5
<1> HIDE DEF events
<1>7. StreamIsExpected(Call(c), events)
  BY <1>3, <1>4, <1>6, WholeIsExpected DEF s
<1>8. Passes(c)
  BY <1>1, <1>2, <1>7, AnswersPass
<1>9. Alone(c) /\ Fetched(c)'
  BY <1>1, <1>8, ReturnsAlone DEF Consistent
<1>10. Marked(c)'
  BY <1>1, <1>2, <1>8, <1>9, MarkedOn DEF Remembers, Alone
<1>11. Does(c)
  BY <1>1, <1>2, <1>10 DEF Does
<1>12. QED
  BY <1>2, <1>8, <1>9, <1>11 DEF StepsOn, Advancing

\* the rows behind the cursor, by their versions
LEMMA LaterRows ==
  ASSUME Logged, NEW s, NEW after \in Nat, after <= Cardinality(Positioned(log, s))
  PROVE  Cardinality({i \in DOMAIN log : log[i].stream = s /\ log[i].version > after})
            = Cardinality(Positioned(log, s)) - after
<1> DEFINE P == Positioned(log, s)
<1>1. Len(log) \in Nat /\ DOMAIN log = 1..Len(log)
  BY DEF Logged
<1>2. Within(P, Len(log))
  BY <1>1 DEF Within, Positioned
<1>3. ASSUME NEW i \in P PROVE log[i].version = Rank(P, i)
  <2>1. {j \in 1..i : log[j].stream = s} = {j \in P : j <= i}
    BY <1>1 DEF Positioned
  <2>2. NumberedAt(log, i) /\ log[i].stream = s
    BY DEF Logged, Numbers, Positioned
  <2>3. QED
    BY <2>1, <2>2 DEF NumberedAt, Rank
<1>4. {i \in DOMAIN log : log[i].stream = s /\ log[i].version > after} = {i \in P : Rank(P, i) > after}
  BY <1>3 DEF Positioned
<1>5. Cardinality({i \in P : Rank(P, i) > after}) = Cardinality(P) - after
  <2> DEFINE m == Len(log)
  <2>1. m \in Nat /\ Within(P, m) /\ after <= Cardinality(P)
    BY <1>1, <1>2
  <2> HIDE DEF m, P
  <2>2. QED
    BY <2>1, LaterRanks
<1>6. QED
  BY <1>4, <1>5

-------------------------------------------------------------------------------
(***************************************************************************)
(* SQLite's open stream.  A row moves on from the rows to be sent to the   *)
(* channel, and from there to the consumer, until one fails.               *)
(***************************************************************************)
\* a, b and c: received, in the channel and to be sent; R: rows of the stream, F: the failed row
UnderWay(a, b, c, R, F, total) ==
  /\ a \in Seq(R) /\ b \in Seq(R \cup {F}) /\ c \in Seq(R)
  /\ \/ \E i \in DOMAIN b : b[i] = F
     \/ Len(a) + Len(b) + Len(c) = total

LEMMA RowIsSent ==
  ASSUME NEW R, NEW F, NEW total, NEW a, NEW b, NEW c, UnderWay(a, b, c, R, F, total), c # << >>
  PROVE  UnderWay(a, Append(b, Head(c)), Tail(c), R, F, total)
<1>1. a \in Seq(R) /\ b \in Seq(R \cup {F}) /\ c \in Seq(R)
  BY DEF UnderWay
<1>2. Head(c) \in R /\ Tail(c) \in Seq(R) /\ Len(Tail(c)) = Len(c) - 1
  BY <1>1
<1>3. Append(b, Head(c)) \in Seq(R \cup {F}) /\ Len(Append(b, Head(c))) = Len(b) + 1
  BY <1>1, <1>2
<1>4. \A i \in DOMAIN b : i \in DOMAIN Append(b, Head(c)) /\ Append(b, Head(c))[i] = b[i]
  BY <1>1
<1>5. Len(a) \in Nat /\ Len(b) \in Nat /\ Len(c) \in Nat
  BY <1>1
<1>6. Len(a) + (Len(b) + 1) + (Len(c) - 1) = Len(a) + Len(b) + Len(c)
  BY <1>5
<1>7. QED
  BY <1>1, <1>2, <1>3, <1>4, <1>6 DEF UnderWay

LEMMA RowFails ==
  ASSUME NEW R, NEW F, NEW total, NEW other, NEW a, NEW b, NEW c,
         UnderWay(a, b, c, R, F, total)
  PROVE  UnderWay(a, Append(b, F), << >>, R, F, other)
<1>1. a \in Seq(R) /\ b \in Seq(R \cup {F}) /\ c \in Seq(R)
  BY DEF UnderWay
<1>2. Append(b, F) \in Seq(R \cup {F})
  BY <1>1
<1>3. Len(b) + 1 \in DOMAIN Append(b, F) /\ Append(b, F)[Len(b) + 1] = F
  BY <1>1
<1>4. << >> \in Seq(R)
  OBVIOUS
<1>5. QED
  BY <1>1, <1>2, <1>3, <1>4 DEF UnderWay

LEMMA RowIsReceived ==
  ASSUME NEW R, NEW F, NEW total, NEW a, NEW b, NEW c, UnderWay(a, b, c, R, F, total),
         b # << >>, Head(b) # F
  PROVE  UnderWay(Append(a, Head(b)), Tail(b), c, R, F, total) /\ Head(b) \in R
<1>1. a \in Seq(R) /\ b \in Seq(R \cup {F}) /\ c \in Seq(R)
  BY DEF UnderWay
<1>2. Head(b) \in R
  <2>1. Head(b) \in R \cup {F}
    BY <1>1
  <2>2. QED
    BY <2>1
<1>3. Append(a, Head(b)) \in Seq(R) /\ Len(Append(a, Head(b))) = Len(a) + 1
  BY <1>1, <1>2
<1>4. Tail(b) \in Seq(R \cup {F}) /\ Len(Tail(b)) = Len(b) - 1
  BY <1>1
<1>5. ASSUME NEW i \in DOMAIN b, b[i] = F PROVE \E j \in DOMAIN Tail(b) : Tail(b)[j] = F
  <2>1. i # 1
    BY <1>1, <1>5
  <2>2. i - 1 \in DOMAIN Tail(b) /\ Tail(b)[i - 1] = b[i]
    BY <1>1, <2>1
  <2>3. QED
    BY <1>5, <2>2
<1>6. Len(a) \in Nat /\ Len(b) \in Nat /\ Len(c) \in Nat
  BY <1>1
<1>7. (Len(a) + 1) + (Len(b) - 1) + Len(c) = Len(a) + Len(b) + Len(c)
  BY <1>6
<1>8. UnderWay(Append(a, Head(b)), Tail(b), c, R, F, total)
  BY <1>1, <1>3, <1>4, <1>5, <1>7 DEF UnderWay
<1>9. QED
  BY <1>2, <1>8

Fetches(c) ==
  UnderWay(received[c], channel[c], rows[c], RowOf(Call(c).stream), FailedRow,
           AllOf(c) - Call(c).after)

LEMMA FetchingIs ==
  ASSUME NEW c
  PROVE  Fetching(c) <=>
           Fetches(c) /\ (received[c] # << >> => Call(c).type = ContractTestEvent)
BY DEF Fetching, Fetches, UnderWay, AllOf

\* what a step of a task leaves alone
Sending(c) ==
  /\ backend' = backend /\ test' = test /\ script' = script
  /\ step' = step /\ verdict' = verdict /\ mark' = mark
  /\ snapshots' = snapshots /\ checkpoints' = checkpoints /\ locks' = locks
  /\ DOMAIN channel' = Clients /\ DOMAIN received' = Clients
  /\ \A d \in Clients \ {c} :
        /\ task'[d] = task[d] /\ rows'[d] = rows[d]
        /\ channel'[d] = channel[d] /\ received'[d] = received[d]
  /\ \/ conn' = conn
     \/ conn = None /\ conn' = c
     \/ conn = c /\ conn' = None

LEMMA SendingStepsOn ==
  ASSUME Inv, Consistent, NEW c \in Clients, Sending(c), Fetched(c)'
  PROVE  StepsOn(c)
BY DEF Sending, StepsOn, Alone, Resting, Consistent

LEMMA SpawnsStepOn ==
  ASSUME Inv, Consistent, NEW c \in Clients, Spawn(c) \/ LockConnection(c)
  PROVE  StepsOn(c)
<1>1. Sending(c)
  BY DEF Spawn, LockConnection, Sending, fixed, data, Consistent, Inv, Tasks
<1>2. CASE Spawn(c)
  <2>1. task'[c] = "waiting" /\ received'[c] = << >> /\ channel' = channel /\ task[c] = "none"
    BY <1>2 DEF Spawn, Consistent, Inv, Tasks
  <2>2. verdict[c] = "running" /\ channel[c] = << >>
    BY <1>2, <2>1 DEF Spawn, Consistent, Fetched
  <2>3. Fetched(c)'
    BY <2>1, <2>2 DEF Fetched
  <2>4. QED
    BY <1>1, <2>3, SendingStepsOn
<1>3. CASE LockConnection(c)
  <2>1. /\ task'[c] = "holding" /\ received' = received /\ channel' = channel
        /\ task[c] = "waiting" /\ conn' = c
    BY <1>3 DEF LockConnection, Inv, Tasks
  <2>2. received[c] = << >> /\ channel[c] = << >> /\ verdict[c] = "running"
    BY <2>1 DEF Consistent, Fetched, Inv, Tasks, Tasked
  <2>3. Fetched(c)'
    BY <2>1, <2>2 DEF Fetched
  <2>4. QED
    BY <1>1, <2>3, SendingStepsOn
<1>4. QED
  BY <1>2, <1>3

\* for what a step leaves the consumer and its task with
LEMMA FetchedNow ==
  ASSUME NEW c, (task[c] = "sending")', conn' # c => rows'[c] = << >>,
         (verdict[c] = "running")' =>
            Fetches(c)' /\ (received'[c] # << >> => (Call(c).type = ContractTestEvent)')
  PROVE  Fetched(c)'
<1>1. Fetching(c)' <=>
         Fetches(c)' /\ (received[c] # << >> => Call(c).type = ContractTestEvent)'
  BY FetchingIs, PTL
<1>2. QED
  BY <1>1 DEF Fetched

\* rows and tasks are the client's own
LEMMA TaskStepsSend ==
  ASSUME Inv, Consistent, NEW c \in Clients,
         \/ Query(c) \/ SendRow(c) \/ ReadFails(c) \/ TaskEnds(c)
         \/ Receive(c) /\ step' = step /\ verdict' = verdict
  PROVE  Sending(c)
BY DEF Query, SendRow, ReadFails, TaskEnds, Receive, Sending, fixed, data, Consistent, Inv, Tasks

LEMMA QueryStepsOn ==
  ASSUME Inv, Consistent, NEW c \in Clients, Query(c)
  PROVE  StepsOn(c)
<1> DEFINE s == Call(c).stream
           P == {i \in DOMAIN log : log[i].stream = s /\ log[i].version > Call(c).after}
<1>1. /\ Executes(c, "readStream") /\ backend = "sqlite"
      /\ task'[c] = "sending" /\ rows'[c] = RowsAt(P)
      /\ channel' = channel /\ received' = received /\ conn' = conn
      /\ script' = script /\ step' = step /\ verdict' = verdict
  BY DEF Query, fixed, Inv, Tasks
<1>2. verdict[c] = "running" /\ Call(c).op = "readStream" /\ Scripted(c) /\ channel[c] = << >>
  BY <1>1, ExecutesAlone
<1>3. ReadRight(script[c], step[c], c)
  BY <1>2, RightCall
<1>4. conn = c /\ received[c] = << >>
  BY <1>1 DEF Executes, Consistent, Fetched
<1>5. Cardinality(Positioned(log, s)) = AllOf(c) /\ AllOf(c) \in Nat
  <2>1. Cardinality(OfStream(c)) = AllOf(c)
    BY <1>2, <1>3, StreamIsCounted DEF Inv
  <2>2. Cardinality(OfStream(c)) \in Nat
    BY RowsOfStream DEF OfStream, Inv
  <2>3. QED
    BY <2>1, <2>2 DEF OfStream
<1>6. Call(c).after \in Nat /\ Call(c).after <= AllOf(c)
  BY <1>3, <1>5 DEF ReadRight, Call, AllOf
<1>7. Cardinality(P) = AllOf(c) - Call(c).after
  <2>1. Logged
    BY DEF Inv
  <2> DEFINE after == Call(c).after
  <2>2. after \in Nat /\ after <= Cardinality(Positioned(log, s))
    BY <1>5, <1>6
  <2> HIDE DEF s, after
  <2>3. Cardinality({i \in DOMAIN log : log[i].stream = s /\ log[i].version > after})
          = Cardinality(Positioned(log, s)) - after
    BY <2>1, <2>2, LaterRows
  <2>4. QED
    BY <1>5, <2>3 DEF s, after
<1>8. RowsAt(P) \in Seq(RowOf(s)) /\ Len(RowsAt(P)) = AllOf(c) - Call(c).after
  <2>1. P \subseteq Positioned(log, s)
    BY DEF Positioned
  <2> HIDE DEF P, s
  <2>2. RowsAt(P) \in Seq(RowOf(s)) /\ Len(RowsAt(P)) = Cardinality(P)
    BY <2>1, RowsOfStream DEF Inv
  <2>3. QED
    BY <1>7, <2>2
<1> HIDE DEF P
<1>9. Call(c)' = Call(c) /\ AllOf(c)' = AllOf(c)
  BY <1>1 DEF Call, AllOf
<1>10. UnderWay(<< >>, << >>, RowsAt(P), RowOf(s), FailedRow, AllOf(c) - Call(c).after)
  <2> DEFINE all == RowsAt(P)
             R == RowOf(s)
  <2>1. all \in Seq(R) /\ Len(all) = AllOf(c) - Call(c).after /\ Len(all) \in Nat
    BY <1>8
  <2> HIDE DEF all, R
  <2>2. 0 + 0 + Len(all) = AllOf(c) - Call(c).after /\ Len(<< >>) = 0
    BY <2>1
  <2>3. << >> \in Seq(R) /\ << >> \in Seq(R \cup {FailedRow})
    OBVIOUS
  <2>4. UnderWay(<< >>, << >>, all, R, FailedRow, AllOf(c) - Call(c).after)
    BY <2>1, <2>2, <2>3 DEF UnderWay
  <2>5. QED
    BY <2>4 DEF all, R
<1>11. Fetches(c)'
  <2>1. received'[c] = << >> /\ channel'[c] = << >>
    BY <1>1, <1>2, <1>4
  <2>2. FailedRow' = FailedRow /\ RowOf(Call(c).stream)' = RowOf(s)
    BY <1>9 DEF FailedRow, RowOf
  <2>3. QED
    BY <1>1, <1>9, <1>10, <2>1, <2>2 DEF Fetches
<1>12. Fetched(c)'
  BY <1>1, <1>4, <1>11, FetchedNow
<1>13. QED
  BY <1>12, TaskStepsSend, SendingStepsOn

LEMMA SendersStepOn ==
  ASSUME Inv, Consistent, NEW c \in Clients, SendRow(c) \/ ReadFails(c) \/ TaskEnds(c)
  PROVE  StepsOn(c)
<1>1. Sending(c)
  BY TaskStepsSend
<1>2. /\ script' = script /\ step' = step /\ verdict' = verdict
      /\ Call(c)' = Call(c) /\ AllOf(c)' = AllOf(c)
      /\ FailedRow' = FailedRow /\ RowOf(Call(c).stream)' = RowOf(Call(c).stream)
  BY <1>1 DEF Sending, Call, AllOf, FailedRow, RowOf
<1> DEFINE R == RowOf(Call(c).stream)
           total == AllOf(c) - Call(c).after
<1>3. ASSUME task[c] = "sending", verdict[c] = "running"
      PROVE  /\ UnderWay(received[c], channel[c], rows[c], R, FailedRow, total)
             /\ received[c] # << >> => Call(c).type = ContractTestEvent
             /\ conn # c => rows[c] = << >>
  <2>1. Fetching(c) /\ (conn # c => rows[c] = << >>)
    BY <1>3 DEF Consistent, Fetched
  <2>2. QED
    BY <2>1, FetchingIs DEF Fetches
<1>4. CASE SendRow(c)
  <2>1. /\ task[c] = "sending" /\ verdict[c] = "running" /\ rows[c] # << >>
        /\ channel'[c] = Append(channel[c], Head(rows[c])) /\ rows'[c] = Tail(rows[c])
        /\ received' = received /\ task' = task /\ conn' = conn
    BY <1>4 DEF SendRow, Consistent, Inv, Tasks
  <2>2. UnderWay(received[c], Append(channel[c], Head(rows[c])), Tail(rows[c]), R, FailedRow, total)
    BY <1>3, <2>1, RowIsSent
  <2> HIDE DEF R, total
  <2>3. Fetches(c)'
    BY <1>2, <2>1, <2>2 DEF Fetches, R, total
  <2>4. Fetched(c)'
    BY <1>2, <1>3, <2>1, <2>3, FetchedNow
  <2>5. QED
    BY <1>1, <2>4, SendingStepsOn
<1>5. CASE ReadFails(c)
  <2>1. /\ channel'[c] = Append(channel[c], FailedRow) /\ rows'[c] = << >>
        /\ received' = received /\ task'[c] = "sending" /\ conn' = conn
        /\ task[c] \in {"holding", "sending"}
    BY <1>5 DEF ReadFails, Consistent, Inv, Tasks
  <2>2. ASSUME verdict[c] = "running"
        PROVE  \E other : UnderWay(received[c], channel[c], << >>, R, FailedRow, other)
    <3>1. << >> \in Seq(R) /\ << >> \in Seq(R \cup {FailedRow})
      OBVIOUS
    <3>2. CASE task[c] = "holding"
      <4>1. received[c] = << >> /\ channel[c] = << >>
        BY <2>2, <3>2 DEF Consistent, Fetched
      <4>2. UnderWay(<< >>, << >>, << >>, R, FailedRow, Len(<< >>) + Len(<< >>) + Len(<< >>))
        BY <3>1 DEF UnderWay
      <4>3. QED
        BY <4>1, <4>2
    <3>3. CASE task[c] = "sending"
      <4>1. received[c] \in Seq(R) /\ channel[c] \in Seq(R \cup {FailedRow})
        BY <1>3, <2>2, <3>3 DEF UnderWay
      <4>2. UnderWay(received[c], channel[c], << >>, R, FailedRow,
                     Len(received[c]) + Len(channel[c]) + Len(<< >>))
        BY <3>1, <4>1 DEF UnderWay
      <4>3. QED
        BY <4>2
    <3>4. QED
      BY <2>1, <3>2, <3>3
  <2>3. ASSUME verdict[c] = "running"
        PROVE  /\ UnderWay(received[c], Append(channel[c], FailedRow), << >>, R, FailedRow, total)
               /\ received[c] # << >> => Call(c).type = ContractTestEvent
    <3>1. UnderWay(received[c], Append(channel[c], FailedRow), << >>, R, FailedRow, total)
      <4> HIDE DEF R, total
      <4>1. QED
        BY <2>2, <2>3, RowFails
    <3>2. received[c] # << >> => Call(c).type = ContractTestEvent
      BY <1>3, <2>1, <2>3 DEF Consistent, Fetched
    <3>3. QED
      BY <3>1, <3>2
  <2> HIDE DEF R, total
  <2>4. verdict[c] = "running" => Fetches(c)'
    BY <1>2, <2>1, <2>3 DEF Fetches, R, total
  <2>5. Fetched(c)'
    BY <1>2, <2>1, <2>3, <2>4, FetchedNow
  <2>6. QED
    BY <1>1, <2>5, SendingStepsOn
<1>6. CASE TaskEnds(c)
  <2>1. /\ task[c] = "sending"
        /\ rows[c] = << >> \/ verdict[c] # "running"
        /\ rows'[c] = << >> /\ channel' = channel /\ received' = received /\ task' = task
        /\ task[c] = "sending"
    BY <1>6 DEF TaskEnds, Consistent, Inv, Tasks
  <2> HIDE DEF R, total
  <2>2. verdict[c] = "running" => Fetches(c)'
    BY <1>2, <1>3, <2>1 DEF Fetches, R, total
  <2>3. Fetched(c)'
    BY <1>2, <1>3, <2>1, <2>2, FetchedNow
  <2>4. QED
    BY <1>1, <2>3, SendingStepsOn
<1>7. QED
  BY <1>4, <1>5, <1>6

LEMMA ReceiveStepsOn ==
  ASSUME Inv, Consistent, NEW c \in Clients, Receive(c)
  PROVE  StepsOn(c)
<1> DEFINE R == RowOf(Call(c).stream)
           total == AllOf(c) - Call(c).after
           head == Head(channel[c])
<1>1. /\ task[c] = "sending" /\ verdict[c] = "running" /\ channel[c] # << >>
      /\ channel'[c] = Tail(channel[c])
      /\ received'[c] = Append(received[c], head)
      /\ rows' = rows /\ task' = task /\ conn' = conn
      /\ backend' = backend /\ test' = test /\ script' = script /\ mark' = mark
      /\ snapshots' = snapshots /\ checkpoints' = checkpoints /\ locks' = locks
  BY DEF Receive, Consistent, fixed, data
<1>2. /\ UnderWay(received[c], channel[c], rows[c], R, FailedRow, total)
      /\ received[c] # << >> => Call(c).type = ContractTestEvent
      /\ conn # c => rows[c] = << >>
  <2>1. Fetching(c) /\ (conn # c => rows[c] = << >>)
    BY <1>1 DEF Consistent, Fetched
  <2>2. QED
    BY <2>1, FetchingIs DEF Fetches
<1>3. Call(c).op = "readStream" /\ Scripted(c) /\ step[c] \in 1..Len(script[c])
  BY <1>1, RunningScript DEF Inv, Tasks, Tasked, Consistent
<1>4. /\ Call(c).type \in {ContractTestEvent, MismatchedEvent}
      /\ Call(c).type = MismatchedEvent => Call(c).expects = "DeserializationFailed"
  BY <1>1, <1>3, RightCall DEF ReadRight, Call, ContractTestEvent, MismatchedEvent
<1>5. /\ DOMAIN channel' = Clients /\ DOMAIN received' = Clients
      /\ \A d \in Clients \ {c} : channel'[d] = channel[d] /\ received'[d] = received[d]
  BY DEF Receive, Consistent
<1>6. /\ FailedRow.type = "StoreFailure" /\ ContractTestEvent # "StoreFailure"
      /\ MismatchedEvent # "StoreFailure" /\ MismatchedEvent # ContractTestEvent
      /\ \A r \in R : r.type = ContractTestEvent
  BY DEF FailedRow, ContractTestEvent, MismatchedEvent, RowOf
<1>7. /\ head.type = "StoreFailure" \/ head \in R
      /\ head \in R => head # FailedRow
  <2>1. head \in R \cup {FailedRow}
    <3> HIDE DEF R
    <3>1. channel[c] \in Seq(R \cup {FailedRow})
      BY <1>2 DEF UnderWay
    <3>2. QED
      BY <1>1, <3>1
  <2> HIDE DEF head, R
  <2>2. QED
    BY <1>6, <2>1
<1> HIDE DEF R
<1>8. CASE head.type = "StoreFailure"
  <2>1. step' = step /\ verdict' = [verdict EXCEPT ![c] = "store_error"]
    BY <1>4, <1>6, <1>8 DEF Receive, Ends
  <2>2. Breaking(c)
    BY <1>1, <2>1 DEF Breaking
  <2>3. Alone(c)
    BY <1>1, <1>5, <2>1 DEF Alone, Consistent, Inv, Logged
  <2>4. Fetched(c)'
    BY <1>1, <2>1 DEF Fetched, Inv, Logged
  <2>5. QED
    BY <2>2, <2>3, <2>4 DEF StepsOn
<1>9. CASE head \in R /\ head.type = Call(c).type
  <2>1. step' = step /\ verdict' = verdict
    BY <1>6, <1>9 DEF Receive
  <2>2. Sending(c)
    BY <2>1, TaskStepsSend
  <2>3. UnderWay(Append(received[c], head), Tail(channel[c]), rows[c], R, FailedRow, total)
    BY <1>1, <1>2, <1>7, <1>9, RowIsReceived
  <2>4. /\ Call(c)' = Call(c) /\ AllOf(c)' = AllOf(c)
        /\ FailedRow' = FailedRow /\ RowOf(Call(c).stream)' = RowOf(Call(c).stream)
    BY <1>1, <2>1 DEF Call, AllOf, FailedRow, RowOf
  <2>5. Fetches(c)'
    BY <1>1, <2>3, <2>4 DEF Fetches, R
  <2>6. (Call(c).type = ContractTestEvent)'
    BY <1>6, <1>9, <2>4
  <2>7. Fetched(c)'
    BY <1>1, <1>2, <2>5, <2>6, FetchedNow
  <2>8. QED
    BY <2>2, <2>7, SendingStepsOn
<1>10. CASE head \in R /\ head.type # Call(c).type
  <2>1. Call(c).expects = "DeserializationFailed"
    BY <1>4, <1>6, <1>10
  <2>2. step' = step /\ verdict' = [verdict EXCEPT ![c] = "passed"]
    BY <1>6, <1>10, <2>1 DEF Receive, Ends
  <2>3. step[c] = Len(script[c])
    BY <1>1, <1>3, <2>1, RunningScript DEF Inv, WellScripted, Harmless, Call
  <2>4. Passes(c)
    BY <2>2, <2>3 DEF Passes
  <2>5. Marked(c)'
    BY <1>1, <1>3, <2>4, MarkedOn DEF Consistent, Remembers
  <2>6. Does(c)
    BY <1>1, <1>3, <2>5 DEF Does
  <2>7. Alone(c)
    BY <1>1, <1>5, <2>2 DEF Alone, Consistent, Inv, Logged
  <2>8. Fetched(c)'
    BY <1>1, <2>2 DEF Fetched, Inv, Logged
  <2>9. QED
    BY <1>1, <2>4, <2>6, <2>7, <2>8 DEF StepsOn, Advancing
<1>11. QED
  BY <1>7, <1>8, <1>9, <1>10

LEMMA StreamEndsStepsOn ==
  ASSUME Inv, Consistent, NEW c \in Clients, StreamEnds(c)
  PROVE  StepsOn(c)
<1> DEFINE R == RowOf(Call(c).stream)
           total == AllOf(c) - Call(c).after
<1>1. /\ task[c] = "sending" /\ verdict[c] = "running" /\ channel[c] = << >> /\ conn # c
      /\ Accepts(c, StreamIsExpected(Call(c), received[c]))
      /\ task' = [task EXCEPT ![c] = "none"]
      /\ backend' = backend /\ test' = test /\ script' = script /\ mark' = mark
      /\ snapshots' = snapshots /\ checkpoints' = checkpoints /\ locks' = locks
      /\ conn' = conn /\ rows' = rows /\ channel' = channel /\ received' = received
  BY DEF StreamEnds, fixed, data
<1>2. Call(c).op = "readStream" /\ Scripted(c)
  BY <1>1 DEF Inv, Tasks, Tasked, Consistent
<1>3. ReadRight(script[c], step[c], c)
  BY <1>1, <1>2, RightCall
<1>4. UnderWay(received[c], << >>, << >>, R, FailedRow, total)
  <2>1. Fetching(c) /\ rows[c] = << >>
    BY <1>1 DEF Consistent, Fetched
  <2>2. QED
    BY <1>1, <2>1, FetchingIs DEF Fetches
<1>5. received[c] \in Seq(R) /\ Len(received[c]) = total
  <2> HIDE DEF R, total
  <2>1. received[c] \in Seq(R) /\ Len(received[c]) + Len(<< >>) + Len(<< >>) = total
    BY <1>4 DEF UnderWay
  <2>2. QED
    BY <2>1
<1>6. AllOf(c) \in Nat
  <2>1. Cardinality(OfStream(c)) = AllOf(c)
    BY <1>1, <1>3, StreamIsCounted DEF Inv
  <2>2. Cardinality(OfStream(c)) \in Nat
    BY RowsOfStream DEF OfStream, Inv
  <2>3. QED
    BY <2>1, <2>2
<1>7. StreamIsExpected(Call(c), received[c])
  BY <1>3, <1>5, <1>6, WholeIsExpected
<1>8. Passes(c)
  BY <1>1, <1>7, AnswersPass
<1>9. \A d \in Clients \ {c} : step'[d] = step[d] /\ verdict'[d] = verdict[d]
  BY <1>8, PassesElsewhere
<1>10. Alone(c)
  BY <1>1, <1>9 DEF Alone, Consistent, Inv, Tasks
<1>11. Fetched(c)'
  BY <1>1 DEF Fetched, Inv, Tasks
<1>12. Marked(c)'
  BY <1>1, <1>2, <1>8, MarkedOn DEF Remembers, Consistent
<1>13. Does(c)
  BY <1>1, <1>2, <1>12 DEF Does
<1>14. QED
  BY <1>1, <1>8, <1>10, <1>11, <1>13 DEF StepsOn, Advancing

-------------------------------------------------------------------------------
(***************************************************************************)
(* A test that reads the events of others has the store to itself: what    *)
(* the store holds is what the test has appended.                          *)
(***************************************************************************)
LEMMA StoreToItself ==
  ASSUME Inv, Consistent, NEW c \in Clients, test[c] \in ReadsForeignEvents
  PROVE  Holds(AcceptedBatches(c))
<1> DEFINE n == Len(log)
<1>1. ASSUME NEW d \in Clients \ {c} PROVE StreamsIn(script[d]) = {}
  <2>1. test[d] = "none"
    BY DEF Consistent, Isolated
  <2>2. "none" \notin DOMAIN SuiteFor(d)
    BY DEF SuiteFor
  <2>3. script[d] = << >>
    BY <2>1, <2>2 DEF Consistent, Scripted
  <2>4. QED
    BY <2>3 DEF StreamsIn
<1>2. \A s \in StreamsIn(script[c]) : c \in ToSet(s)
  <2>1. CASE script[c] = << >>
    BY <2>1 DEF StreamsIn
  <2>2. CASE WellScripted(script[c], c)
    BY <2>2, AcceptedIsNamed DEF Separate
  <2>3. QED
    BY <2>1, <2>2 DEF Inv, Logged, Progress
<1>3. \A s \in Named : c \in ToSet(s)
  BY <1>1, <1>2 DEF Named
<1>4. log \in Seq(LogRow)
  BY DEF Inv, Logged
<1>5. /\ n \in Nat /\ DOMAIN log = 1..n
      /\ \A i \in 1..n : log[i].stream \in Named /\ log[i].type = ContractTestEvent
  <2>1. \A i \in 1..n : log[i] \in LogRow
    BY <1>4
  <2>2. n \in Nat /\ DOMAIN log = 1..n
    BY <1>4
  <2>3. QED
    BY <2>1, <2>2 DEF LogRow
<1>6. Owned(log, c) = 1..n
  BY <1>3, <1>5 DEF Owned
<1>7. Cardinality(1..n) = n /\ \A i \in 1..n : Rank(1..n, i) = i
  <2> HIDE DEF n
  <2>1. RankedFrom(0, n)
    BY <1>5, RanksOfInterval
  <2>2. (0 + 1)..(0 + n) = 1..n /\ \A i \in 1..n : i - 0 = i
    BY <1>5
  <2>3. QED
    BY <2>1, <2>2 DEF RankedFrom
<1>8. Mirrors(log, c, AcceptedBatches(c))
  BY DEF Inv, Logged, Mirrored
<1>9. QED
  BY <1>5, <1>6, <1>7, <1>8 DEF Mirrors, Holds

LEMMA AcceptedSoFar ==
  ASSUME Inv, NEW c \in Clients, verdict[c] = "running"
  PROVE  AcceptedBatches(c) = Accumulated(script[c], step[c] - 1)
<1>1. Answered(c) = step[c] - 1
  BY RunningScript DEF Inv
<1>2. QED
  BY <1>1, Zenon DEF AcceptedBatches, Accumulated

\* a test whose first call appends, and whose others read
LEMMA AppendedFirst ==
  ASSUME Inv, NEW c \in Clients, verdict[c] = "running", Call(c).op = "readEvents",
         NEW versions, NEW batch, script[c][1] = Appends(versions, batch),
         \A i \in 2..Len(script[c]) : script[c][i].op = "readEvents"
  PROVE  AcceptedBatches(c) = batch
<1> DEFINE sc == script[c]
           k == step[c] - 1
<1>1. WellScripted(sc, c) /\ step[c] \in 1..Len(sc) /\ Len(sc) \in Nat
  BY RunningScript DEF Inv
<1>2. sc[1].op = "append" /\ Accepted(sc[1]) = batch
  BY DEF Appends, AppendTo, Accepted
<1>3. step[c] # 1
  BY <1>2 DEF Call
<1>4. k \in 1..Len(sc) /\ \A i \in 2..k : i \in 2..Len(sc)
  BY <1>1, <1>3
<1>5. \A i \in 2..k : Accepted(sc[i]) = << >>
  BY <1>4 DEF Accepted
<1>6. AcceptedBatches(c) = Accumulated(sc, k)
  BY AcceptedSoFar
<1> HIDE DEF sc, k
<1>7. Accumulated(sc, k) = Accepted(sc[1])
  BY <1>1, <1>4, <1>5, OnceAccumulated
<1>8. QED
  BY <1>2, <1>6, <1>7

LEMMA AppendedThenRead ==
  ASSUME Inv, NEW c \in Clients, verdict[c] = "running", Call(c).op = "readEvents",
         NEW versions, NEW batch, Len(script[c]) = 2, script[c][1] = Appends(versions, batch),
         script[c][2].op = "readEvents"
  PROVE  AcceptedBatches(c) = batch /\ Call(c) = script[c][2]
<1>1. AcceptedBatches(c) = batch
  BY AppendedFirst
<1>2. step[c] \in 1..2
  BY RunningScript DEF Inv
<1>3. step[c] # 1
  BY DEF Appends, AppendTo, Call
<1>4. QED
  BY <1>1, <1>2, <1>3 DEF Call

-------------------------------------------------------------------------------
ReadingTests == ReadsForeignEvents \cup {"stream_pattern_single_char"}

ReadsNone(sc) == \A i \in 1..Len(sc) : sc[i].op # "readEvents"

LEMMA KeepersReadNone ==
  ASSUME NEW c
  PROVE  /\ ReadsNone(SnapshotLoadMissing(c))
         /\ ReadsNone(SnapshotRoundTripAndMonotonic(c))
         /\ ReadsNone(CheckpointSaveAndLoad(c))
         /\ ReadsNone(CheckpointUpdateOverwrites(c))
         /\ ReadsNone(CheckpointLoadMissingReturnsNone(c))
         /\ ReadsNone(CheckpointIndependentSubscriptions(c))
         /\ ReadsNone(CoordinationAcquireLeadership(c))
         /\ ReadsNone(CoordinationSecondInstanceBlocked(c))
         /\ ReadsNone(CoordinationIndependentSubscriptions(c))
         /\ ReadsNone(CoordinationLeadershipReleasedOnGuardDrop(c))
<1> USE DEF ReadsNone, SavesSnapshot, LoadsSnapshot, SavesCheckpoint, LoadsCheckpoint, Acquires, Drops
<1>1. ReadsNone(SnapshotLoadMissing(c))
  BY DEF SnapshotLoadMissing
<1>2. ReadsNone(SnapshotRoundTripAndMonotonic(c))
  BY DEF SnapshotRoundTripAndMonotonic
<1>3. ReadsNone(CheckpointSaveAndLoad(c)) /\ ReadsNone(CheckpointUpdateOverwrites(c))
  BY DEF CheckpointSaveAndLoad, CheckpointUpdateOverwrites
<1>4. ReadsNone(CheckpointLoadMissingReturnsNone(c))
  BY DEF CheckpointLoadMissingReturnsNone
<1>5. ReadsNone(CheckpointIndependentSubscriptions(c))
  BY DEF CheckpointIndependentSubscriptions
<1>6. ReadsNone(CoordinationAcquireLeadership(c)) /\ ReadsNone(CoordinationSecondInstanceBlocked(c))
  BY DEF CoordinationAcquireLeadership, CoordinationSecondInstanceBlocked
<1>7. ReadsNone(CoordinationIndependentSubscriptions(c))
  BY DEF CoordinationIndependentSubscriptions
<1>8. ReadsNone(CoordinationLeadershipReleasedOnGuardDrop(c))
  BY DEF CoordinationLeadershipReleasedOnGuardDrop
<1>9. QED
  BY <1>1, <1>2, <1>3, <1>4, <1>5, <1>6, <1>7, <1>8

LEMMA StreamReadersReadNone ==
  ASSUME NEW c
  PROVE  /\ ReadsNone(ReadStreamAfterExcludesReconstructedEvents(c))
         /\ ReadsNone(BasicReadWrite(c))
         /\ ReadsNone(ConcurrentVersionConflicts(c))
         /\ ReadsNone(ReadOnlyParticipantConflictPreservesAtomicity(c))
         /\ ReadsNone(CurrentReadOnlyParticipantAllowsWrite(c))
         /\ ReadsNone(StreamIsolation(c))
         /\ ReadsNone(MissingStreamReads(c))
         /\ ReadsNone(ConflictPreservesAtomicity(c))
         /\ ReadsNone(ReadStreamErrorsOnTypeMismatch(c))
         /\ ReadsNone(PersistsLargeBatchAcrossChunkBoundary(c))
<1> USE DEF ReadsNone
<1>0. /\ \A v, b : Appends(v, b).op = "append"
      /\ \A v, b, e : AppendTo(v, b, e).op = "append"
      /\ \A s, a, n : ReadsAfter(s, a, n).op = "readStream"
      /\ \A s, n : Reads(s, n).op = "readStream"
      /\ \A s : ReadsMismatched(s).op = "readStream"
  BY DEF Appends, AppendTo, ReadsAfter, Reads, ReadsMismatched
<1>1. ReadsNone(ReadStreamAfterExcludesReconstructedEvents(c))
  BY <1>0 DEF ReadStreamAfterExcludesReconstructedEvents
<1>2. ReadsNone(BasicReadWrite(c)) /\ ReadsNone(MissingStreamReads(c))
  BY <1>0 DEF BasicReadWrite, MissingStreamReads
<1>3. ReadsNone(ConcurrentVersionConflicts(c))
  BY <1>0 DEF ConcurrentVersionConflicts
<1>4. ReadsNone(ReadOnlyParticipantConflictPreservesAtomicity(c))
  BY <1>0 DEF ReadOnlyParticipantConflictPreservesAtomicity
<1>5. ReadsNone(CurrentReadOnlyParticipantAllowsWrite(c))
  BY <1>0 DEF CurrentReadOnlyParticipantAllowsWrite
<1>6. ReadsNone(StreamIsolation(c))
  BY <1>0 DEF StreamIsolation
<1>7. ReadsNone(ConflictPreservesAtomicity(c))
  BY <1>0 DEF ConflictPreservesAtomicity
<1>8. ReadsNone(ReadStreamErrorsOnTypeMismatch(c))
  BY <1>0 DEF ReadStreamErrorsOnTypeMismatch
<1>9. ReadsNone(PersistsLargeBatchAcrossChunkBoundary(c))
  BY <1>0 DEF PersistsLargeBatchAcrossChunkBoundary
<1>10. QED
  BY <1>1, <1>2, <1>3, <1>4, <1>5, <1>6, <1>7, <1>8, <1>9

LEMMA OnlyReadingTestsRead ==
  ASSUME NEW c, NEW t \in DOMAIN SuiteFor(c), t \notin ReadingTests
  PROVE  ReadsNone(SuiteFor(c)[t])
BY KeepersReadNone, StreamReadersReadNone DEF SuiteFor, ReadingTests, ReadsForeignEvents

LEMMA CallKinds ==
  /\ \A v, b : Appends(v, b).op = "append" /\ Accepted(Appends(v, b)) = b
  /\ \A f, l, from : Selects(f, l, from).op = "readEvents"
BY DEF Appends, AppendTo, Selects, ReadsEvents, Accepted

\* what every test of the reader starts from
Reading(c) ==
  /\ Inv /\ Consistent
  /\ verdict[c] = "running" /\ Call(c).op = "readEvents"

LEMMA ResumptionReads ==
  ASSUME NEW c \in Clients, Reading(c), test[c] = "position_based_resumption"
  PROVE  /\ Pages(c)
         /\ (step[c] = 2 /\ Call(c).remember = 3) \/ (step[c] = 3 /\ Call(c).remember = 0)
<1> DEFINE S == {Stream(c, "stream")}
           batch == Times(5, Stream(c, "stream"))
<1>1. script[c] = PositionBasedResumption(c)
  <2>1. script[c] = SuiteFor(c)["position_based_resumption"]
    BY RunningTest DEF Reading, Consistent
  <2>2. SuiteFor(c)["position_based_resumption"] = PositionBasedResumption(c)
    BY DEF SuiteFor
  <2>3. QED
    BY <2>1, <2>2
<1>2. /\ Len(script[c]) = 3
      /\ script[c][1] = Appends(At(Stream(c, "stream"), 0), batch)
      /\ script[c][2] = ReadsEvents(AllStreams, Unlimited, Times(5, S), 3, FALSE)
      /\ script[c][3] = ReadsEvents(AllStreams, Unlimited, Times(2, S), 0, TRUE)
  BY <1>1 DEF PositionBasedResumption
<1>3. /\ script[c][2].op = "readEvents" /\ script[c][2].remember = 3
      /\ script[c][3].op = "readEvents" /\ script[c][3].remember = 0
  BY <1>2 DEF ReadsEvents
<1>4. \A i \in 2..Len(script[c]) : script[c][i].op = "readEvents"
  <2>1. \A i \in 2..Len(script[c]) : i = 2 \/ i = 3
    BY <1>2
  <2>2. QED
    BY <1>3, <2>1
<1>5. AcceptedBatches(c) = batch
  BY <1>2, <1>4, AppendedFirst DEF Reading
<1>6. Holds(batch)
  <2>1. test[c] \in ReadsForeignEvents
    BY DEF ReadsForeignEvents
  <2>2. QED
    BY <1>5, <2>1, StoreToItself DEF Reading
<1>7. step[c] \in 1..3
  BY <1>2, RunningScript DEF Reading, Inv
<1>8. step[c] # 1
  BY <1>2, CallKinds DEF Reading, Call
<1>9. CASE step[c] = 2
  <2>1. Call(c) = PositionBasedResumption(c)[2] /\ Call(c).remember = 3
    BY <1>1, <1>3, <1>9 DEF Call
  <2>2. QED
    BY <1>6, <1>9, <2>1, ResumptionPages DEF Reading, Consistent
<1>10. CASE step[c] = 3
  <2>1. Call(c) = PositionBasedResumption(c)[3] /\ Call(c).remember = 0
    BY <1>1, <1>3, <1>10 DEF Call
  <2>2. mark[c] = 3
    BY <1>10 DEF Reading, Consistent, Remembers, Marked
  <2>3. QED
    BY <1>6, <1>10, <2>1, <2>2, ResumptionPages DEF Reading, Consistent
<1>11. QED
  BY <1>7, <1>8, <1>9, <1>10

LEMMA LimitingReads ==
  ASSUME NEW c \in Clients, Reading(c), test[c] = "batch_limiting"
  PROVE  Pages(c)
<1> DEFINE S == {Stream(c, "stream")}
           batch == Times(4, Stream(c, "stream"))
<1>1. script[c] = BatchLimiting(c)
  <2>1. script[c] = SuiteFor(c)["batch_limiting"]
    BY RunningTest DEF Reading, Consistent
  <2>2. SuiteFor(c)["batch_limiting"] = BatchLimiting(c)
    BY DEF SuiteFor
  <2>3. QED
    BY <2>1, <2>2
<1>2. /\ Len(script[c]) = 2
      /\ script[c][1] = Appends(At(Stream(c, "stream"), 0), batch)
      /\ script[c][2] = Selects(AllStreams, PageLimit, Times(PageLimit, S))
  BY <1>1 DEF BatchLimiting, MoreThanAPage
<1>3. AcceptedBatches(c) = batch /\ Call(c) = script[c][2]
  BY <1>2, CallKinds, AppendedThenRead DEF Reading
<1>4. test[c] \in ReadsForeignEvents
  BY DEF ReadsForeignEvents
<1>5. QED
  BY <1>1, <1>3, <1>4, StoreToItself, LimitingPages DEF Reading, Consistent

LEMMA PrefixReads ==
  ASSUME NEW c \in Clients, Reading(c), test[c] = "stream_prefix_filtering"
  PROVE  Pages(c)
<1> DEFINE batch == << Account(<< "1", "-", c >>), Account(<< "2", "-", c >>), Order(<< "1", "-", c >>) >>
           S == {Account(<< "1", "-", c >>), Account(<< "2", "-", c >>), Order(<< "1", "-", c >>)}
<1>1. script[c] = StreamPrefixFiltering(c)
  <2>1. script[c] = SuiteFor(c)["stream_prefix_filtering"]
    BY RunningTest DEF Reading, Consistent
  <2>2. SuiteFor(c)["stream_prefix_filtering"] = StreamPrefixFiltering(c)
    BY DEF SuiteFor
  <2>3. QED
    BY <2>1, <2>2
<1>2. /\ Len(script[c]) = 2
      /\ script[c][1] = Appends(AtZero(S), batch)
      /\ script[c][2].op = "readEvents"
  BY <1>1, CallKinds DEF StreamPrefixFiltering
<1>3. AcceptedBatches(c) = batch /\ Call(c) = script[c][2]
  <2> HIDE DEF S, batch
  <2>1. QED
    BY <1>2, AppendedThenRead DEF Reading
<1>4. test[c] \in ReadsForeignEvents
  BY DEF ReadsForeignEvents
<1>5. QED
  BY <1>1, <1>3, <1>4, StoreToItself, PrefixPages DEF Reading, Consistent

LEMMA PrefixMatchReads ==
  ASSUME NEW c \in Clients, Reading(c), test[c] = "stream_prefix_requires_prefix_match"
  PROVE  Pages(c)
<1> DEFINE account == Account(<< "123", "-", c >>)
           myAccount == << "my", "-" >> \o Account(<< "456", "-", c >>)
           order == Order(<< "789", "-", c >>)
           batch == << account, myAccount, order >>
           S == {account, myAccount, order}
<1>1. script[c] = StreamPrefixRequiresPrefixMatch(c)
  <2>1. script[c] = SuiteFor(c)["stream_prefix_requires_prefix_match"]
    BY RunningTest DEF Reading, Consistent
  <2>2. SuiteFor(c)["stream_prefix_requires_prefix_match"] = StreamPrefixRequiresPrefixMatch(c)
    BY DEF SuiteFor
  <2>3. QED
    BY <2>1, <2>2
<1>2. /\ Len(script[c]) = 2
      /\ script[c][1] = Appends(AtZero(S), batch)
      /\ script[c][2].op = "readEvents"
  BY <1>1, CallKinds DEF StreamPrefixRequiresPrefixMatch
<1>3. AcceptedBatches(c) = batch /\ Call(c) = script[c][2]
  <2> HIDE DEF S, batch
  <2>1. QED
    BY <1>2, AppendedThenRead DEF Reading
<1>4. test[c] \in ReadsForeignEvents
  BY DEF ReadsForeignEvents
<1>5. QED
  BY <1>1, <1>3, <1>4, StoreToItself, PrefixMatchPages DEF Reading, Consistent

LEMMA ClassReads ==
  ASSUME NEW c \in Clients, Reading(c), test[c] = "stream_pattern_char_class"
  PROVE  Pages(c)
<1> DEFINE batch == << Account(<< "7", "-", c >>), Account(<< "a", "-", c >>) >>
           S == {Account(<< "7", "-", c >>), Account(<< "a", "-", c >>)}
<1>1. script[c] = StreamPatternCharClass(c)
  <2>1. script[c] = SuiteFor(c)["stream_pattern_char_class"]
    BY RunningTest DEF Reading, Consistent
  <2>2. SuiteFor(c)["stream_pattern_char_class"] = StreamPatternCharClass(c)
    BY DEF SuiteFor
  <2>3. QED
    BY <2>1, <2>2
<1>2. /\ Len(script[c]) = 2
      /\ script[c][1] = Appends(AtZero(S), batch)
      /\ script[c][2].op = "readEvents"
  <2> DEFINE from == << {Account(<< "7", "-", c >>)} >>
             filter == AccountPattern(<< Class("", {"1", "2", "7"}), Asterisk >>)
  <2>1. Len(StreamPatternCharClass(c)) = 2
    BY DEF StreamPatternCharClass
  <2>2. StreamPatternCharClass(c)[1] = Appends(AtZero(S), batch)
    BY DEF StreamPatternCharClass
  <2>3. StreamPatternCharClass(c)[2] = Selects(filter, Unlimited, from)
    BY SecondOfTwo, Zenon DEF StreamPatternCharClass
  <2>4. StreamPatternCharClass(c)[2].op = "readEvents"
    BY <2>3, CallKinds
  <2>5. QED
    BY <1>1, <2>1, <2>2, <2>4
<1>3. AcceptedBatches(c) = batch /\ Call(c) = script[c][2]
  <2> HIDE DEF S, batch
  <2>1. QED
    BY <1>2, AppendedThenRead DEF Reading
<1>4. test[c] \in ReadsForeignEvents
  BY DEF ReadsForeignEvents
<1>5. QED
  BY <1>1, <1>3, <1>4, StoreToItself, ClassPages DEF Reading, Consistent

LEMMA PatternReads ==
  ASSUME NEW c \in Clients, Reading(c), test[c] = "stream_pattern_filtering"
  PROVE  Pages(c)
<1> DEFINE batch == OrdersOf(c) \o AccountsOf(c)
           S == ToSet(OrdersOf(c)) \cup {Account(<< "1", "-", c >>), Account(<< "2", "-", c >>)}
<1>1. script[c] = StreamPatternFiltering(c)
  <2>1. script[c] = SuiteFor(c)["stream_pattern_filtering"]
    BY RunningTest DEF Reading, Consistent
  <2>2. SuiteFor(c)["stream_pattern_filtering"] = StreamPatternFiltering(c)
    BY DEF SuiteFor
  <2>3. QED
    BY <2>1, <2>2
<1>2. /\ Len(script[c]) = 2
      /\ script[c][1] = Appends(AtZero(S), batch)
      /\ script[c][2].op = "readEvents"
  BY <1>1, CallKinds DEF StreamPatternFiltering, OrdersOf, AccountsOf, MoreThanAPage
<1>3. AcceptedBatches(c) = batch /\ Call(c) = script[c][2]
  <2> HIDE DEF S, batch
  <2>1. QED
    BY <1>2, AppendedThenRead DEF Reading
<1>4. test[c] \in ReadsForeignEvents
  BY DEF ReadsForeignEvents
<1>5. Holds(batch)
  BY <1>3, <1>4, StoreToItself DEF Reading
<1>6. Call(c) = StreamPatternFiltering(c)[2] /\ Known
  BY <1>1, <1>3 DEF Reading, Consistent
<1>7. QED
  BY <1>5, <1>6, PatternPages, Zenon

LEMMA SingleCharReads ==
  ASSUME NEW c \in Clients, Reading(c), test[c] = "stream_pattern_single_char"
  PROVE  Pages(c)
<1> DEFINE accountX == Account(<< "x", c >>)
           accountXY == Account(<< "x", "y", c >>)
           order == Order(<< "z", c >>)
           S == {accountX, accountXY, order}
<1>1. script[c] = StreamPatternSingleChar(c)
  <2>1. script[c] = SuiteFor(c)["stream_pattern_single_char"]
    BY RunningTest DEF Reading, Consistent
  <2>2. SuiteFor(c)["stream_pattern_single_char"] = StreamPatternSingleChar(c)
    BY DEF SuiteFor
  <2>3. QED
    BY <2>1, <2>2
<1>2. /\ Len(script[c]) = 2
      /\ script[c][1] = Appends(AtZero(S), SingleCharBatch(c))
      /\ script[c][2].op = "readEvents"
  BY <1>1, CallKinds DEF StreamPatternSingleChar, SingleCharBatch
<1>3. AcceptedBatches(c) = SingleCharBatch(c) /\ Call(c) = script[c][2]
  <2> HIDE DEF S
  <2>1. QED
    BY <1>2, AppendedThenRead DEF Reading
<1>4. log \in Seq(LogRow) /\ Mirrors(log, c, SingleCharBatch(c))
  BY <1>3 DEF Reading, Inv, Logged, Mirrored
<1>5. ASSUME NEW s \in Named PROVE s \in Seq(ToSet(s))
  <2>1. PICK d \in Clients : s \in StreamsIn(script[d])
    BY DEF Named
  <2>2. WellScripted(script[d], d)
    BY <2>1 DEF Reading, Inv, Logged, Progress, StreamsIn
  <2>3. QED
    BY <2>1, <2>2, AcceptedIsNamed DEF Separate
<1>6. \A i \in 1..Len(log) : log[i].stream \in Named /\ log[i].type = ContractTestEvent
  <2>1. \A i \in 1..Len(log) : log[i] \in LogRow
    BY <1>4
  <2>2. QED
    BY <2>1 DEF LogRow
<1>7. /\ \A i \in 1..Len(log) : log[i].type = ContractTestEvent
      /\ \A i \in 1..Len(log) : log[i].stream \in Seq(ToSet(log[i].stream))
  BY <1>5, <1>6
<1>8. Call(c) = StreamPatternSingleChar(c)[2] /\ Known
  BY <1>1, <1>3 DEF Reading, Consistent
<1>9. QED
  BY <1>4, <1>7, <1>8, SingleCharPages

-------------------------------------------------------------------------------
\* sequences one after the other
LEMMA TwoInARow ==
  ASSUME NEW x, NEW y
  PROVE  << x >> \o << y >> = << x, y >>
<1> DEFINE S == {x, y}
           l == << x >> \o << y >>
           r == << x, y >>
<1>1. l \in Seq(S) /\ r \in Seq(S)
  OBVIOUS
<1>2. Len(l) = Len(r) /\ \A i \in 1..Len(l) : l[i] = r[i]
  OBVIOUS
<1> HIDE DEF l, r, S
<1>3. QED
  BY <1>1, <1>2, SeqEqual DEF l, r

LEMMA ThreeInARow ==
  ASSUME NEW x, NEW y, NEW z
  PROVE  << x, y >> \o << z >> = << x, y, z >>
<1> DEFINE S == {x, y, z}
           l == << x, y >> \o << z >>
           r == << x, y, z >>
<1>1. l \in Seq(S) /\ r \in Seq(S)
  OBVIOUS
<1>2. Len(l) = Len(r) /\ \A i \in 1..Len(l) : l[i] = r[i]
  OBVIOUS
<1> HIDE DEF l, r, S
<1>3. QED
  BY <1>1, <1>2, SeqEqual DEF l, r

LEMMA OrderingReads ==
  ASSUME NEW c \in Clients, Reading(c), test[c] = "event_ordering_across_streams"
  PROVE  Pages(c)
<1> DEFINE sc == script[c]
           a == Stream(c, "stream-a")
           b == Stream(c, "stream-b")
           d == Stream(c, "stream-c")
<1>1. sc = EventOrderingAcrossStreams(c)
  <2>1. sc = SuiteFor(c)["event_ordering_across_streams"]
    BY RunningTest DEF Reading, Consistent
  <2>2. SuiteFor(c)["event_ordering_across_streams"] = EventOrderingAcrossStreams(c)
    BY DEF SuiteFor
  <2>3. QED
    BY <2>1, <2>2
<1>2. /\ Len(sc) = 4
      /\ sc[1] = Appends(At(a, 0), << a >>)
      /\ sc[2] = Appends(At(b, 0), << b >>)
      /\ sc[3] = Appends(At(d, 0), << d >>)
      /\ sc[4].op = "readEvents"
  BY <1>1, CallKinds DEF EventOrderingAcrossStreams
<1>3. WellScripted(sc, c) /\ step[c] \in 1..Len(sc)
  BY RunningScript DEF Reading, Inv
<1>4. Call(c) = sc[step[c]] /\ Call(c).op = "readEvents"
  BY DEF Call, Reading
<1>5. AcceptedBatches(c) = Accumulated(sc, step[c] - 1)
  BY AcceptedSoFar DEF Reading
<1>6. Holds(AcceptedBatches(c))
  <2>1. test[c] \in ReadsForeignEvents
    BY DEF ReadsForeignEvents
  <2>2. QED
    BY <2>1, StoreToItself DEF Reading
<1> HIDE DEF sc, a, b, d
<1>7. step[c] = 4
  <2>1. sc[1].op = "append" /\ sc[2].op = "append" /\ sc[3].op = "append"
    BY <1>2, CallKinds
  <2>2. step[c] \in 1..4
    BY <1>2, <1>3
  <2>3. QED
    BY <1>4, <2>1, <2>2
<1>8. Accepted(sc[1]) = << a >> /\ Accepted(sc[2]) = << b >> /\ Accepted(sc[3]) = << d >>
  BY <1>2, CallKinds
<1>9. Accumulated(sc, 1) = << a >>
  <2>1. 1 \in 1..Len(sc) /\ \A i \in 2..1 : Accepted(sc[i]) = << >>
    BY <1>2
  <2>2. Accumulated(sc, 1) = Accepted(sc[1])
    BY <1>3, <2>1, OnceAccumulated
  <2>3. QED
    BY <1>8, <2>2
<1>10. /\ Accumulated(sc, 2) = Accumulated(sc, 1) \o << b >>
       /\ Accumulated(sc, 3) = Accumulated(sc, 2) \o << d >>
  <2>1. 2 \in 1..Len(sc) /\ 3 \in 1..Len(sc) /\ 2 - 1 = 1 /\ 3 - 1 = 2
    BY <1>2
  <2>2. /\ Accumulated(sc, 2) = Accumulated(sc, 2 - 1) \o Accepted(sc[2])
        /\ Accumulated(sc, 3) = Accumulated(sc, 3 - 1) \o Accepted(sc[3])
    BY <1>3, <2>1, AccumulatesOn
  <2>3. QED
    BY <1>8, <2>1, <2>2, Zenon
<1>11. << a >> \o << b >> = << a, b >> /\ << a, b >> \o << d >> = << a, b, d >>
  BY TwoInARow, ThreeInARow
<1>12. AcceptedBatches(c) = << a, b, d >>
  <2>1. 4 - 1 = 3
    OBVIOUS
  <2>2. QED
    BY <1>5, <1>7, <1>9, <1>10, <1>11, <2>1, Zenon
<1>13. Holds(<< a, b, d >>)
  BY <1>6, <1>12, Zenon
<1>14. Call(c) = EventOrderingAcrossStreams(c)[4]
  BY <1>1, <1>4, <1>7
<1>15. Known
  BY DEF Reading, Consistent
<1>16. QED
  BY <1>13, <1>14, <1>15, OrderingPages, Zenon DEF a, b, d

(***************************************************************************)
(* Whatever it reads, the page is the one the test expects.                *)
(***************************************************************************)
LEMMA PageIsExpected ==
  ASSUME NEW c \in Clients, Reading(c)
  PROVE  /\ Pages(c)
         /\ test[c] = "position_based_resumption" =>
               (step[c] = 2 /\ Call(c).remember = 3) \/ (step[c] = 3 /\ Call(c).remember = 0)
<1>1. /\ test[c] \in DOMAIN SuiteFor(c) /\ script[c] = SuiteFor(c)[test[c]]
      /\ step[c] \in 1..Len(script[c])
  BY RunningTest, RunningScript DEF Reading, Consistent, Inv
<1>2. test[c] \in ReadingTests
  BY <1>1, OnlyReadingTestsRead DEF ReadsNone, Reading, Call
<1>3. QED
  BY <1>2, ResumptionReads, LimitingReads, PrefixReads, PrefixMatchReads, ClassReads, PatternReads,
     SingleCharReads, OrderingReads DEF ReadingTests, ReadsForeignEvents

LEMMA ReadEventsStepsOn ==
  ASSUME Inv, Consistent, NEW c \in Clients, ReadEvents(c)
  PROVE  StepsOn(c)
<1> DEFINE page == PageOf(c)
<1>1. /\ Executes(c, "readEvents") /\ Returns(c)
      /\ Accepts(c, EventsAreExpected(c, page))
      /\ mark' = IF Call(c).remember \in 1..Cardinality(page)
                 THEN [mark EXCEPT ![c] = Nth(page, Call(c).remember)]
                 ELSE mark
      /\ snapshots' = snapshots /\ checkpoints' = checkpoints /\ locks' = locks
      /\ script' = script /\ test' = test
  BY DEF ReadEvents, PageOf, AfterOf, data, Returns, fixed
<1>2. verdict[c] = "running" /\ Call(c).op = "readEvents"
  BY <1>1, ExecutesAlone
<1>3. Reading(c)
  BY <1>2 DEF Reading
<1>4. PICK a, k : /\ PageAt(c, a, k)
                  /\ Call(c).remember # 0 => Call(c).remember = 3 /\ a = 0 /\ k = 5
  BY <1>3, PageIsExpected DEF Pages
<1> HIDE DEF page
<1>5. /\ EventsAreExpected(c, page) /\ Cardinality(page) = k
      /\ \A j \in 1..k : Nth(page, j) = a + j
  BY <1>4 DEF PageAt, page
<1>6. Passes(c)
  BY <1>1, <1>2, <1>5, AnswersPass
<1>7. DOMAIN mark' = Clients /\ \A d \in Clients \ {c} : mark'[d] = mark[d]
  BY <1>1 DEF Consistent
<1>8. Alone(c) /\ Fetched(c)'
  BY <1>1, <1>6, <1>7, ReturnsAlone
<1>9. Marked(c)'
  <2> SUFFICES ASSUME test[c] = "position_based_resumption", step'[c] = 3 PROVE mark'[c] = 3
    BY <1>1 DEF Marked
  <2>1. CASE step[c] = 2 /\ Call(c).remember = 3
    <3>1. a = 0 /\ k = 5
      BY <1>4, <2>1
    <3>2. Nth(page, 3) = 3
      BY <1>5, <3>1
    <3>3. 3 \in 1..Cardinality(page)
      BY <1>5, <3>1
    <3>4. QED
      BY <1>1, <2>1, <3>2, <3>3 DEF Consistent
  <2>2. CASE step[c] = 3 /\ Call(c).remember = 0
    <3>1. mark[c] = 3
      BY <1>2, <2>2 DEF Consistent, Remembers, Marked
    <3>2. 0 \notin 1..Cardinality(page)
      OBVIOUS
    <3>3. QED
      BY <1>1, <2>2, <3>1, <3>2
  <2>3. QED
    BY <1>3, <2>1, <2>2, PageIsExpected
<1>10. Does(c)
  BY <1>1, <1>2, <1>9 DEF Does
<1>11. QED
  BY <1>2, <1>6, <1>8, <1>10 DEF StepsOn, Advancing

-------------------------------------------------------------------------------
(***************************************************************************)
(* The inductive invariant, and the theorem.                               *)
(***************************************************************************)
LEMMA ConsistentInit == Init => Consistent
<1> SUFFICES ASSUME Init PROVE Consistent
  OBVIOUS
<1>1. Known
  BY BackendsAssumption DEF Init, Known
<1>2. Isolated(test) /\ \A c \in Clients : test[c] \in DOMAIN SuiteFor(c) \cup {"none"}
  BY SchedulesAssumption DEF Init
<1>3. DOMAIN mark = Clients /\ DOMAIN channel = Clients /\ DOMAIN received = Clients
  BY DEF Init
<1>4. ASSUME NEW c \in Clients PROVE Scripted(c)
  <2>1. script[c] = IF test[c] = "none" THEN << >> ELSE SuiteFor(c)[test[c]]
    BY DEF Init
  <2>2. QED
    BY <1>2, <2>1 DEF Scripted
<1>5. ASSUME NEW c \in Clients PROVE Fetched(c) /\ verdict[c] # "assertion"
  BY DEF Init, Fetched
<1>6. ASSUME NEW c \in Clients PROVE Remembers(c)
  <2>1. step[c] = 1 /\ step[c] - 1 = 0 /\ 1..0 = {}
    BY DEF Init
  <2>2. Checkpointed(c)
    BY <2>1 DEF Checkpointed, Told, CheckpointOf, Init
  <2>3. Led(c)
    BY <2>1 DEF Led, HeldAfter, Init
  <2>4. Snapshotted(c)
    BY <2>1 DEF Snapshotted, Init
  <2>5. Marked(c)
    BY <2>1 DEF Marked
  <2>6. QED
    BY <2>2, <2>3, <2>4, <2>5 DEF Remembers
<1>7. QED
  BY <1>1, <1>2, <1>3, <1>4, <1>5, <1>6 DEF Consistent

LEMMA StepsStepOn ==
  ASSUME Inv, Consistent, NEW c \in Clients, Step(c)
  PROVE  StepsOn(c)
<1>1. CASE SaveSnapshot(c) \/ LoadSnapshot(c)
  BY <1>1, SnapshotCallsStepOn
<1>2. CASE SaveCheckpoint(c) \/ LoadCheckpoint(c)
  BY <1>2, CheckpointCallsStepOn
<1>3. CASE TryAcquire(c) \/ DropGuard(c) \/ EndOfScope(c)
  BY <1>3, CoordinationStepsOn
<1>4. CASE \/ AppendEvents(c) \/ Conflict(c) \/ Validated(c) \/ InsertChunk(c) \/ Commit(c)
           \/ StatementFails(c)
  BY <1>4, AppendsStepOn
<1>5. CASE ReadStream(c)
  BY <1>5, ReadStreamStepsOn
<1>6. CASE ReadEvents(c)
  BY <1>6, ReadEventsStepsOn
<1>7. CASE Spawn(c) \/ LockConnection(c)
  BY <1>7, SpawnsStepOn
<1>8. CASE Query(c)
  BY <1>8, QueryStepsOn
<1>9. CASE SendRow(c) \/ ReadFails(c) \/ TaskEnds(c)
  BY <1>9, SendersStepOn
<1>10. CASE Receive(c)
  BY <1>10, ReceiveStepsOn
<1>11. CASE StreamEnds(c)
  BY <1>11, StreamEndsStepsOn
<1>12. QED
  BY <1>1, <1>2, <1>3, <1>4, <1>5, <1>6, <1>7, <1>8, <1>9, <1>10, <1>11 DEF Step

LEMMA ConsistentNext == Inv /\ Consistent /\ [Next]_vars => Consistent'
<1> SUFFICES ASSUME Inv, Consistent, [Next]_vars PROVE Consistent'
  OBVIOUS
<1>1. CASE UNCHANGED vars
  <2>1. /\ backend' = backend /\ test' = test /\ script' = script /\ step' = step
        /\ verdict' = verdict /\ mark' = mark /\ snapshots' = snapshots
        /\ checkpoints' = checkpoints /\ locks' = locks /\ conn' = conn /\ task' = task
        /\ rows' = rows /\ channel' = channel /\ received' = received
    BY <1>1 DEF vars, fixed, data, tasks
  <2>2. ASSUME NEW c \in Clients PROVE (Scripted(c) => Scripted(c)') /\ (Fetched(c) => Fetched(c)')
    <3>1. Call(c)' = Call(c)
      BY <2>1 DEF Call
    <3>2. Fetching(c) => Fetching(c)'
      BY <2>1, <3>1 DEF Fetching, RowOf, FailedRow
    <3>3. QED
      BY <2>1, <3>2 DEF Scripted, Fetched
  <2>3. ASSUME NEW c \in Clients PROVE Remembers(c) => Remembers(c)'
    <3>1. \A name : CheckpointOf(name)' = CheckpointOf(name)
      BY <2>1 DEF CheckpointOf
    <3>2. QED
      BY <2>1, <3>1 DEF Remembers, Checkpointed, Led, Snapshotted, Marked
  <2>4. QED
    BY <2>1, <2>2, <2>3 DEF Consistent, Known
<1>2. CASE \E c \in Clients : Step(c)
  <2>1. PICK c \in Clients : Step(c)
    BY <1>2
  <2>2. StepsOn(c)
    BY <2>1, StepsStepOn
  <2>3. QED
    BY <2>2, StepKeepsConsistent DEF StepsOn
<1>3. QED
  BY <1>1, <1>2 DEF Next, AllSettled

(***************************************************************************)
(* Whatever runs beside it, no test of the suite is answered otherwise     *)
(* than it expects.                                                        *)
(***************************************************************************)
THEOREM SuiteNeverFails == Spec => []SuitePasses
<1>1. Consistent => SuitePasses
  BY DEF Consistent, SuitePasses
<1>2. QED
  BY <1>1, InvInit, InvNext, ConsistentInit, ConsistentNext, PTL DEF Spec
===============================================================================
