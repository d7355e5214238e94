------------------------------ MODULE FileStoreProofs ------------------------------
(***************************************************************************)
(* Proofs about the file event store, in working copies, streams, clocks   *)
(* and transactions of any number.                                         *)
(*                                                                         *)
(* The module goes from the operators to the runs.  Depths and Ancestors   *)
(* are recursive over the parents, which are older transactions; so they   *)
(* are what their equations say.  linearize is then a linear order of the  *)
(* events, a stream is a sequence of exactly its events, and new events    *)
(* are numbered above all others.  A transaction whose parents are all     *)
(* the tips is deeper than everything else, and extends every stream at    *)
(* its end.                                                                *)
(*                                                                         *)
(* A merge that leaves tips aside (LeavesTips) is not deeper, but what it  *)
(* extends is still the end of the streams it has no event of.             *)
(*                                                                         *)
(* The inductive invariant: what is stored is well formed and durable      *)
(* (Stored), the ingestion log on disk is part of the numbering in memory  *)
(* (Logged), and a projection has handled the log up to its checkpoint     *)
(* (Followed); the index is canonical up to the merges of its own identity *)
(* that left tips aside (Canonical), a transaction records what its writer *)
(* knew (Informed), merges join transactions of one base (Joined), an      *)
(* identity belongs to one copy (Distinct), that copy holds all its        *)
(* transactions (Owned), and they know each other (Chained).               *)
(***************************************************************************)
EXTENDS FileStore, OrderLemmas, SequenceTheorems, TLAPS

\* Max of a finite set of numbers is its greatest member
LEMMA MaxIsGreatest ==
  ASSUME NEW S, IsFiniteSet(S), S \subseteq Nat, S # {}
  PROVE  Max(S) \in S /\ \A x \in S : x <= Max(S)
<1>1. PICK b \in Nat : S \subseteq 0..b
  BY FiniteIsBounded
<1>2. PICK m \in S : \A x \in S : x <= m
  BY <1>1, GreatestNatural
<1>3. \A x, y \in S : x >= y <=> y <= x
  OBVIOUS
<1>4. \E x \in S : \A y \in S : x >= y
  BY <1>2, <1>3
<1>5. QED
  BY <1>3, <1>4 DEF Max

\* the image of a finite set is finite
LEMMA FiniteImage ==
  ASSUME NEW S, IsFiniteSet(S), NEW f
  PROVE  IsFiniteSet({ f[x] : x \in S })
<1> DEFINE T == { f[x] : x \in S }
           g == [x \in S |-> f[x]]
<1>1. g \in Surjection(S, T)
  BY DEF Surjection
<1>2. QED
  BY <1>1, FS_Surjection

-------------------------------------------------------------------------------
(***************************************************************************)
(* A history that could be: parents are older, and keys are numbers.       *)
(***************************************************************************)
Grounded(h, n) ==
  /\ n \in Nat
  /\ DOMAIN h \subseteq 1..n
  /\ \A t \in DOMAIN h : /\ h[t].parents \subseteq 1..(t - 1)
                         /\ h[t].created \in Nat
                         /\ h[t].replica \in Nat
                         /\ h[t].events \in Seq(Streams)

Present(h, t) == h[t].parents \cap DOMAIN h

DepthBy(h, f, t) ==
  IF Present(h, t) = {} THEN 0 ELSE 1 + Max({f[p] : p \in Present(h, t)})

\* the recursive function Depths, as the choice it stands for
LEMMA DepthsChosen ==
  ASSUME NEW h
  PROVE  Depths(h) = CHOOSE f : f = [t \in DOMAIN h |-> DepthBy(h, f, t)]
BY Zenon DEF Depths, DepthBy, Present

AncestorsBy(h, f, t) == h[t].parents \cup UNION {f[p] : p \in Present(h, t)}

\* and Ancestors
LEMMA AncestorsChosen ==
  ASSUME NEW h
  PROVE  Ancestors(h) = CHOOSE f : f = [t \in DOMAIN h |-> AncestorsBy(h, f, t)]
BY Zenon DEF Ancestors, AncestorsBy, Present

\* what a transaction is computed from is older than it
LEMMA PresentIsOlder ==
  ASSUME NEW h, NEW n, Grounded(h, n), NEW t \in DOMAIN h
  PROVE  /\ Present(h, t) \subseteq 1..(t - 1)
         /\ Present(h, t) \subseteq DOMAIN h
         /\ IsFiniteSet(Present(h, t))
<1>1. t \in Nat /\ Present(h, t) \subseteq 1..(t - 1) /\ Present(h, t) \subseteq DOMAIN h
  BY DEF Grounded, Present
<1>2. IsFiniteSet(1..(t - 1))
  BY <1>1, FS_Interval
<1>3. QED
  BY <1>1, <1>2, FS_Subset

\* one step of the recursion: a number, above those of the parents
LEMMA DepthIsNumber ==
  ASSUME NEW h, NEW n, Grounded(h, n), NEW t \in DOMAIN h, NEW f,
         \A p \in Present(h, t) : f[p] \in Nat
  PROVE  /\ DepthBy(h, f, t) \in Nat
         /\ \A p \in Present(h, t) : f[p] < DepthBy(h, f, t)
<1>1. CASE Present(h, t) = {}
  BY <1>1 DEF DepthBy
<1>2. CASE Present(h, t) # {}
  <2> DEFINE S == {f[p] : p \in Present(h, t)}
  <2>1. IsFiniteSet(S)
    BY PresentIsOlder, FiniteImage
  <2>2. S \subseteq Nat /\ S # {}
    BY <1>2
  <2>3. Max(S) \in S /\ \A x \in S : x <= Max(S)
    <3> HIDE DEF S
    <3>1. QED
      BY <2>1, <2>2, MaxIsGreatest
  <2>4. DepthBy(h, f, t) = 1 + Max(S)
    BY <1>2 DEF DepthBy
  <2>5. Max(S) \in Nat
    BY <2>2, <2>3
  <2>6. ASSUME NEW p \in Present(h, t) PROVE f[p] < 1 + Max(S)
    <3>1. f[p] \in S
      OBVIOUS
    <3>2. QED
      <4> HIDE DEF S
      <4>1. QED
        BY <3>1, <2>2, <2>3, <2>5
  <2>7. QED
    BY <2>4, <2>5, <2>6
<1>3. QED
  BY <1>1, <1>2

\* a function that satisfies the recursion exists
LEMMA DepthsExist ==
  ASSUME NEW h, NEW n, Grounded(h, n)
  PROVE  \E f : f = [t \in DOMAIN h |-> DepthBy(h, f, t)]
<1> DEFINE step == [i \in 1..n |-> [f \in [1..n -> Nat] |-> IF i \in DOMAIN h THEN DepthBy(h, f, i) ELSE 0]]
<1>1. n \in Nat /\ DOMAIN h \subseteq 1..n
  BY DEF Grounded
<1>2. ASSUME NEW i \in 1..n, NEW f \in [1..n -> Nat], i \in DOMAIN h
      PROVE  DepthBy(h, f, i) \in Nat
  <2>1. \A p \in Present(h, i) : f[p] \in Nat
    BY <1>1, <1>2, PresentIsOlder
  <2>2. QED
    BY <1>2, <2>1, DepthIsNumber
<1>3. step \in [1..n -> [[1..n -> Nat] -> Nat]]
  BY <1>2
<1>4. LooksBack(step, n, Nat)
  <2>1. SUFFICES ASSUME NEW i \in 1..n, NEW f \in [1..n -> Nat], NEW g \in [1..n -> Nat],
                        \A j \in 1..(i - 1) : f[j] = g[j]
                 PROVE  step[i][f] = step[i][g]
    BY DEF LooksBack
  <2>2. CASE i \in DOMAIN h
    <3>1. \A p \in Present(h, i) : f[p] = g[p]
      BY <2>1, <2>2, PresentIsOlder
    <3>2. {f[p] : p \in Present(h, i)} = {g[p] : p \in Present(h, i)}
      BY <3>1
    <3>3. DepthBy(h, f, i) = DepthBy(h, g, i)
      BY <3>2 DEF DepthBy
    <3>4. QED
      BY <2>2, <3>3
  <2>3. CASE i \notin DOMAIN h
    BY <2>3
  <2>4. QED
    BY <2>2, <2>3
<1>5. PICK f \in [1..n -> Nat] : Obeys(f, step, n)
  <2> HIDE DEF step
  <2>1. Nat # {}
    BY 0 \in Nat
  <2>2. QED
    BY <1>1, <1>3, <1>4, <2>1, CourseOfValues
<1> DEFINE d == [t \in DOMAIN h |-> f[t]]
<1>6. ASSUME NEW t \in DOMAIN h PROVE d[t] = DepthBy(h, d, t)
  <2>1. f[t] = DepthBy(h, f, t)
    BY <1>1, <1>5 DEF Obeys
  <2>2. {f[p] : p \in Present(h, t)} = {d[p] : p \in Present(h, t)}
    BY PresentIsOlder
  <2>3. QED
    BY <2>1, <2>2 DEF DepthBy
<1>7. d = [t \in DOMAIN h |-> DepthBy(h, d, t)]
  <2>1. d = [t \in DOMAIN h |-> d[t]]
    OBVIOUS
  <2>2. QED
    <3> HIDE DEF d
    <3>1. QED
      BY <2>1, <1>6
<1>8. QED
  <2> HIDE DEF d
  <2>1. QED
    BY <1>7

\* so that Depths satisfies it
LEMMA DepthEquation ==
  ASSUME NEW h, NEW n, Grounded(h, n), NEW t \in DOMAIN h
  PROVE  Depths(h)[t] = DepthBy(h, Depths(h), t)
<1>1. \E f : f = [u \in DOMAIN h |-> DepthBy(h, f, u)]
  BY DepthsExist
<1>2. Depths(h) = [u \in DOMAIN h |-> DepthBy(h, Depths(h), u)]
  BY <1>1, DepthsChosen, Zenon
<1>3. QED
  BY <1>2, Zenon

\* a depth is a number above the depths of the parents
LEMMA DepthsAreNumbers ==
  ASSUME NEW h, NEW n, Grounded(h, n), NEW t \in DOMAIN h
  PROVE  /\ Depths(h)[t] \in Nat
         /\ \A p \in Present(h, t) : Depths(h)[p] < Depths(h)[t]
<1> DEFINE Bad == { u \in DOMAIN h : Depths(h)[u] \notin Nat }
<1>1. DOMAIN h \subseteq Nat
  BY DEF Grounded
<1>2. Bad = {}
  <2>1. SUFFICES ASSUME Bad # {} PROVE FALSE
    OBVIOUS
  <2>2. PICK u \in Bad : \A v \in Bad : u <= v
    <3>1. Bad \subseteq Nat
      BY <1>1
    <3> HIDE DEF Bad
    <3>2. QED
      BY <2>1, <3>1, LeastNatural
  <2>3. ASSUME NEW p \in Present(h, u) PROVE Depths(h)[p] \in Nat
    <3>1. p \in DOMAIN h /\ p \in 1..(u - 1) /\ u \in Nat
      BY <1>1, PresentIsOlder
    <3>2. p \notin Bad
      <4> HIDE DEF Bad
      <4>1. QED
        BY <3>1, <2>2
    <3>3. QED
      BY <3>1, <3>2
  <2>4. Depths(h)[u] \in Nat
    BY <2>3, DepthIsNumber, DepthEquation
  <2>5. QED
    BY <2>4
<1>3. \A u \in DOMAIN h : Depths(h)[u] \in Nat
  BY <1>2
<1>4. \A p \in Present(h, t) : Depths(h)[p] \in Nat
  BY <1>3, PresentIsOlder
<1>5. QED
  BY <1>3, <1>4, DepthIsNumber, DepthEquation

\* the same for Ancestors
LEMMA AncestorsExist ==
  ASSUME NEW h, NEW n, Grounded(h, n)
  PROVE  \E f : f = [t \in DOMAIN h |-> AncestorsBy(h, f, t)]
<1> DEFINE V == SUBSET (1..n)
           step == [i \in 1..n |-> [f \in [1..n -> V] |-> IF i \in DOMAIN h THEN AncestorsBy(h, f, i) ELSE {}]]
<1>1. n \in Nat /\ DOMAIN h \subseteq 1..n
  BY DEF Grounded
<1>2. ASSUME NEW i \in 1..n, NEW f \in [1..n -> V], i \in DOMAIN h
      PROVE  AncestorsBy(h, f, i) \in V
  <2>1. h[i].parents \subseteq 1..n
    BY <1>1, <1>2 DEF Grounded
  <2>2. \A p \in Present(h, i) : f[p] \subseteq 1..n
    BY <1>1, <1>2, PresentIsOlder
  <2>3. QED
    BY <2>1, <2>2 DEF AncestorsBy
<1>3. step \in [1..n -> [[1..n -> V] -> V]]
  BY <1>2
<1>4. LooksBack(step, n, V)
  <2>1. SUFFICES ASSUME NEW i \in 1..n, NEW f \in [1..n -> V], NEW g \in [1..n -> V],
                        \A j \in 1..(i - 1) : f[j] = g[j]
                 PROVE  step[i][f] = step[i][g]
    BY DEF LooksBack
  <2>2. CASE i \in DOMAIN h
    <3>1. \A p \in Present(h, i) : f[p] = g[p]
      BY <2>1, <2>2, PresentIsOlder
    <3>2. {f[p] : p \in Present(h, i)} = {g[p] : p \in Present(h, i)}
      BY <3>1
    <3>3. AncestorsBy(h, f, i) = AncestorsBy(h, g, i)
      BY <3>2 DEF AncestorsBy
    <3>4. QED
      BY <2>2, <3>3
  <2>3. CASE i \notin DOMAIN h
    BY <2>3
  <2>4. QED
    BY <2>2, <2>3
<1>5. PICK f \in [1..n -> V] : Obeys(f, step, n)
  <2>1. V # {}
    OBVIOUS
  <2> HIDE DEF step, V
  <2>2. QED
    BY <1>1, <1>3, <1>4, <2>1, CourseOfValues
<1> DEFINE a == [t \in DOMAIN h |-> f[t]]
<1>6. ASSUME NEW t \in DOMAIN h PROVE a[t] = AncestorsBy(h, a, t)
  <2>1. f[t] = AncestorsBy(h, f, t)
    BY <1>1, <1>5 DEF Obeys
  <2>2. {f[p] : p \in Present(h, t)} = {a[p] : p \in Present(h, t)}
    BY PresentIsOlder
  <2>3. QED
    BY <2>1, <2>2 DEF AncestorsBy
<1>7. a = [t \in DOMAIN h |-> AncestorsBy(h, a, t)]
  <2>1. a = [t \in DOMAIN h |-> a[t]]
    OBVIOUS
  <2>2. QED
    <3> HIDE DEF a
    <3>1. QED
      BY <2>1, <1>6
<1>8. QED
  <2> HIDE DEF a
  <2>1. QED
    BY <1>7

\* so that Ancestors satisfies its recursion
LEMMA AncestorEquation ==
  ASSUME NEW h, NEW n, Grounded(h, n)
  PROVE  /\ DOMAIN Ancestors(h) = DOMAIN h
         /\ \A t \in DOMAIN h : Ancestors(h)[t] = AncestorsBy(h, Ancestors(h), t)
<1>1. \E f : f = [u \in DOMAIN h |-> AncestorsBy(h, f, u)]
  BY AncestorsExist
<1>2. Ancestors(h) = [u \in DOMAIN h |-> AncestorsBy(h, Ancestors(h), u)]
  BY <1>1, AncestorsChosen, Zenon
<1>3. QED
  BY <1>2, Zenon

\* with a transaction, its ancestors include the parents of each of them that is present
LEMMA AncestorsAreClosed ==
  ASSUME NEW h, NEW n, Grounded(h, n), NEW t \in DOMAIN h
  PROVE  /\ h[t].parents \subseteq Ancestors(h)[t]
         /\ \A p \in Ancestors(h)[t] \cap DOMAIN h : h[p].parents \subseteq Ancestors(h)[t]
<1> DEFINE A == Ancestors(h)
           Closed(u) == \A p \in A[u] \cap DOMAIN h : h[p].parents \subseteq A[u]
           Bad == { u \in DOMAIN h : ~Closed(u) }
<1>1. DOMAIN h \subseteq Nat
  BY DEF Grounded
<1>2. \A u \in DOMAIN h : A[u] = h[u].parents \cup UNION {A[p] : p \in Present(h, u)}
  BY AncestorEquation DEF AncestorsBy
<1>3. Bad = {}
  <2>1. SUFFICES ASSUME Bad # {} PROVE FALSE
    OBVIOUS
  <2>2. PICK u \in Bad : \A v \in Bad : u <= v
    <3>1. Bad \subseteq Nat
      BY <1>1
    <3> HIDE DEF Bad
    <3>2. QED
      BY <2>1, <3>1, LeastNatural
  <2>3. ASSUME NEW p \in Present(h, u) PROVE Closed(p)
    <3>1. p \in DOMAIN h /\ p \in 1..(u - 1) /\ u \in Nat
      BY <1>1, PresentIsOlder
    <3>2. p \notin Bad
      <4> HIDE DEF Bad
      <4>1. QED
        BY <3>1, <2>2
    <3>3. QED
      BY <3>1, <3>2
  <2>4. ASSUME NEW p \in A[u] \cap DOMAIN h PROVE h[p].parents \subseteq A[u]
    <3>0. u \in DOMAIN h
      OBVIOUS
    <3> HIDE DEF A, Bad
    <3>1. CASE p \in h[u].parents
      <4>1. p \in Present(h, u)
        BY <3>1 DEF Present
      <4>2. h[p].parents \subseteq A[p] /\ A[p] \subseteq A[u]
        BY <4>1, <3>0, <1>2
      <4>3. QED
        BY <4>2
    <3>2. CASE p \notin h[u].parents
      <4>2. PICK q \in Present(h, u) : p \in A[q]
        BY <3>2, <3>0, <1>2
      <4>3. h[p].parents \subseteq A[q]
        BY <4>2, <2>3
      <4>4. A[q] \subseteq A[u]
        BY <3>0, <1>2
      <4>5. QED
        BY <4>3, <4>4
    <3>3. QED
      BY <3>1, <3>2
  <2>5. QED
    BY <2>4
<1>4. QED
  BY <1>2, <1>3

(***************************************************************************)
(* A set that holds the tips of a history, and of each of its members the  *)
(* parents, holds the whole history.                                       *)
(***************************************************************************)
LEMMA TipsReachAll ==
  ASSUME NEW h, NEW n, Grounded(h, n), NEW C, TipsOf(h) \subseteq C,
         \A t \in C \cap DOMAIN h : h[t].parents \subseteq C
  PROVE  DOMAIN h \subseteq C
<1> DEFINE Missed == DOMAIN h \ C
<1>1. SUFFICES ASSUME Missed # {} PROVE FALSE
  OBVIOUS
<1>2. n \in Nat /\ Missed \subseteq 0..n /\ DOMAIN h \subseteq Nat
  BY DEF Grounded
<1>3. PICK m \in Missed : \A k \in Missed : k <= m
  <2> HIDE DEF Missed
  <2>1. QED
    BY <1>1, <1>2, GreatestNatural
<1>4. PICK t \in DOMAIN h : m \in h[t].parents
  BY <1>3 DEF TipsOf
<1>5. m < t
  BY <1>2, <1>4 DEF Grounded
<1>6. t \in C
  BY <1>2, <1>3, <1>5
<1>7. QED
  BY <1>4, <1>6

\* an event is a transaction and a place in its file
LEMMA EventsAre ==
  ASSUME NEW h, NEW n, Grounded(h, n)
  PROVE  \A e : e \in EventsOf(h) <=> /\ e = << e[1], e[2] >>
                                      /\ e[1] \in DOMAIN h /\ e[1] \in Nat
                                      /\ e[2] \in 1..Len(h[e[1]].events) /\ e[2] \in Nat
<1>1. \A t \in DOMAIN h : t \in Nat /\ Len(h[t].events) \in Nat /\ DOMAIN h[t].events = 1..Len(h[t].events)
  BY DEF Grounded
<1>2. ASSUME NEW e \in EventsOf(h)
      PROVE  /\ e = << e[1], e[2] >>
             /\ e[1] \in DOMAIN h /\ e[1] \in Nat
             /\ e[2] \in 1..Len(h[e[1]].events) /\ e[2] \in Nat
  <2>1. PICK t \in DOMAIN h : e \in {t} \X DOMAIN h[t].events
    BY DEF EventsOf
  <2>2. e = << e[1], e[2] >> /\ e[1] = t /\ e[2] \in DOMAIN h[t].events
    BY <2>1
  <2>3. QED
    BY <2>2, <1>1
<1>3. ASSUME NEW e, e = << e[1], e[2] >>, e[1] \in DOMAIN h, e[2] \in 1..Len(h[e[1]].events)
      PROVE  e \in EventsOf(h)
  <2>1. e \in {e[1]} \X DOMAIN h[e[1]].events
    BY <1>1, <1>3
  <2>2. QED
    BY <2>1, <1>3 DEF EventsOf
<1>4. QED
  BY <1>2, <1>3

\* there are finitely many
LEMMA EventsAreFinite ==
  ASSUME NEW h, NEW n, Grounded(h, n)
  PROVE  IsFiniteSet(EventsOf(h))
<1> DEFINE f == [t \in DOMAIN h |-> {t} \X DOMAIN h[t].events]
<1>1. IsFiniteSet(DOMAIN h)
  <2>1. n \in Nat /\ DOMAIN h \subseteq 1..n
    BY DEF Grounded
  <2>2. IsFiniteSet(1..n)
    BY <2>1, FS_Interval
  <2>3. QED
    BY <2>1, <2>2, FS_Subset
<1>2. ASSUME NEW t \in DOMAIN h PROVE IsFiniteSet(f[t])
  <2>1. Len(h[t].events) \in Nat /\ DOMAIN h[t].events = 1..Len(h[t].events)
    BY DEF Grounded
  <2>2. IsFiniteSet(DOMAIN h[t].events)
    BY <2>1, FS_Interval
  <2>3. IsFiniteSet({t})
    BY FS_Singleton
  <2>4. IsFiniteSet({t} \X DOMAIN h[t].events)
    BY <2>2, <2>3, FS_Product
  <2>5. QED
    BY <2>4
<1>3. EventsOf(h) = UNION {f[t] : t \in DOMAIN h}
  BY DEF EventsOf
<1>4. IsFiniteSet({f[t] : t \in DOMAIN h})
  <2> HIDE DEF f
  <2>1. QED
    BY <1>1, FiniteImage
<1>5. \A T \in {f[t] : t \in DOMAIN h} : IsFiniteSet(T)
  BY <1>2
<1>6. QED
  <2> HIDE DEF f
  <2>1. QED
    BY <1>3, <1>4, <1>5, FS_UNION

(***************************************************************************)
(* linearize orders all events.                                            *)
(***************************************************************************)
KeyOf(h, e) == << Depths(h)[e[1]], h[e[1]].created, h[e[1]].replica, e[1], e[2] >>

\* the keys linearize compares are five numbers
LEMMA KeysAreNumbers ==
  ASSUME NEW h, NEW n, Grounded(h, n), NEW e \in EventsOf(h)
  PROVE  KeyOf(h, e) \in [1..5 -> Int]
<1>1. e[1] \in DOMAIN h /\ e[1] \in Nat /\ e[2] \in Nat
  BY EventsAre
<1>2. h[e[1]].created \in Nat /\ h[e[1]].replica \in Nat
  BY <1>1 DEF Grounded
<1>3. Depths(h)[e[1]] \in Nat
  BY <1>1, DepthsAreNumbers
<1>4. QED
  BY <1>1, <1>2, <1>3 DEF KeyOf

\* linearize is the lexicographic order of the keys
LEMMA LinearizeCompares ==
  ASSUME NEW h, NEW e, NEW f
  PROVE  << e, f >> \in Linearize(h) <=> /\ e \in EventsOf(h) /\ f \in EventsOf(h)
                                         /\ e = f \/ LexLess(KeyOf(h, e), KeyOf(h, f))
<1>1. Linearize(h) = {p \in EventsOf(h) \X EventsOf(h) :
                        p[1] = p[2] \/ LexLess(KeyOf(h, p[1]), KeyOf(h, p[2]))}
  BY DEF Linearize, KeyOf, LexLess, Precedes
<1>2. QED
  BY <1>1

\* which is a linear order of the events: two events never have the same key
LEMMA LinearizeIsLinear ==
  ASSUME NEW h, NEW n, Grounded(h, n)
  PROVE  IsLinearOrder(Linearize(h), EventsOf(h))
<1> DEFINE E == EventsOf(h)
           k(e) == KeyOf(h, e)
<1>1. \A e \in E : k(e) \in [1..5 -> Int]
  BY KeysAreNumbers
<1>2. ASSUME NEW e \in E, NEW f \in E, k(e) = k(f) PROVE e = f
  <2>1. e[1] = f[1] /\ e[2] = f[2]
    BY <1>2 DEF KeyOf
  <2>2. e = << e[1], e[2] >> /\ f = << f[1], f[2] >>
    BY EventsAre
  <2>3. QED
    BY <2>1, <2>2
<1>3. 5 \in Nat
  OBVIOUS
<1>4. \A e, f \in E : << e, f >> \in Linearize(h) <=> e = f \/ LexLess(k(e), k(f))
  BY LinearizeCompares
<1> HIDE DEF E, k
<1>5. ASSUME NEW e \in E, NEW f \in E PROVE LexLess(k(e), k(f)) \/ LexLess(k(f), k(e)) \/ e = f
  BY <1>1, <1>2, <1>3, LexicographicOrder
<1>6. ASSUME NEW e \in E, NEW f \in E PROVE ~(LexLess(k(e), k(f)) /\ LexLess(k(f), k(e)))
  BY <1>1, <1>3, LexicographicOrder
<1>7. ASSUME NEW e \in E, NEW f \in E, NEW g \in E, LexLess(k(e), k(f)), LexLess(k(f), k(g))
      PROVE LexLess(k(e), k(g))
  BY <1>1, <1>3, <1>7, LexicographicOrder
<1>8. IsLinearOrder(Linearize(h), E)
  <2>1. \A e, f \in E : << e, f >> \in Linearize(h) \/ << f, e >> \in Linearize(h)
    BY <1>4, <1>5
  <2>2. \A e, f \in E : << e, f >> \in Linearize(h) /\ << f, e >> \in Linearize(h) => e = f
    BY <1>4, <1>6
  <2>3. \A e, f, g \in E : << e, f >> \in Linearize(h) /\ << f, g >> \in Linearize(h)
                             => << e, g >> \in Linearize(h)
    BY <1>4, <1>7
  <2>4. QED
    BY <2>1, <2>2, <2>3 DEF IsLinearOrder
<1>9. QED
  BY <1>8 DEF E

(***************************************************************************)
(* The sequence of a finite set in an order: every element once, at its    *)
(* position.                                                               *)
(***************************************************************************)
LEMMA LinearOnSubset ==
  ASSUME NEW R, NEW E, IsLinearOrder(R, E), NEW S, S \subseteq E
  PROVE  IsLinearOrder(R, S)
BY DEF IsLinearOrder

\* a position counts the events up to it
LEMMA PositionIsRank ==
  ASSUME NEW R, NEW S, NEW e
  PROVE  Position(R, S, e) = Cardinality(Below(R, S, e))
BY DEF Position, Below

\* positions number a set from 1, without gaps, in its order
LEMMA Positions ==
  ASSUME NEW S, IsFiniteSet(S), NEW R, IsLinearOrder(R, S)
  PROVE  /\ Cardinality(S) \in Nat
         /\ \A e \in S : Position(R, S, e) \in 1..Cardinality(S)
         /\ \A e, f \in S : e # f /\ << e, f >> \in R => Position(R, S, e) < Position(R, S, f)
         /\ \A e, f \in S : Position(R, S, e) = Position(R, S, f) => e = f
         /\ \A i \in 1..Cardinality(S) : \E e \in S : Position(R, S, e) = i
<1>1. Cardinality(S) \in Nat
  BY FS_CardinalityType
<1>2. \A e \in S : Position(R, S, e) \in 1..Cardinality(S)
  BY RankBounds, PositionIsRank
<1>3. \A e, f \in S : e # f /\ << e, f >> \in R => Position(R, S, e) < Position(R, S, f)
  BY RankOrder, PositionIsRank
<1>4. ASSUME NEW e \in S, NEW f \in S, Position(R, S, e) = Position(R, S, f) PROVE e = f
  <2>1. << e, f >> \in R \/ << f, e >> \in R
    BY DEF IsLinearOrder
  <2>2. Position(R, S, e) \in Int /\ Position(R, S, f) \in Int
    BY <1>1, <1>2
  <2>3. QED
    BY <2>1, <2>2, <1>3, <1>4
<1>5. \A i \in 1..Cardinality(S) : \E e \in S : Position(R, S, e) = i
  BY RanksAreDense, PositionIsRank
<1>6. QED
  BY <1>1, <1>2, <1>3, <1>4, <1>5

\* a set in its order is a sequence of it, each event at its position
LEMMA InOrderIsSequence ==
  ASSUME NEW S, IsFiniteSet(S), NEW R, IsLinearOrder(R, S)
  PROVE  /\ InOrder(R, S) \in Seq(S)
         /\ Len(InOrder(R, S)) = Cardinality(S)
         /\ DOMAIN InOrder(R, S) = 1..Cardinality(S)
         /\ \A i \in 1..Cardinality(S) : /\ InOrder(R, S)[i] \in S
                                         /\ Position(R, S, InOrder(R, S)[i]) = i
         /\ \A e \in S : InOrder(R, S)[Position(R, S, e)] = e
<1>1. /\ Cardinality(S) \in Nat
      /\ \A e \in S : Position(R, S, e) \in 1..Cardinality(S)
      /\ \A e, f \in S : Position(R, S, e) = Position(R, S, f) => e = f
      /\ \A i \in 1..Cardinality(S) : \E e \in S : Position(R, S, e) = i
  BY Positions
<1> DEFINE q == InOrder(R, S)
<1>2. q = [i \in 1..Cardinality(S) |-> CHOOSE e \in S : Position(R, S, e) = i]
  BY DEF InOrder
<1>3. ASSUME NEW i \in 1..Cardinality(S)
      PROVE  q[i] \in S /\ Position(R, S, q[i]) = i
  BY <1>1, <1>2
<1>4. q \in [1..Cardinality(S) -> S]
  BY <1>2, <1>3
<1>5. q \in Seq(S) /\ Len(q) = Cardinality(S) /\ DOMAIN q = 1..Cardinality(S)
  <2> HIDE DEF q
  <2>1. QED
    BY <1>1, <1>4
<1>6. ASSUME NEW e \in S PROVE q[Position(R, S, e)] = e
  BY <1>1, <1>3
<1>7. QED
  BY <1>3, <1>5, <1>6

Agree(R, Q, S) == \A e, f \in S : << e, f >> \in R <=> << e, f >> \in Q

\* orders that agree on a set put it in the same sequence
LEMMA OrdersThatAgree ==
  ASSUME NEW S, IsFiniteSet(S), NEW R, IsLinearOrder(R, S), NEW Q, Agree(R, Q, S)
  PROVE  InOrder(R, S) = InOrder(Q, S)
<1>1. IsLinearOrder(Q, S)
  BY DEF IsLinearOrder, Agree
<1>2. ASSUME NEW e \in S PROVE Position(R, S, e) = Position(Q, S, e)
  <2>1. {f \in S : << f, e >> \in R} = {f \in S : << f, e >> \in Q}
    BY DEF Agree
  <2>2. QED
    BY <2>1 DEF Position
<1> DEFINE q == InOrder(R, S)
           r == InOrder(Q, S)
<1>3. q \in Seq(S) /\ Len(q) = Cardinality(S) /\ r \in Seq(S) /\ Len(r) = Cardinality(S)
  BY <1>1, InOrderIsSequence
<1>4. ASSUME NEW i \in 1..Cardinality(S) PROVE q[i] = r[i]
  <2>1. q[i] \in S /\ Position(R, S, q[i]) = i
    BY InOrderIsSequence
  <2>2. Position(Q, S, q[i]) = i
    BY <2>1, <1>2
  <2>3. r[Position(Q, S, q[i])] = q[i]
    BY <1>1, <2>1, InOrderIsSequence
  <2>4. QED
    BY <2>2, <2>3
<1>5. q = r
  <2> HIDE DEF q, r
  <2>1. QED
    BY <1>3, <1>4, SeqEqual
<1>6. QED
  BY <1>5

\* the cardinality of a disjoint union
LEMMA DisjointUnion ==
  ASSUME NEW S, IsFiniteSet(S), NEW T, IsFiniteSet(T), S \cap T = {}
  PROVE  /\ IsFiniteSet(S \cup T)
         /\ Cardinality(S) \in Nat /\ Cardinality(T) \in Nat
         /\ Cardinality(S \cup T) = Cardinality(S) + Cardinality(T)
<1>1. Cardinality(S \cap T) = Cardinality({})
  BY Zenon
<1>2. Cardinality({}) = 0
  BY FS_EmptySet
<1>3. Cardinality(S) \in Nat /\ Cardinality(T) \in Nat
  BY FS_CardinalityType
<1>4. /\ IsFiniteSet(S \cup T)
      /\ Cardinality(S \cup T) = Cardinality(S) + Cardinality(T) - Cardinality(S \cap T)
  BY FS_Union
<1>5. QED
  BY <1>1, <1>2, <1>3, <1>4

\* the set T comes after the set S
Follow(R, S, T) == \A e \in S, f \in T : e # f /\ << e, f >> \in R

\* positions in a set that another follows
LEMMA PositionsOfUnion ==
  ASSUME NEW S, IsFiniteSet(S), NEW T, IsFiniteSet(T), NEW R, IsLinearOrder(R, S \cup T),
         Follow(R, S, T)
  PROVE  /\ IsFiniteSet(S \cup T)
         /\ Cardinality(S \cup T) = Cardinality(S) + Cardinality(T)
         /\ \A e \in S : Position(R, S \cup T, e) = Position(R, S, e)
         /\ \A e \in T : Position(R, S \cup T, e) = Cardinality(S) + Position(R, T, e)
<1>1. S \cap T = {}
  BY DEF Follow
<1>2. /\ IsFiniteSet(S \cup T)
      /\ Cardinality(S \cup T) = Cardinality(S) + Cardinality(T)
  BY <1>1, DisjointUnion
<1>3. ASSUME NEW e \in S PROVE Position(R, S \cup T, e) = Position(R, S, e)
  <2>1. {f \in S \cup T : << f, e >> \in R} = {f \in S : << f, e >> \in R}
    BY DEF Follow, IsLinearOrder
  <2>2. QED
    BY <2>1 DEF Position
<1>4. ASSUME NEW e \in T PROVE Position(R, S \cup T, e) = Cardinality(S) + Position(R, T, e)
  <2> DEFINE B == {f \in T : << f, e >> \in R}
  <2>1. {f \in S \cup T : << f, e >> \in R} = S \cup B
    BY DEF Follow
  <2>2. S \cap B = {} /\ B \subseteq T
    BY <1>1
  <2>3. IsFiniteSet(B)
    <3> HIDE DEF B
    <3>1. QED
      BY <2>2, FS_Subset
  <2>4. Cardinality(S \cup B) = Cardinality(S) + Cardinality(B)
    <3> HIDE DEF B
    <3>1. QED
      BY <2>2, <2>3, DisjointUnion
  <2>5. QED
    BY <2>1, <2>4 DEF Position
<1>5. QED
  BY <1>2, <1>3, <1>4

\* and the sequence of both: one after the other
LEMMA InOrderOfUnion ==
  ASSUME NEW S, IsFiniteSet(S), NEW T, IsFiniteSet(T), NEW R, IsLinearOrder(R, S \cup T),
         Follow(R, S, T)
  PROVE  InOrder(R, S \cup T) = InOrder(R, S) \o InOrder(R, T)
<1> DEFINE U == S \cup T
           q == InOrder(R, S)
           r == InOrder(R, T)
           u == InOrder(R, U)
           m == Cardinality(S)
           k == Cardinality(T)
<1>1. IsLinearOrder(R, S) /\ IsLinearOrder(R, T)
  BY LinearOnSubset, S \subseteq S \cup T, T \subseteq S \cup T
<1>2. /\ IsFiniteSet(U)
      /\ Cardinality(U) = m + k
      /\ \A e \in S : Position(R, U, e) = Position(R, S, e)
      /\ \A e \in T : Position(R, U, e) = m + Position(R, T, e)
  BY PositionsOfUnion
<1>3. m \in Nat /\ k \in Nat
  BY FS_CardinalityType
<1>4. /\ q \in Seq(S) /\ Len(q) = m
      /\ \A i \in 1..m : q[i] \in S /\ Position(R, S, q[i]) = i
  BY <1>1, InOrderIsSequence
<1>5. /\ r \in Seq(T) /\ Len(r) = k
      /\ \A i \in 1..k : r[i] \in T /\ Position(R, T, r[i]) = i
  BY <1>1, InOrderIsSequence
<1>6. /\ u \in Seq(U) /\ Len(u) = m + k
      /\ \A e \in U : u[Position(R, U, e)] = e
  BY <1>2, InOrderIsSequence
<1>7. q \in Seq(U) /\ r \in Seq(U)
  <2>1. S \subseteq U /\ T \subseteq U
    OBVIOUS
  <2> HIDE DEF U, q, r
  <2>2. QED
    BY <1>4, <1>5, <2>1, SeqMonotonic
<1>8. S \subseteq U /\ T \subseteq U
  OBVIOUS
<1> HIDE DEF U, q, r, u, m, k
<1>9. /\ q \o r \in Seq(U) /\ Len(q \o r) = m + k
      /\ \A i \in 1..(m + k) : (q \o r)[i] = IF i <= m THEN q[i] ELSE r[i - m]
  BY <1>4, <1>5, <1>7, ConcatProperties
<1>10. ASSUME NEW i \in 1..(m + k) PROVE u[i] = (q \o r)[i]
  <2>1. CASE i <= m
    <3>1. q[i] \in S /\ Position(R, S, q[i]) = i
      BY <2>1, <1>3, <1>4
    <3>2. u[Position(R, U, q[i])] = q[i] /\ Position(R, U, q[i]) = i
      BY <3>1, <1>2, <1>6, <1>8
    <3>3. QED
      BY <3>2, <2>1, <1>9
  <2>2. CASE ~(i <= m)
    <3>1. i - m \in 1..k
      BY <2>2, <1>3
    <3>2. r[i - m] \in T /\ Position(R, T, r[i - m]) = i - m
      BY <3>1, <1>5
    <3>3. u[Position(R, U, r[i - m])] = r[i - m] /\ Position(R, U, r[i - m]) = m + (i - m)
      BY <3>2, <1>2, <1>6, <1>8
    <3>4. m + (i - m) = i
      BY <1>3
    <3>5. QED
      BY <3>3, <3>4, <2>2, <1>9
  <2>3. QED
    BY <2>1, <2>2
<1>11. u = q \o r
  BY <1>3, <1>6, <1>9, <1>10, SeqEqual
<1>12. QED
  BY <1>11 DEF U, u, q, r

(***************************************************************************)
(* Part of a history, and a history with a newest transaction.             *)
(***************************************************************************)
Part(g, D) == [t \in D |-> g[t]]

\* part of a history is a history
LEMMA PartIsGrounded ==
  ASSUME NEW g, NEW n, Grounded(g, n), NEW D, D \subseteq DOMAIN g
  PROVE  Grounded(Part(g, D), n) /\ DOMAIN Part(g, D) = D
BY DEF Grounded, Part

\* its events are those of its transactions
LEMMA EventsOfPart ==
  ASSUME NEW g, NEW n, Grounded(g, n), NEW D, D \subseteq DOMAIN g
  PROVE  /\ EventsOf(Part(g, D)) = {e \in EventsOf(g) : e[1] \in D}
         /\ \A s : OfStream(Part(g, D), s) = {e \in OfStream(g, s) : e[1] \in D}
<1>1. Grounded(Part(g, D), n) /\ DOMAIN Part(g, D) = D /\ \A t \in D : Part(g, D)[t] = g[t]
  BY PartIsGrounded DEF Part
<1>2. \A e : e \in EventsOf(Part(g, D)) <=> e \in EventsOf(g) /\ e[1] \in D
  BY <1>1, EventsAre
<1>3. EventsOf(Part(g, D)) = {e \in EventsOf(g) : e[1] \in D}
  BY <1>2
<1>4. ASSUME NEW s PROVE OfStream(Part(g, D), s) = {e \in OfStream(g, s) : e[1] \in D}
  BY <1>1, <1>3 DEF OfStream, StreamOf
<1>5. QED
  BY <1>3, <1>4

\* t is the newest transaction of g, the others are D
Newest(g, n, D, t) ==
  /\ Grounded(g, n)
  /\ DOMAIN g = D \cup {t}
  /\ D \subseteq 1..(t - 1)

\* what being newest means
LEMMA NewestFacts ==
  ASSUME NEW g, NEW n, NEW D, NEW t, Newest(g, n, D, t)
  PROVE  /\ Grounded(g, n) /\ t \in DOMAIN g /\ D \subseteq DOMAIN g /\ t \in Nat
         /\ t \notin D /\ \A u \in D : u \in Nat /\ u < t
         /\ \A u \in D : t \notin g[u].parents
BY DEF Newest, Grounded

\* a newest transaction changes no depth
LEMMA DepthsKept ==
  ASSUME NEW g, NEW n, NEW D, NEW t, Newest(g, n, D, t), NEW u \in D
  PROVE  Depths(g)[u] = Depths(Part(g, D))[u]
<1> DEFINE h == Part(g, D)
           Bad == { v \in D : Depths(g)[v] # Depths(h)[v] }
<1>1. /\ Grounded(g, n) /\ D \subseteq DOMAIN g /\ D \subseteq Nat
      /\ \A v \in D : t \notin g[v].parents
  BY NewestFacts
<1>2. Grounded(h, n) /\ DOMAIN h = D /\ \A v \in D : h[v] = g[v]
  BY <1>1, PartIsGrounded DEF Part
<1>3. \A v \in D : Present(g, v) = Present(h, v)
  BY <1>1, <1>2 DEF Present, Newest
<1>4. Bad = {}
  <2>1. SUFFICES ASSUME Bad # {} PROVE FALSE
    OBVIOUS
  <2>2. PICK v \in Bad : \A x \in Bad : v <= x
    <3>1. Bad \subseteq Nat
      BY <1>1
    <3> HIDE DEF Bad
    <3>2. QED
      BY <2>1, <3>1, LeastNatural
  <2>3. v \in D
    OBVIOUS
  <2>4. ASSUME NEW p \in Present(h, v) PROVE Depths(g)[p] = Depths(h)[p]
    <3>1. p \in D /\ p \in 1..(v - 1) /\ v \in Nat
      BY <1>1, <1>2, <2>3, PresentIsOlder
    <3>2. p \notin Bad
      <4> HIDE DEF Bad
      <4>1. QED
        BY <3>1, <2>2
    <3>3. QED
      BY <3>1, <3>2
  <2>5. {Depths(g)[p] : p \in Present(g, v)} = {Depths(h)[p] : p \in Present(h, v)}
    BY <1>3, <2>3, <2>4
  <2>6. DepthBy(g, Depths(g), v) = DepthBy(h, Depths(h), v)
    BY <1>3, <2>3, <2>5 DEF DepthBy
  <2>7. Depths(g)[v] = Depths(h)[v]
    BY <1>1, <1>2, <2>3, <2>6, DepthEquation
  <2>8. QED
    BY <2>7
<1>5. QED
  BY <1>4

(***************************************************************************)
(* A transaction whose parents include the tips of all others is deepest.  *)
(***************************************************************************)
LEMMA DeepestIfOnTips ==
  ASSUME NEW g, NEW n, NEW D, NEW t, Newest(g, n, D, t), TipsOf(Part(g, D)) \subseteq g[t].parents, NEW u \in D
  PROVE  Depths(g)[u] < Depths(g)[t]
<1> DEFINE h == Part(g, D)
           d == Depths(g)
           Bad == { v \in D : ~(d[v] < d[t]) }
<1>1. /\ Grounded(g, n) /\ D \subseteq DOMAIN g /\ D \subseteq Nat /\ t \in DOMAIN g
  BY NewestFacts
<1>2. DOMAIN h = D /\ \A v \in D : h[v] = g[v]
  BY DEF Part
<1>3. \A v \in DOMAIN g : d[v] \in Nat /\ \A p \in Present(g, v) : d[p] < d[v]
  BY <1>1, DepthsAreNumbers
<1>4. Bad = {}
  <2>1. SUFFICES ASSUME Bad # {} PROVE FALSE
    OBVIOUS
  <2>2. PICK m \in Bad : \A x \in Bad : x <= m
    <3>1. n \in Nat /\ Bad \subseteq 0..n
      BY <1>1 DEF Grounded
    <3> HIDE DEF Bad
    <3>2. QED
      BY <2>1, <3>1, GreatestNatural
  <2>3. m \in D /\ ~(d[m] < d[t])
    OBVIOUS
  <2>4. m \notin TipsOf(h)
    <3>1. ASSUME m \in TipsOf(h) PROVE FALSE
      <4>1. m \in Present(g, t)
        BY <3>1, <1>1, <2>3 DEF Present
      <4>2. QED
        BY <4>1, <1>1, <1>3, <2>3
    <3>2. QED
      BY <3>1
  <2>5. PICK v \in D : m \in g[v].parents
    BY <1>2, <2>3, <2>4 DEF TipsOf
  <2>6. m \in Present(g, v) /\ m < v
    <3>1. g[v].parents \subseteq 1..(v - 1) /\ v \in Nat
      BY <1>1, <2>5 DEF Grounded
    <3>2. QED
      BY <3>1, <1>1, <2>3, <2>5 DEF Present
  <2>7. v \in Bad
    <3>1. d[m] \in Nat /\ d[v] \in Nat /\ d[t] \in Nat /\ d[m] < d[v]
      BY <1>1, <1>3, <2>3, <2>5, <2>6
    <3>2. QED
      BY <3>1, <2>3, <2>5
  <2>8. v <= m /\ v \in Nat /\ m \in Nat
    <3> HIDE DEF Bad
    <3>1. QED
      BY <2>2, <2>3, <2>5, <2>7, <1>1
  <2>9. QED
    BY <2>6, <2>8
<1>5. QED
  BY <1>4

\* keys whose first numbers do not decide
LEMMA SameAfterFirst ==
  ASSUME NEW k \in [1..5 -> Int], NEW l \in [1..5 -> Int], NEW q \in [1..5 -> Int], NEW r \in [1..5 -> Int],
         k[1] = l[1], q[1] = r[1],
         k[2] = q[2], k[3] = q[3], k[4] = q[4], k[5] = q[5],
         l[2] = r[2], l[3] = r[3], l[4] = r[4], l[5] = r[5]
  PROVE  LexLess(k, l) => LexLess(q, r)
<1>1. SUFFICES ASSUME LexLess(k, l) PROVE LexLess(q, r)
  OBVIOUS
<1>2. PICK i \in 1..5 : k[i] < l[i] /\ \A j \in 1..(i - 1) : k[j] = l[j]
  BY <1>1 DEF LexLess
<1>3. i \in {2, 3, 4, 5}
  BY <1>2
<1>4. q[i] < r[i]
  BY <1>2, <1>3
<1>5. ASSUME NEW j \in 1..(i - 1) PROVE q[j] = r[j]
  <2>1. j \in {1, 2, 3, 4}
    BY <1>3
  <2>2. k[j] = l[j]
    BY <1>2
  <2>3. QED
    BY <2>1, <2>2
<1>6. QED
  BY <1>4, <1>5 DEF LexLess

(***************************************************************************)
(* Its events extend every stream at the end.  Any newest transaction does *)
(* that with the streams it has no event of.                               *)
(***************************************************************************)
StreamIn(h, s) == InOrder(Linearize(h), OfStream(h, s))

ExtendedBy(g, h, x, s) == StreamIn(g, s) = StreamIn(h, s) \o StreamIn(x, s)

\* the stream gets its events at the end
LEMMA StreamsExtend ==
  ASSUME NEW g, NEW n, NEW D, NEW t, Newest(g, n, D, t), NEW s,
         TipsOf(Part(g, D)) \subseteq g[t].parents \/ OfStream(Part(g, {t}), s) = {}
  PROVE  ExtendedBy(g, Part(g, D), Part(g, {t}), s)
<1> DEFINE h == Part(g, D)
           x == Part(g, {t})
           S == OfStream(h, s)
           T == OfStream(x, s)
           R == Linearize(g)
<1>1. /\ Grounded(g, n) /\ D \subseteq DOMAIN g /\ t \in DOMAIN g /\ {t} \subseteq DOMAIN g /\ t \notin D
  BY NewestFacts
<1>2. /\ Grounded(h, n) /\ DOMAIN h = D /\ \A v \in D : h[v] = g[v]
      /\ Grounded(x, n) /\ DOMAIN x = {t} /\ x[t] = g[t]
  BY <1>1, PartIsGrounded DEF Part
<1>3. /\ EventsOf(h) = {e \in EventsOf(g) : e[1] \in D}
      /\ EventsOf(x) = {e \in EventsOf(g) : e[1] \in {t}}
      /\ S = {e \in OfStream(g, s) : e[1] \in D}
      /\ T = {e \in OfStream(g, s) : e[1] \in {t}}
  BY <1>1, EventsOfPart
<1>4. OfStream(g, s) = S \cup T
  <2>1. \A e \in OfStream(g, s) : e[1] \in D \cup {t}
    BY <1>1, EventsAre DEF OfStream, Newest
  <2>2. QED
    BY <2>1, <1>3
<1>5. S \subseteq EventsOf(h) /\ T \subseteq EventsOf(x) /\ OfStream(g, s) \subseteq EventsOf(g)
  BY DEF OfStream
<1>6. IsFiniteSet(S) /\ IsFiniteSet(T)
  <2>1. IsFiniteSet(EventsOf(h)) /\ IsFiniteSet(EventsOf(x))
    BY <1>2, EventsAreFinite
  <2> HIDE DEF S, T
  <2>2. QED
    BY <2>1, <1>5, FS_Subset
<1>7. IsLinearOrder(R, S \cup T)
  <2>1. IsLinearOrder(R, EventsOf(g))
    BY <1>1, LinearizeIsLinear
  <2>2. S \cup T \subseteq EventsOf(g)
    BY <1>4, <1>5
  <2> HIDE DEF S, T, R
  <2>3. QED
    BY <2>1, <2>2, LinearOnSubset
<1>8. IsLinearOrder(R, S) /\ IsLinearOrder(R, T)
  <2> HIDE DEF S, T, R
  <2>1. QED
    BY <1>7 DEF IsLinearOrder
<1>9. \A e \in EventsOf(h) : KeyOf(h, e) = KeyOf(g, e)
  BY <1>2, <1>3, DepthsKept DEF KeyOf
<1>10. Agree(R, Linearize(h), S)
  <2>1. SUFFICES ASSUME NEW e \in S, NEW f \in S
                 PROVE  << e, f >> \in R <=> << e, f >> \in Linearize(h)
    BY DEF Agree
  <2>2. e \in EventsOf(g) /\ f \in EventsOf(g) /\ e \in EventsOf(h) /\ f \in EventsOf(h)
    BY <1>3, <1>5
  <2>3. KeyOf(h, e) = KeyOf(g, e) /\ KeyOf(h, f) = KeyOf(g, f)
    BY <1>9, <2>2
  <2> HIDE DEF h, S
  <2>4. QED
    BY <2>2, <2>3, LinearizeCompares
<1>11. Agree(R, Linearize(x), T)
  <2>1. SUFFICES ASSUME NEW e \in T, NEW f \in T
                 PROVE  LexLess(KeyOf(g, e), KeyOf(g, f)) <=> LexLess(KeyOf(x, e), KeyOf(x, f))
    BY <1>3, <1>5, LinearizeCompares DEF Agree
  <2>2. e \in EventsOf(g) /\ f \in EventsOf(g) /\ e \in EventsOf(x) /\ f \in EventsOf(x) /\ e[1] = t /\ f[1] = t
    BY <1>3, <1>5
  <2> DEFINE k == KeyOf(g, e)
             l == KeyOf(g, f)
             q == KeyOf(x, e)
             r == KeyOf(x, f)
  <2>3. k \in [1..5 -> Int] /\ l \in [1..5 -> Int] /\ q \in [1..5 -> Int] /\ r \in [1..5 -> Int]
    BY <1>1, <1>2, <2>2, KeysAreNumbers
  <2>4. /\ k[1] = l[1] /\ q[1] = r[1]
        /\ k[2] = q[2] /\ k[3] = q[3] /\ k[4] = q[4] /\ k[5] = q[5]
        /\ l[2] = r[2] /\ l[3] = r[3] /\ l[4] = r[4] /\ l[5] = r[5]
    BY <1>2, <2>2 DEF KeyOf
  <2>5. LexLess(k, l) => LexLess(q, r)
    <3> HIDE DEF k, l, q, r
    <3>1. QED
      BY <2>3, <2>4, SameAfterFirst
  <2>6. LexLess(q, r) => LexLess(k, l)
    <3> HIDE DEF k, l, q, r
    <3>1. QED
      BY <2>3, <2>4, SameAfterFirst
  <2>7. QED
    BY <2>5, <2>6
<1>12. Follow(R, S, T)
  <2>1. SUFFICES ASSUME NEW e \in S, NEW f \in T PROVE e # f /\ << e, f >> \in R
    BY DEF Follow
  <2>2. e \in EventsOf(g) /\ f \in EventsOf(g) /\ e[1] \in D /\ f[1] = t
    BY <1>3, <1>5
  <2>3. Depths(g)[e[1]] < Depths(g)[f[1]]
    <3>1. TipsOf(Part(g, D)) \subseteq g[t].parents
      BY <2>1
    <3>2. QED
      BY <2>2, <3>1, DeepestIfOnTips
  <2>4. LexLess(KeyOf(g, e), KeyOf(g, f))
    <3>1. KeyOf(g, e)[1] < KeyOf(g, f)[1] /\ 1 \in DOMAIN KeyOf(g, e)
      BY <2>3 DEF KeyOf
    <3>2. QED
      BY <3>1 DEF LexLess
  <2>5. QED
    BY <2>2, <2>4, <1>1, LinearizeCompares
<1>13. InOrder(R, S) = InOrder(Linearize(h), S) /\ InOrder(R, T) = InOrder(Linearize(x), T)
  <2> HIDE DEF S, T, R, h, x
  <2>1. QED
    BY <1>6, <1>8, <1>10, <1>11, OrdersThatAgree
<1>14. InOrder(R, S \cup T) = InOrder(R, S) \o InOrder(R, T)
  <2> HIDE DEF S, T, R
  <2>1. QED
    BY <1>6, <1>7, <1>12, InOrderOfUnion
<1>15. QED
  BY <1>4, <1>13, <1>14 DEF ExtendedBy, StreamIn

\* it is a tip, and its parents no longer are
LEMMA NewTips ==
  ASSUME NEW g, NEW n, NEW D, NEW t, Newest(g, n, D, t)
  PROVE  TipsOf(g) = (TipsOf(Part(g, D)) \ g[t].parents) \cup {t}
<1>1. t \notin g[t].parents /\ \A u \in D : t \notin g[u].parents
  BY NewestFacts DEF Grounded
<1>2. DOMAIN g = D \cup {t} /\ DOMAIN Part(g, D) = D /\ \A u \in D : Part(g, D)[u] = g[u]
  BY DEF Newest, Part
<1>3. t \notin D
  BY NewestFacts
<1>4. QED
  BY <1>1, <1>2, <1>3 DEF TipsOf

(***************************************************************************)
(* A list: a sequence, whatever it is of.                                  *)
(***************************************************************************)
Listed(q) == Len(q) \in Nat /\ DOMAIN q = 1..Len(q) /\ q = [i \in 1..Len(q) |-> q[i]]

\* a sequence is listed
LEMMA SequencesAreListed ==
  ASSUME NEW S, NEW q \in Seq(S)
  PROVE  Listed(q) /\ \A i \in 1..Len(q) : q[i] \in S
BY DEF Listed

\* and what is listed is a sequence
LEMMA ListedIsSequence ==
  ASSUME NEW q, Listed(q), NEW S, \A i \in 1..Len(q) : q[i] \in S
  PROVE  q \in Seq(S)
<1>1. q \in [1..Len(q) -> S]
  BY DEF Listed
<1>2. QED
  BY <1>1 DEF Listed

\* what Append makes of a list
LEMMA AppendListed ==
  ASSUME NEW q, Listed(q), NEW x
  PROVE  /\ Listed(Append(q, x))
         /\ Len(Append(q, x)) = Len(q) + 1
         /\ Append(q, x)[Len(q) + 1] = x
         /\ \A i \in 1..Len(q) : Append(q, x)[i] = q[i]
<1> DEFINE S == {q[i] : i \in 1..Len(q)} \cup {x}
<1>1. q \in Seq(S) /\ x \in S
  <2>1. \A i \in 1..Len(q) : q[i] \in S
    OBVIOUS
  <2>2. x \in S
    OBVIOUS
  <2> HIDE DEF S
  <2>3. QED
    BY <2>1, <2>2, ListedIsSequence
<1> HIDE DEF S
<1>2. /\ Append(q, x) \in Seq(S)
      /\ Len(Append(q, x)) = Len(q) + 1
      /\ \A i \in 1..Len(q) : Append(q, x)[i] = q[i]
      /\ Append(q, x)[Len(q) + 1] = x
  BY <1>1, AppendProperties
<1>3. Listed(Append(q, x))
  BY <1>2, SequencesAreListed
<1>4. QED
  BY <1>2, <1>3

\* what Head and Tail make of a list
LEMMA TailListed ==
  ASSUME NEW q, Listed(q), q # << >>
  PROVE  /\ Listed(Tail(q))
         /\ 1 \in 1..Len(q) /\ Head(q) = q[1]
         /\ \A i \in 1..Len(Tail(q)) : i + 1 \in 1..Len(q) /\ Tail(q)[i] = q[i + 1]
<1> DEFINE S == {q[i] : i \in 1..Len(q)}
<1>1. q \in Seq(S)
  <2>1. \A i \in 1..Len(q) : q[i] \in S
    OBVIOUS
  <2> HIDE DEF S
  <2>2. QED
    BY <2>1, ListedIsSequence
<1> HIDE DEF S
<1>2. Tail(q) \in Seq(S) /\ Len(Tail(q)) = Len(q) - 1 /\ \A i \in 1..Len(Tail(q)) : Tail(q)[i] = q[i + 1]
  BY <1>1, HeadTailProperties
<1>3. Len(q) \in Nat /\ Len(q) # 0
  BY <1>1
<1>4. Head(q) = q[1]
  BY <1>1
<1>5. Listed(Tail(q))
  BY <1>2, SequencesAreListed
<1>6. QED
  BY <1>2, <1>3, <1>4, <1>5

\* a finite set as a sequence has its members and no other
LEMMA SetToSeqListed ==
  ASSUME NEW S, IsFiniteSet(S)
  PROVE  SetToSeq(S) \in Seq(S) /\ ToSet(SetToSeq(S)) = S
<1>1. Cardinality(S) \in Nat /\ ExistsBijection(1..Cardinality(S), S)
  BY FS_CardinalityType
<1>2. PICK f \in Bijection(1..Cardinality(S), S) : TRUE
  BY <1>1 DEF ExistsBijection
<1>3. f \in [1..Cardinality(S) -> S] /\ IsInjective(f)
  BY <1>2 DEF Bijection, Injection, IsInjective
<1> DEFINE g == SetToSeq(S)
<1>4. g \in [1..Cardinality(S) -> S] /\ IsInjective(g)
  BY <1>3 DEF SetToSeq
<1>5. g \in Injection(1..Cardinality(S), S)
  BY <1>4 DEF Injection, IsInjective
<1> HIDE DEF g
<1>6. IsFiniteSet(1..Cardinality(S)) /\ Cardinality(1..Cardinality(S)) = Cardinality(S)
  BY <1>1, FS_Interval
<1>7. g \in Surjection(1..Cardinality(S), S)
  BY <1>5, <1>6, FS_Injection
<1>8. \A s \in S : \E i \in 1..Cardinality(S) : g[i] = s
  BY <1>7 DEF Surjection
<1>9. g \in Seq(S) /\ DOMAIN g = 1..Cardinality(S)
  BY <1>1, <1>4
<1>10. ToSet(g) = S
  BY <1>4, <1>8, <1>9 DEF ToSet
<1>11. QED
  BY <1>9, <1>10 DEF g

-------------------------------------------------------------------------------
(***************************************************************************)
(* What the streams of a history hold.                                     *)
(***************************************************************************)
LEMMA OfStreamFinite ==
  ASSUME NEW h, NEW n, Grounded(h, n), NEW s
  PROVE  /\ OfStream(h, s) \subseteq EventsOf(h)
         /\ IsFiniteSet(OfStream(h, s))
         /\ IsLinearOrder(Linearize(h), OfStream(h, s))
<1>1. OfStream(h, s) \subseteq EventsOf(h)
  BY DEF OfStream
<1>2. QED
  BY <1>1, EventsAreFinite, LinearizeIsLinear, LinearOnSubset, FS_Subset

\* the events of a stream are those it had and those of the newest
LEMMA StreamsGrow ==
  ASSUME NEW g, NEW n, NEW D, NEW t, Newest(g, n, D, t), NEW s
  PROVE  /\ OfStream(g, s) = OfStream(Part(g, D), s) \cup OfStream(Part(g, {t}), s)
         /\ OfStream(Part(g, D), s) \cap OfStream(Part(g, {t}), s) = {}
         /\ Cardinality(OfStream(g, s)) = Cardinality(OfStream(Part(g, D), s)) + Cardinality(OfStream(Part(g, {t}), s))
<1> DEFINE S == OfStream(Part(g, D), s)
           T == OfStream(Part(g, {t}), s)
<1>1. /\ Grounded(g, n) /\ D \subseteq DOMAIN g /\ {t} \subseteq DOMAIN g /\ t \notin D
  BY NewestFacts
<1>2. S = {e \in OfStream(g, s) : e[1] \in D} /\ T = {e \in OfStream(g, s) : e[1] \in {t}}
  BY <1>1, EventsOfPart
<1>3. \A e \in OfStream(g, s) : e[1] \in D \cup {t}
  BY <1>1, EventsAre DEF OfStream, Newest
<1>4. IsFiniteSet(OfStream(g, s))
  BY <1>1, OfStreamFinite
<1>5. OfStream(g, s) = S \cup T /\ S \cap T = {}
  BY <1>1, <1>2, <1>3
<1>6. S \subseteq OfStream(g, s) /\ T \subseteq OfStream(g, s)
  BY <1>5
<1> HIDE DEF S, T
<1>7. IsFiniteSet(S) /\ IsFiniteSet(T)
  BY <1>4, <1>6, FS_Subset
<1>8. Cardinality(S \cup T) = Cardinality(S) + Cardinality(T)
  <2>1. Cardinality(S \cup T) = Cardinality(S) + Cardinality(T) - Cardinality(S \cap T)
    BY <1>7, FS_Union
  <2>2. Cardinality(S \cap T) = 0
    BY <1>5, FS_EmptySet
  <2>3. Cardinality(S) \in Nat /\ Cardinality(T) \in Nat
    BY <1>7, FS_CardinalityType
  <2>4. QED
    BY <2>1, <2>2, <2>3
<1>9. QED
  BY <1>5, <1>8 DEF S, T

\* every event is of one of the streams
LEMMA EventsHaveStreams ==
  ASSUME NEW h, NEW n, Grounded(h, n)
  PROVE  /\ UNION {OfStream(h, s) : s \in Streams} = EventsOf(h)
         /\ EventsOf(h) \subseteq Nat \X Nat
<1>1. ASSUME NEW e \in EventsOf(h) PROVE StreamOf(h, e) \in Streams
  <2>1. e[1] \in DOMAIN h /\ e[2] \in 1..Len(h[e[1]].events)
    BY EventsAre
  <2>2. h[e[1]].events \in Seq(Streams)
    BY <2>1 DEF Grounded
  <2>3. QED
    BY <2>1, <2>2 DEF StreamOf
<1>2. \A s \in Streams : OfStream(h, s) = {e \in EventsOf(h) : StreamOf(h, e) = s}
  BY DEF OfStream
<1>3. EventsOf(h) \subseteq Nat \X Nat
  BY EventsAre
<1>4. QED
  BY <1>1, <1>2, <1>3

\* a stream holds its events, once each
LEMMA ByStreamHolds ==
  ASSUME NEW h, NEW n, Grounded(h, n)
  PROVE  /\ ByStream(h) = [s \in Streams |-> InOrder(Linearize(h), OfStream(h, s))]
         /\ \A s \in Streams : /\ ByStream(h)[s] \in Seq(Nat \X Nat)
                               /\ ToSet(ByStream(h)[s]) = OfStream(h, s)
                               /\ Len(ByStream(h)[s]) = Cardinality(OfStream(h, s))
<1>1. ByStream(h) = [s \in Streams |-> InOrder(Linearize(h), OfStream(h, s))]
  BY DEF ByStream
<1>2. ASSUME NEW s \in Streams
      PROVE  /\ ByStream(h)[s] \in Seq(Nat \X Nat)
             /\ ToSet(ByStream(h)[s]) = OfStream(h, s)
             /\ Len(ByStream(h)[s]) = Cardinality(OfStream(h, s))
  <2> DEFINE S == OfStream(h, s)
             R == Linearize(h)
             q == InOrder(R, S)
  <2>1. IsFiniteSet(S) /\ IsLinearOrder(R, S) /\ S \subseteq Nat \X Nat
    BY OfStreamFinite, EventsHaveStreams
  <2>2. ByStream(h)[s] = q
    BY <1>1
  <2> HIDE DEF S, R, q
  <2>3. /\ q \in Seq(S) /\ Len(q) = Cardinality(S) /\ DOMAIN q = 1..Cardinality(S)
        /\ \A i \in 1..Cardinality(S) : q[i] \in S
        /\ \A e \in S : q[Position(R, S, e)] = e
    BY <2>1, InOrderIsSequence DEF q
  <2>4. \A e \in S : Position(R, S, e) \in 1..Cardinality(S)
    BY <2>1, Positions
  <2>5. ToSet(q) = S
    BY <2>3, <2>4 DEF ToSet
  <2>6. q \in Seq(Nat \X Nat)
    BY <2>1, <2>3, SeqMonotonic
  <2>7. QED
    BY <2>2, <2>3, <2>5, <2>6 DEF S
<1>3. QED
  BY <1>1, <1>2

\* the members of two sequences joined
LEMMA ToSetOfConcat ==
  ASSUME NEW S, NEW q \in Seq(S), NEW r \in Seq(S)
  PROVE  q \o r \in Seq(S) /\ ToSet(q \o r) = ToSet(q) \cup ToSet(r)
<1>1. Range(q \o r) = Range(q) \cup Range(r)
  BY RangeConcatenation
<1>2. q \o r \in Seq(S)
  BY ConcatProperties
<1>3. QED
  BY <1>1, <1>2 DEF ToSet, Range

(***************************************************************************)
(* The ingestion log.                                                      *)
(***************************************************************************)
Numbering(seqs) ==
  /\ seqs \in [DOMAIN seqs -> Nat \ {0}]
  /\ IsFiniteSet(DOMAIN seqs)
  /\ IsInjective(seqs)

\* the last sequence number bounds all
LEMMA LastSeqIs ==
  ASSUME NEW seqs, Numbering(seqs)
  PROVE  /\ LastSeq(seqs) \in Nat
         /\ \A e \in DOMAIN seqs : seqs[e] <= LastSeq(seqs)
         /\ LastSeq(seqs) = 0 \/ \E e \in DOMAIN seqs : seqs[e] = LastSeq(seqs)
<1> DEFINE V == {seqs[e] : e \in DOMAIN seqs}
           S == {0} \cup V
<1>1. IsFiniteSet(V)
  BY FiniteImage DEF Numbering
<1>2. IsFiniteSet(S)
  <2> HIDE DEF V
  <2>1. QED
    BY <1>1, FS_Singleton, FS_Union
<1>3. S \subseteq Nat /\ S # {}
  BY DEF Numbering
<1>4. Max(S) \in S /\ \A x \in S : x <= Max(S)
  <2> HIDE DEF S
  <2>1. QED
    BY <1>2, <1>3, MaxIsGreatest
<1>5. LastSeq(seqs) = Max(S)
  BY DEF LastSeq
<1>6. Max(S) \in Nat /\ (Max(S) = 0 \/ Max(S) \in V)
  <2>1. Max(S) \in Nat
    <3> HIDE DEF S
    <3>1. QED
      BY <1>3, <1>4
  <2>2. Max(S) = 0 \/ Max(S) \in V
    <3> DEFINE m == Max(S)
    <3>1. m \in S
      BY <1>4
    <3> HIDE DEF m
    <3>2. QED
      BY <3>1 DEF m
  <2>3. QED
    BY <2>1, <2>2
<1>7. \A e \in DOMAIN seqs : seqs[e] \in S
  OBVIOUS
<1>8. \A e \in DOMAIN seqs : seqs[e] <= Max(S)
  <2> HIDE DEF S
  <2>1. QED
    BY <1>4, <1>7
<1>9. Max(S) \in V => \E e \in DOMAIN seqs : seqs[e] = Max(S)
  <2> DEFINE m == Max(S)
  <2> HIDE DEF m
  <2>1. m \in V => \E e \in DOMAIN seqs : seqs[e] = m
    OBVIOUS
  <2>2. QED
    BY <2>1 DEF m
<1>10. QED
  <2> HIDE DEF S, V
  <2>1. QED
    BY <1>5, <1>6, <1>8, <1>9

\* new events get new numbers, above the last
LEMMA AllocatedIs ==
  ASSUME NEW seqs, Numbering(seqs), NEW h, NEW n, Grounded(h, n)
  PROVE  /\ Numbering(Allocated(seqs, h))
         /\ DOMAIN Allocated(seqs, h) = DOMAIN seqs \cup EventsOf(h)
         /\ \A e \in DOMAIN seqs : Allocated(seqs, h)[e] = seqs[e]
         /\ \A e \in EventsOf(h) \ DOMAIN seqs : Allocated(seqs, h)[e] > LastSeq(seqs)
<1> DEFINE new == EventsOf(h) \ DOMAIN seqs
           R == Linearize(h)
           m == LastSeq(seqs)
           a == Allocated(seqs, h)
<1>1. IsFiniteSet(EventsOf(h)) /\ IsLinearOrder(R, EventsOf(h))
  BY EventsAreFinite, LinearizeIsLinear
<1>2. new \subseteq EventsOf(h)
  OBVIOUS
<1>3. IsFiniteSet(new) /\ IsLinearOrder(R, new)
  <2> HIDE DEF new, R
  <2>1. QED
    BY <1>1, <1>2, FS_Subset, LinearOnSubset
<1>4. /\ Cardinality(new) \in Nat
      /\ \A e \in new : Position(R, new, e) \in 1..Cardinality(new)
      /\ \A e, f \in new : Position(R, new, e) = Position(R, new, f) => e = f
  <2> HIDE DEF new, R
  <2>1. QED
    BY <1>3, Positions
<1>5. m \in Nat /\ (\A e \in DOMAIN seqs : seqs[e] <= m)
  BY LastSeqIs
<1>6. a = [e \in DOMAIN seqs \cup new |-> IF e \in DOMAIN seqs THEN seqs[e] ELSE (m + 1) + Position(R, new, e) - 1]
  BY DEF Allocated, NextSeq
<1>7. DOMAIN seqs \cup new = DOMAIN seqs \cup EventsOf(h)
  OBVIOUS
<1>8. DOMAIN a = DOMAIN seqs \cup EventsOf(h) /\ \A e \in DOMAIN seqs : a[e] = seqs[e]
  BY <1>6, <1>7
<1>9. \A e \in DOMAIN seqs : e \notin new
  OBVIOUS
<1>10. \A e \in EventsOf(h) : e \in new \/ e \in DOMAIN seqs
  OBVIOUS
<1> HIDE DEF new, R, m, a
<1>11. ASSUME NEW e \in new
      PROVE  /\ Position(R, new, e) \in Nat \ {0}
             /\ a[e] = m + Position(R, new, e)
             /\ a[e] \in Nat \ {0} /\ a[e] > m
  <2>1. Position(R, new, e) \in Nat \ {0}
    BY <1>4
  <2>2. a[e] = (m + 1) + Position(R, new, e) - 1
    BY <1>6, <1>9
  <2>3. QED
    BY <2>1, <2>2, <1>5
<1>12. a \in [DOMAIN a -> Nat \ {0}]
  <2>1. \A e \in DOMAIN a : a[e] \in Nat \ {0}
    BY <1>8, <1>10, <1>11 DEF Numbering
  <2>2. a = [e \in DOMAIN a |-> a[e]]
    BY <1>6
  <2>3. QED
    BY <2>1, <2>2
<1>13. IsFiniteSet(DOMAIN a)
  BY <1>1, <1>8, FS_Union DEF Numbering
<1>14. IsInjective(a)
  <2>1. SUFFICES ASSUME NEW e \in DOMAIN a, NEW f \in DOMAIN a, a[e] = a[f] PROVE e = f
    BY DEF IsInjective
  <2>2. CASE e \in DOMAIN seqs /\ f \in DOMAIN seqs
    BY <2>1, <2>2, <1>8 DEF Numbering, IsInjective
  <2>3. CASE e \in new /\ f \in new
    <3>1. m + Position(R, new, e) = m + Position(R, new, f)
      BY <2>1, <2>3, <1>11
    <3>2. Position(R, new, e) = Position(R, new, f)
      BY <3>1, <2>3, <1>5, <1>11
    <3>3. QED
      BY <3>2, <2>3, <1>4
  <2>4. ASSUME NEW x \in DOMAIN seqs, NEW y \in new PROVE a[x] # a[y]
    <3>1. a[x] = seqs[x] /\ seqs[x] <= m /\ seqs[x] \in Nat
      BY <1>5, <1>8 DEF Numbering
    <3>2. a[y] > m /\ a[y] \in Nat
      BY <1>11
    <3>3. QED
      BY <3>1, <3>2, <1>5
  <2>5. QED
    BY <2>1, <2>2, <2>3, <2>4, <1>8, <1>10
<1>15. \A e \in EventsOf(h) \ DOMAIN seqs : a[e] > m
  BY <1>10, <1>11
<1>16. QED
  BY <1>8, <1>12, <1>13, <1>14, <1>15 DEF a, m, Numbering

\* part of a numbering is one
LEMMA RestrictedNumbering ==
  ASSUME NEW seqs, Numbering(seqs), NEW T, T \subseteq DOMAIN seqs
  PROVE  Numbering([e \in T |-> seqs[e]])
<1> DEFINE r == [e \in T |-> seqs[e]]
<1>1. DOMAIN r = T /\ \A e \in T : r[e] = seqs[e]
  OBVIOUS
<1>2. r \in [T -> Nat \ {0}]
  BY DEF Numbering
<1>3. IsFiniteSet(T)
  BY FS_Subset DEF Numbering
<1>4. IsInjective(r)
  <2> HIDE DEF r
  <2>1. QED
    BY <1>1 DEF Numbering, IsInjective
<1>5. QED
  <2> HIDE DEF r
  <2>1. Numbering(r)
    BY <1>1, <1>2, <1>3, <1>4 DEF Numbering
  <2>2. QED
    BY <2>1 DEF r

-------------------------------------------------------------------------------
(***************************************************************************)
(* The inductive invariant, first part: what is stored and kept.           *)
(***************************************************************************)
Recorded(x, t, m) ==
  /\ x.parents \subseteq 1..(t - 1)
  /\ x.knew \subseteq 1..(t - 1)
  /\ x.replica \in 1..m
  /\ x.created \in Nat
  /\ x.events \in Seq(Streams)
  /\ IsFiniteSet(DOMAIN x.bases)
  /\ \A s \in DOMAIN x.bases : s \in Streams /\ x.bases[s] \in Nat

Typed ==
  /\ Listed(txn)
  /\ Len(txn) <= MaxTransactions
  /\ minted \in Nat
  /\ \A t \in 1..Len(txn) : Recorded(txn[t], t, minted)
  /\ files \in [Copies -> SUBSET (1..Len(txn))]
  /\ identity \in [Copies -> [id : 0..minted, print : Copies \cup {None}]]
  /\ checkpoint \in [Copies -> Nat]
  /\ pending \in [Copies -> {None} \cup [txn : Nat, tips : SUBSET Nat]]
  /\ torn \in [Copies -> BOOLEAN] /\ open \in [Copies -> BOOLEAN]
  /\ unlogged \in [Copies -> BOOLEAN] /\ abandoned \in [Copies -> BOOLEAN]
  /\ DOMAIN index = Copies /\ DOMAIN logFile = Copies
  /\ DOMAIN handled = Copies /\ DOMAIN remaining = Copies

\* an open store has an identity of its own copy
Identified ==
  \A w \in Copies : /\ open[w] => identity[w].print = w
                    /\ identity[w].print = w => identity[w].id # 0

\* the index i, made of the transactions h
WellIndexed(i, h) ==
  /\ i.tips \subseteq DOMAIN h
  /\ \A s \in Streams : i.streams[s] \in Seq(Nat \X Nat)
  /\ Numbering(i.seqs)
  /\ DOMAIN i.seqs = EventsOf(h)
  /\ UNION {ToSet(i.streams[s]) : s \in Streams} = EventsOf(h)

Indexed ==
  \A w \in Copies :
    /\ index[w].headers \subseteq files[w]
    /\ WellIndexed(index[w], Part(txn, index[w].headers))
    /\ ~open[w] => index[w] = NoIndex

\* a fork found among the headers
Forked(fork, headers) == fork.stream \in Streams /\ fork.heads \subseteq headers

UnderwayAt(v) ==
  /\ pending[v] # None =>
       /\ open[v]
       /\ pending[v].txn \in files[v]
       /\ pending[v].tips \subseteq index[v].headers \cup {pending[v].txn}
       /\ index[v].headers \subseteq 1..(pending[v].txn - 1)
  /\ remaining[v] # << >> => open[v]
  /\ Listed(remaining[v])
  /\ \A i \in 1..Len(remaining[v]) : Forked(remaining[v][i], index[v].headers)

Underway == \A v \in Copies : UnderwayAt(v)

Stored == Typed /\ Identified /\ Indexed /\ Underway

(***************************************************************************)
(* Histories of the recorded transactions.                                 *)
(***************************************************************************)
LEMMA RecordedIsGrounded ==
  ASSUME Typed, NEW S, S \subseteq 1..Len(txn)
  PROVE  Grounded(Part(txn, S), Len(txn)) /\ DOMAIN Part(txn, S) = S
<1>1. Len(txn) \in Nat
  BY DEF Typed, Listed
<1>2. \A t \in S : /\ txn[t].parents \subseteq 1..(t - 1) /\ txn[t].created \in Nat
                   /\ txn[t].replica \in Nat /\ txn[t].events \in Seq(Streams)
  BY DEF Typed, Recorded
<1>3. QED
  BY <1>1, <1>2 DEF Grounded, Part

\* a part depends on its transactions only
LEMMA SamePart ==
  ASSUME NEW q, NEW r, NEW S, \A t \in S : q[t] = r[t]
  PROVE  Part(q, S) = Part(r, S)
BY DEF Part

\* a history of the model is a part of txn
LEMMA HistoryIsPart ==
  ASSUME NEW S
  PROVE  History(S) = Part(txn, S)
BY DEF History, Part

\* a write: what is given to WriteTransaction
Writable(w, parents, registered, events) ==
  /\ open[w]
  /\ parents \subseteq index[w].headers
  /\ registered \subseteq Streams /\ IsFiniteSet(registered)
  /\ events \in Seq(Streams)

\* what WriteTransaction does
LEMMA Written ==
  ASSUME Stored, NEW w \in Copies, NEW parents, NEW registered, NEW events,
         Writable(w, parents, registered, events), WriteTransaction(w, parents, registered, events)
  PROVE  /\ Listed(txn') /\ Len(txn') = Len(txn) + 1 /\ Len(txn') <= MaxTransactions
         /\ \A t \in 1..Len(txn) : txn'[t] = txn[t]
         /\ txn'[Len(txn) + 1] = [replica |-> identity[w].id,
                                  parents |-> parents,
                                  created |-> Len(txn) + Skew[w],
                                  bases |-> [s \in registered |-> StreamHead(w, s)],
                                  events |-> events,
                                  knew |-> index[w].headers]
         /\ \A t \in 1..Len(txn') : Recorded(txn'[t], t, minted')
         /\ files' = [files EXCEPT ![w] = @ \cup {Len(txn) + 1}]
         /\ files' \in [Copies -> SUBSET (1..Len(txn'))]
<1> DEFINE x == [replica |-> identity[w].id,
                 parents |-> parents,
                 created |-> Len(txn) + Skew[w],
                 bases |-> [s \in registered |-> StreamHead(w, s)],
                 events |-> events,
                 knew |-> index[w].headers]
<1>1. txn' = Append(txn, x) /\ Len(txn) < MaxTransactions /\ minted' = minted
      /\ files' = [files EXCEPT ![w] = @ \cup {Len(txn) + 1}]
  BY DEF WriteTransaction
<1>2. /\ Listed(txn) /\ Len(txn) \in Nat /\ minted \in Nat
      /\ files \in [Copies -> SUBSET (1..Len(txn))]
      /\ index[w].headers \subseteq 1..Len(txn)
  BY DEF Stored, Typed, Indexed, Listed
<1>3. Recorded(x, Len(txn) + 1, minted)
  <2>1. x.parents \subseteq 1..Len(txn) /\ x.knew \subseteq 1..Len(txn)
    BY <1>2 DEF Writable
  <2>2. x.replica \in 1..minted
    BY DEF Stored, Typed, Identified, Writable
  <2>3. x.created \in Nat
    BY <1>2, SkewAssumption
  <2>4. IsFiniteSet(DOMAIN x.bases) /\ x.events \in Seq(Streams)
    BY DEF Writable
  <2>5. ASSUME NEW s \in DOMAIN x.bases PROVE s \in Streams /\ x.bases[s] \in Nat
    <3>1. s \in Streams
      BY DEF Writable
    <3>2. index[w].streams[s] \in Seq(Nat \X Nat)
      BY <3>1 DEF Stored, Indexed, WellIndexed
    <3>3. QED
      BY <3>1, <3>2 DEF StreamHead
  <2>6. (Len(txn) + 1) - 1 = Len(txn)
    BY <1>2
  <2> HIDE DEF x
  <2>7. QED
    BY <2>1, <2>2, <2>3, <2>4, <2>5, <2>6 DEF Recorded
<1> HIDE DEF x
<1>4. /\ Listed(txn') /\ Len(txn') = Len(txn) + 1 /\ txn'[Len(txn) + 1] = x
      /\ \A t \in 1..Len(txn) : txn'[t] = txn[t]
  BY <1>1, <1>2, AppendListed
<1>5. \A t \in 1..Len(txn') : Recorded(txn'[t], t, minted')
  <2>1. \A t \in 1..Len(txn) : Recorded(txn[t], t, minted)
    BY DEF Stored, Typed
  <2>2. \A t \in 1..Len(txn') : t \in 1..Len(txn) \/ t = Len(txn) + 1
    BY <1>2, <1>4
  <2>3. QED
    BY <2>1, <2>2, <1>1, <1>3, <1>4
<1>6. Len(txn') <= MaxTransactions
  BY <1>1, <1>2, <1>4, MaxTransactionsAssumption
<1>7. files' \in [Copies -> SUBSET (1..Len(txn'))]
  BY <1>1, <1>2, <1>4
<1>8. QED
  BY <1>1, <1>4, <1>5, <1>6, <1>7 DEF x

(***************************************************************************)
(* The writers, as uses of WriteTransaction.                               *)
(***************************************************************************)
LEMMA AppendWrites ==
  ASSUME Stored, NEW w \in Copies, WriteBatch(w)
  PROVE  \E registered, events :
           /\ Writable(w, index[w].tips, registered, events)
           /\ ToSet(events) \subseteq registered
           /\ WriteTransaction(w, index[w].tips, registered, events)
<1>1. PICK batch \in Batches[w] :
        WriteTransaction(w, index[w].tips, batch.reads \cup batch.writes, SetToSeq(batch.writes))
  BY DEF WriteBatch, ParentsFor
<1>2. /\ batch.reads \subseteq Streams /\ IsFiniteSet(batch.reads)
      /\ batch.writes \subseteq Streams /\ IsFiniteSet(batch.writes)
  BY BatchesAssumption
<1>3. SetToSeq(batch.writes) \in Seq(batch.writes) /\ ToSet(SetToSeq(batch.writes)) = batch.writes
  BY <1>2, SetToSeqListed
<1>4. SetToSeq(batch.writes) \in Seq(Streams)
  BY <1>2, <1>3, SeqMonotonic
<1>5. index[w].tips \subseteq index[w].headers
  <2>1. DOMAIN Part(txn, index[w].headers) = index[w].headers
    BY DEF Part
  <2>2. QED
    BY <2>1 DEF Stored, Indexed, WellIndexed
<1>6. open[w]
  BY DEF WriteBatch
<1>7. Writable(w, index[w].tips, batch.reads \cup batch.writes, SetToSeq(batch.writes))
  BY <1>2, <1>4, <1>5, <1>6, FS_Union DEF Writable
<1>8. QED
  BY <1>1, <1>3, <1>7

\* a resolution is a write on the heads of its fork
LEMMA ResolutionWrites ==
  ASSUME Stored, NEW w \in Copies, ResolveFork(w)
  PROVE  \E events :
           /\ Writable(w, Head(remaining[w]).heads, ToSet(events), events)
           /\ WriteTransaction(w, Head(remaining[w]).heads, ToSet(events), events)
<1> DEFINE fork == Head(remaining[w])
<1>1. PICK events \in {<< >>, << fork.stream >>} :
        WriteTransaction(w, fork.heads, ToSet(events), events)
  BY DEF ResolveFork
<1>2. remaining[w] # << >> /\ Listed(remaining[w]) /\ open[w]
      /\ \A i \in 1..Len(remaining[w]) : Forked(remaining[w][i], index[w].headers)
  BY DEF ResolveFork, Stored, Underway, UnderwayAt
<1>3. Forked(fork, index[w].headers)
  BY <1>2, TailListed
<1> HIDE DEF fork
<1>4. events \in Seq(Streams)
  <2>1. fork.stream \in Streams
    BY <1>3 DEF Forked
  <2>2. << >> \in Seq(Streams) /\ << fork.stream >> \in Seq(Streams)
    BY <2>1
  <2>3. QED
    BY <2>2
<1>5. ToSet(events) \subseteq Streams /\ IsFiniteSet(ToSet(events))
  <2>1. CASE events = << >>
    <3>1. ToSet(events) = {}
      BY <2>1 DEF ToSet
    <3>2. QED
      BY <3>1, FS_EmptySet
  <2>2. CASE events = << fork.stream >>
    <3>1. ToSet(events) = {fork.stream}
      BY <2>2 DEF ToSet
    <3>2. QED
      BY <3>1, <1>3, FS_Singleton DEF Forked
  <2>3. QED
    BY <2>1, <2>2
<1>6. Writable(w, fork.heads, ToSet(events), events)
  BY <1>2, <1>3, <1>4, <1>5 DEF Writable, Forked
<1>7. QED
  BY <1>1, <1>6 DEF fork

\* the greater of two numbers
LEMMA MaxOfTwo ==
  ASSUME NEW x \in Nat, NEW y \in Nat
  PROVE  Max({x, y}) \in {x, y} /\ Max({x, y}) \in Nat /\ x <= Max({x, y}) /\ y <= Max({x, y})
<1>1. IsFiniteSet({x, y})
  <2>1. IsFiniteSet({x}) /\ IsFiniteSet({y}) /\ {x, y} = {x} \cup {y}
    BY FS_Singleton
  <2>2. IsFiniteSet({x} \cup {y})
    BY <2>1, FS_Union
  <2>3. QED
    BY <2>1, <2>2, Zenon
<1> DEFINE S == {x, y}
<1>2. S \subseteq Nat /\ S # {} /\ x \in S /\ y \in S
  OBVIOUS
<1>3. IsFiniteSet(S)
  BY <1>1
<1>4. Max(S) \in S /\ \A z \in S : z <= Max(S)
  <2> HIDE DEF S
  <2>1. QED
    BY <1>2, <1>3, MaxIsGreatest
<1>5. QED
  BY <1>4

\* what loading the identity does: a new id, or the recorded one
LEMMA IdentityLoaded ==
  ASSUME Typed, Identified, NEW w \in Copies, LoadIdentity(w)
  PROVE  /\ minted' \in Nat /\ minted <= minted'
         /\ ReplicaId(w) \in 1..minted'
         /\ ReplicaId(w) # minted + 1 => KeepsIdentity(w) /\ ReplicaId(w) = identity[w].id
         /\ ~KeepsIdentity(w) => ReplicaId(w) = minted + 1
         /\ identity' = [identity EXCEPT ![w] = [id |-> ReplicaId(w), print |-> w]]
         /\ identity' \in [Copies -> [id : 0..minted', print : Copies \cup {None}]]
<1>1. minted \in Nat /\ identity[w].id \in 0..minted
  BY DEF Typed
<1>2. KeepsIdentity(w) => identity[w].id \in 1..minted
  BY <1>1 DEF KeepsIdentity, Identified
<1>3. /\ ReplicaId(w) \in Nat \ {0}
      /\ ReplicaId(w) # minted + 1 => KeepsIdentity(w) /\ ReplicaId(w) = identity[w].id
      /\ ~KeepsIdentity(w) => ReplicaId(w) = minted + 1
  BY <1>1, <1>2 DEF ReplicaId
<1>4. minted' = Max({minted, ReplicaId(w)})
      /\ identity' = [identity EXCEPT ![w] = [id |-> ReplicaId(w), print |-> w]]
  BY DEF LoadIdentity
<1>5. minted' \in Nat /\ minted <= minted' /\ ReplicaId(w) <= minted'
  BY <1>1, <1>3, <1>4, MaxOfTwo
<1>6. ReplicaId(w) \in 1..minted'
  BY <1>3, <1>5
<1>7. identity' \in [Copies -> [id : 0..minted', print : Copies \cup {None}]]
  <2>1. \A v \in Copies : identity[v] \in [id : 0..minted', print : Copies \cup {None}]
    BY <1>1, <1>5 DEF Typed
  <2>2. [id |-> ReplicaId(w), print |-> w] \in [id : 0..minted', print : Copies \cup {None}]
    BY <1>6
  <2>3. DOMAIN identity = Copies /\ identity = [v \in Copies |-> identity[v]]
    BY DEF Typed
  <2>4. QED
    BY <1>4, <2>1, <2>2, <2>3
<1>8. QED
  BY <1>3, <1>4, <1>5, <1>6, <1>7

\* ids only become more
LEMMA RecordedLater ==
  ASSUME NEW x, NEW t, NEW m \in Nat, NEW k \in Nat, m <= k, Recorded(x, t, m)
  PROVE  Recorded(x, t, k)
BY DEF Recorded

(***************************************************************************)
(* Types are kept, action by action.                                       *)
(***************************************************************************)
LEMMA NothingIndexed ==
  ASSUME NEW q
  PROVE  WellIndexed(NoIndex, Part(q, {})) /\ NoIndex.headers = {}
<1>1. EventsOf(Part(q, {})) = {} /\ DOMAIN Part(q, {}) = {}
  BY DEF EventsOf, Part
<1>2. NoIndex.headers = {} /\ NoIndex.tips = {} /\ NoIndex.seqs = << >>
      /\ \A s \in Streams : NoIndex.streams[s] = << >>
  BY DEF NoIndex
<1>3. Numbering(<< >>) /\ DOMAIN << >> = {}
  BY FS_EmptySet DEF Numbering, IsInjective
<1>4. ToSet(<< >>) = {} /\ << >> \in Seq(Nat \X Nat)
  BY DEF ToSet
<1>5. UNION {ToSet(NoIndex.streams[s]) : s \in Streams} = {}
  BY <1>2, <1>4
<1>6. QED
  BY <1>1, <1>2, <1>3, <1>4, <1>5 DEF WellIndexed

\* the empty list
LEMMA EmptyListed == Listed(<< >>) /\ Len(<< >>) = 0
BY DEF Listed

\* the initial states
LEMMA InitTyped == Init => Stored
<1> SUFFICES ASSUME Init PROVE Stored
  OBVIOUS
<1>1. Typed
  <2>1. Listed(txn) /\ Len(txn) = 0
    BY DEF Init, Listed
  <2>2. 0 <= MaxTransactions
    BY MaxTransactionsAssumption
  <2>3. QED
    BY <2>1, <2>2 DEF Init, Typed
<1>2. Identified
  BY NoneAssumption DEF Init, Identified
<1>3. Indexed
  <2>1. \A w \in Copies : index[w] = NoIndex /\ ~open[w]
    BY DEF Init
  <2>2. QED
    BY <2>1, NothingIndexed DEF Indexed
<1>4. Underway
  <2>1. Listed(<< >>) /\ Len(<< >>) = 0
    BY DEF Listed
  <2>2. \A w \in Copies : pending[w] = None /\ remaining[w] = << >>
    BY DEF Init
  <2>3. QED
    BY <2>1, <2>2 DEF Underway, UnderwayAt
<1>5. QED
  BY <1>1, <1>2, <1>3, <1>4 DEF Stored

\* writes
LEMMA TypedWrites ==
  ASSUME Stored, NEW w \in Copies, AppendEvents(w) \/ AbandonAppend(w) \/ ResolveFork(w)
  PROVE  Typed' /\ Identified'
<1>1. ASSUME NEW parents, NEW registered, NEW events,
             Writable(w, parents, registered, events), WriteTransaction(w, parents, registered, events),
             pending' \in [Copies -> {None} \cup [txn : Nat, tips : SUBSET Nat]],
             abandoned' \in [Copies -> BOOLEAN],
             DOMAIN remaining' = Copies
      PROVE  Typed' /\ Identified'
  <2>1. /\ Listed(txn') /\ Len(txn') <= MaxTransactions
        /\ \A t \in 1..Len(txn') : Recorded(txn'[t], t, minted')
        /\ files' \in [Copies -> SUBSET (1..Len(txn'))]
    BY <1>1, Written
  <2>2. UNCHANGED << logFile, torn, identity, minted, projection, open, index, unlogged >>
    BY <1>1 DEF WriteTransaction
  <2>3. QED
    BY <1>1, <2>1, <2>2 DEF Stored, Typed, Identified, projection
<1>2. Len(txn) \in Nat /\ index[w].headers \subseteq Nat /\ index[w].tips \subseteq Nat
  <2>1. DOMAIN Part(txn, index[w].headers) = index[w].headers
    BY DEF Part
  <2>2. QED
    BY <2>1 DEF Stored, Typed, Listed, Indexed, WellIndexed
<1>3. ASSUME NEW tips \in SUBSET Nat, Publishes(w, tips)
      PROVE  pending' \in [Copies -> {None} \cup [txn : Nat, tips : SUBSET Nat]]
  BY <1>2, <1>3 DEF Publishes, Stored, Typed
<1>4. CASE AppendEvents(w)
  <2>1. {Len(txn) + 1} \in SUBSET Nat
    BY <1>2
  <2>2. pending' \in [Copies -> {None} \cup [txn : Nat, tips : SUBSET Nat]]
    BY <1>3, <1>4, <2>1 DEF AppendEvents
  <2>3. abandoned' \in [Copies -> BOOLEAN] /\ DOMAIN remaining' = Copies /\ WriteBatch(w)
    BY <1>4 DEF AppendEvents, WriteBatch, Stored, Typed
  <2>4. QED
    BY <1>1, <2>2, <2>3, AppendWrites
<1>5. CASE AbandonAppend(w)
  <2>1. /\ pending' \in [Copies -> {None} \cup [txn : Nat, tips : SUBSET Nat]]
        /\ abandoned' \in [Copies -> BOOLEAN] /\ DOMAIN remaining' = Copies /\ WriteBatch(w)
    BY <1>5 DEF AbandonAppend, WriteBatch, Stored, Typed
  <2>2. QED
    BY <1>1, <2>1, AppendWrites
<1>6. CASE ResolveFork(w)
  <2>1. (index[w].tips \ Head(remaining[w]).heads) \cup {Len(txn) + 1} \in SUBSET Nat
    BY <1>2
  <2>2. pending' \in [Copies -> {None} \cup [txn : Nat, tips : SUBSET Nat]]
    BY <1>3, <1>6, <2>1 DEF ResolveFork
  <2>3. abandoned' \in [Copies -> BOOLEAN] /\ DOMAIN remaining' = Copies
    BY <1>6 DEF ResolveFork, Stored, Typed
  <2>4. QED
    BY <1>1, <1>6, <2>2, <2>3, ResolutionWrites
<1>7. QED
  BY <1>4, <1>5, <1>6

\* openings
LEMMA TypedOpens ==
  ASSUME Stored, NEW w \in Copies, Open(w) \/ OpenFails(w)
  PROVE  Typed' /\ Identified'
<1>1. /\ LoadIdentity(w) /\ Ended(w)
      /\ UNCHANGED << txn, files, projection, accidents >>
      /\ open' = [open EXCEPT ![w] = open'[w]] /\ open'[w] \in BOOLEAN
      /\ torn' \in [Copies -> BOOLEAN]
      /\ DOMAIN index' = Copies /\ DOMAIN logFile' = Copies
  BY DEF Open, OpenFails, Stored, Typed
<1>2. /\ minted' \in Nat /\ minted <= minted' /\ minted \in Nat
      /\ ReplicaId(w) \in 1..minted'
      /\ identity' = [identity EXCEPT ![w] = [id |-> ReplicaId(w), print |-> w]]
      /\ identity' \in [Copies -> [id : 0..minted', print : Copies \cup {None}]]
  BY <1>1, IdentityLoaded DEF Stored, Typed
<1>3. \A t \in 1..Len(txn) : Recorded(txn[t], t, minted')
  BY <1>2, RecordedLater DEF Stored, Typed
<1>4. /\ pending' \in [Copies -> {None} \cup [txn : Nat, tips : SUBSET Nat]]
      /\ DOMAIN remaining' = Copies
  BY <1>1 DEF Ended, Stored, Typed
<1>5. Typed'
  BY <1>1, <1>2, <1>3, <1>4 DEF Stored, Typed, projection, accidents
<1>6. Identified'
  <2>1. ASSUME NEW v \in Copies
        PROVE  (open'[v] => identity'[v].print = v) /\ (identity'[v].print = v => identity'[v].id # 0)
    <3>1. CASE v = w
      BY <3>1, <1>2 DEF Stored, Typed
    <3>2. CASE v # w
      <4>1. open'[v] = open[v] /\ identity'[v] = identity[v]
        BY <3>2, <1>1, <1>2 DEF Stored, Typed
      <4>2. QED
        BY <4>1 DEF Stored, Identified
    <3>3. QED
      BY <3>1, <3>2
  <2>2. QED
    BY <2>1 DEF Identified
<1>7. QED
  BY <1>5, <1>6

\* and every other step
LEMMA TypedStep ==
  ASSUME Stored, [Next]_vars
  PROVE  Typed' /\ Identified'
<1> USE DEF Stored
<1>1. ASSUME NEW w \in Copies, Reconcile(w) \/ DeclineFork(w) PROVE Typed' /\ Identified'
  BY <1>1 DEF Reconcile, DeclineFork, Typed, Identified, disk, projection, accidents
<1>2. ASSUME NEW w \in Copies, Publish(w) \/ PublishUnlogged(w) PROVE Typed' /\ Identified'
  <2>1. /\ UNCHANGED << txn, files, identity, minted, checkpoint, handled, open, abandoned >>
        /\ pending' = [pending EXCEPT ![w] = None]
        /\ torn' \in [Copies -> BOOLEAN] /\ unlogged' \in [Copies -> BOOLEAN]
    <3>1. CASE Publish(w)
      BY <3>1 DEF Publish, projection, accidents, Typed
    <3>2. CASE PublishUnlogged(w)
      <4>1. PICK tear \in BOOLEAN : torn' = [torn EXCEPT ![w] = tear]
        BY <3>2 DEF PublishUnlogged
      <4>2. QED
        BY <3>2, <4>1 DEF PublishUnlogged, projection, Typed
    <3>3. QED
      BY <1>2, <3>1, <3>2
  <2>2. DOMAIN index' = Copies /\ DOMAIN logFile' = Copies /\ DOMAIN remaining' = Copies
    BY <1>2 DEF Publish, PublishUnlogged, Typed
  <2>3. QED
    BY <2>1, <2>2 DEF Typed, Identified
<1>3. ASSUME NEW w \in Copies, Project(w) PROVE Typed' /\ Identified'
  <2>1. PICK e \in EventsIn(w) : /\ handled' = [handled EXCEPT ![w] = @ \cup {e}]
                                 /\ checkpoint' = [checkpoint EXCEPT ![w] = index[w].seqs[e]]
    BY <1>3 DEF Project
  <2>2. e \in DOMAIN index[w].seqs /\ Numbering(index[w].seqs)
    BY DEF Indexed, WellIndexed, EventsIn
  <2>3. index[w].seqs[e] \in Nat
    BY <2>2 DEF Numbering
  <2>4. QED
    BY <1>3, <2>1, <2>3 DEF Project, Typed, Identified, disk, process, accidents
<1>4. ASSUME NEW w \in Copies, NEW v \in Copies, GitMerge(w, v) PROVE Typed' /\ Identified'
  <2>1. PICK arrived \in SUBSET files[v] : files' = [files EXCEPT ![w] = @ \cup arrived]
    BY <1>4 DEF GitMerge
  <2>2. QED
    BY <1>4, <2>1 DEF GitMerge, Typed, Identified, projection, process, accidents
<1>5. ASSUME NEW w \in Copies, NEW v \in Copies, CopyTree(w, v) PROVE Typed' /\ Identified'
  <2>1. w # v
    BY <1>5 DEF CopyTree
  <2>2. Typed'
    BY <1>5, <2>1 DEF CopyTree, Typed, process
  <2>3. Identified'
    BY <1>5, <2>1 DEF CopyTree, Typed, Identified, process
  <2>4. QED
    BY <2>2, <2>3
<1>6. CASE UNCHANGED vars
  BY <1>6 DEF vars, disk, projection, process, accidents, Typed, Identified
<1>7. QED
  BY <1>1, <1>2, <1>3, <1>4, <1>5, <1>6, TypedWrites, TypedOpens DEF Next

-------------------------------------------------------------------------------
(***************************************************************************)
(* Second part: the ingestion log on disk is part of the numbering in      *)
(* memory, all of it unless a write of it failed.                          *)
(***************************************************************************)
LogOf(w) ==
  /\ Numbering(logFile[w])
  /\ DOMAIN logFile[w] \subseteq EventsOf(Part(txn, files[w]))
  /\ open[w] => /\ DOMAIN logFile[w] \subseteq DOMAIN index[w].seqs
                /\ \A e \in DOMAIN logFile[w] : logFile[w][e] = index[w].seqs[e]
                /\ ~unlogged[w] => logFile[w] = index[w].seqs

Logged == \A w \in Copies : LogOf(w)

(***************************************************************************)
(* Nothing that is stored is lost.                                         *)
(***************************************************************************)
Grows ==
  /\ Len(txn) \in Nat /\ Len(txn) <= Len(txn')
  /\ \A t \in 1..Len(txn) : txn'[t] = txn[t]
  /\ \A v \in Copies : files[v] \subseteq files'[v]

\* every step only adds
LEMMA StepGrows ==
  ASSUME Stored, [Next]_vars
  PROVE  Grows
<1>1. Len(txn) \in Nat /\ files \in [Copies -> SUBSET (1..Len(txn))]
  BY DEF Stored, Typed, Listed
<1>2. ASSUME NEW w \in Copies, NEW parents, NEW registered, NEW events,
             Writable(w, parents, registered, events), WriteTransaction(w, parents, registered, events)
      PROVE  Grows
  <2>1. /\ Len(txn') = Len(txn) + 1
        /\ \A t \in 1..Len(txn) : txn'[t] = txn[t]
        /\ files' = [files EXCEPT ![w] = @ \cup {Len(txn) + 1}]
    BY <1>2, Written
  <2>2. QED
    BY <2>1, <1>1 DEF Grows
<1>3. ASSUME UNCHANGED txn, \A v \in Copies : files[v] \subseteq files'[v] PROVE Grows
  BY <1>1, <1>3 DEF Grows
<1>4. ASSUME NEW w \in Copies, Open(w) \/ OpenFails(w) \/ Publish(w) \/ PublishUnlogged(w)
      PROVE  Grows
  BY <1>3, <1>4 DEF Open, OpenFails, Publish, PublishUnlogged
<1>5. ASSUME NEW w \in Copies, Reconcile(w) \/ DeclineFork(w) \/ Project(w)
      PROVE  Grows
  BY <1>3, <1>5 DEF Reconcile, DeclineFork, Project, disk
<1>6. ASSUME NEW w \in Copies, AppendEvents(w) \/ AbandonAppend(w)
      PROVE  Grows
  BY <1>2, <1>6, AppendWrites DEF AppendEvents, AbandonAppend
<1>7. ASSUME NEW w \in Copies, ResolveFork(w)
      PROVE  Grows
  BY <1>2, <1>7, ResolutionWrites
<1>8. ASSUME NEW w \in Copies, NEW v \in Copies, GitMerge(w, v)
      PROVE  Grows
  <2>1. PICK arrived : files' = [files EXCEPT ![w] = @ \cup arrived]
    BY <1>8 DEF GitMerge
  <2>2. QED
    BY <2>1, <1>1, <1>3, <1>8 DEF GitMerge
<1>9. ASSUME NEW w \in Copies, NEW v \in Copies, CopyTree(w, v)
      PROVE  Grows
  BY <1>1, <1>3, <1>9 DEF CopyTree
<1>10. CASE UNCHANGED vars
  BY <1>3, <1>10 DEF vars, disk
<1>11. QED
  BY <1>4, <1>5, <1>6, <1>7, <1>8, <1>9, <1>10 DEF Next

\* what is stored reads the same later
LEMMA PartGrows ==
  ASSUME Grows, NEW S, S \subseteq 1..Len(txn)
  PROVE  Part(txn', S) = Part(txn, S)
BY DEF Grows, Part

\* more transactions have more events
LEMMA EventsMonotone ==
  ASSUME NEW q, NEW r, NEW S, NEW T, S \subseteq T, \A t \in S : q[t] = r[t]
  PROVE  EventsOf(Part(q, S)) \subseteq EventsOf(Part(r, T))
BY DEF EventsOf, Part

\* the events of two sets of transactions
LEMMA EventsOfTwo ==
  ASSUME NEW q, NEW S, NEW T
  PROVE  EventsOf(Part(q, S \cup T)) = EventsOf(Part(q, S)) \cup EventsOf(Part(q, T))
BY DEF EventsOf, Part

(***************************************************************************)
(* The index an opening computes, and the one a write leads to.            *)
(***************************************************************************)
LEMMA ScannedIs ==
  ASSUME Typed, NEW w \in Copies, Numbering(logFile[w]),
         DOMAIN logFile[w] \subseteq EventsOf(Part(txn, files[w]))
  PROVE  /\ Scanned(w) = [headers |-> files[w],
                          streams |-> ByStream(Part(txn, files[w])),
                          tips |-> TipsOf(Part(txn, files[w])),
                          seqs |-> Allocated(logFile[w], Part(txn, files[w]))]
         /\ WellIndexed(Scanned(w), Part(txn, files[w]))
         /\ \A e \in DOMAIN logFile[w] : Scanned(w).seqs[e] = logFile[w][e]
         /\ \A e \in DOMAIN Scanned(w).seqs \ DOMAIN logFile[w] : Scanned(w).seqs[e] > LastSeq(logFile[w])
<1> DEFINE h == Part(txn, files[w])
           a == Allocated(logFile[w], h)
<1>1. files[w] \subseteq 1..Len(txn)
  BY DEF Typed
<1>2. Grounded(h, Len(txn)) /\ DOMAIN h = files[w]
  BY <1>1, RecordedIsGrounded
<1>3. Scanned(w) = [headers |-> files[w], streams |-> ByStream(h), tips |-> TipsOf(h), seqs |-> a]
  BY HistoryIsPart DEF Scanned
<1>4. /\ Numbering(a) /\ DOMAIN a = DOMAIN logFile[w] \cup EventsOf(h)
      /\ \A e \in DOMAIN logFile[w] : a[e] = logFile[w][e]
      /\ \A e \in EventsOf(h) \ DOMAIN logFile[w] : a[e] > LastSeq(logFile[w])
  BY <1>2, AllocatedIs
<1>5. TipsOf(h) \subseteq DOMAIN h
  BY DEF TipsOf
<1>6. \A s \in Streams : ByStream(h)[s] \in Seq(Nat \X Nat) /\ ToSet(ByStream(h)[s]) = OfStream(h, s)
  BY <1>2, ByStreamHolds
<1>7. UNION {ToSet(ByStream(h)[s]) : s \in Streams} = EventsOf(h)
  <2>1. {ToSet(ByStream(h)[s]) : s \in Streams} = {OfStream(h, s) : s \in Streams}
    BY <1>6
  <2>2. UNION {OfStream(h, s) : s \in Streams} = EventsOf(h)
    BY <1>2, EventsHaveStreams
  <2>3. QED
    BY <2>1, <2>2
<1>8. DOMAIN a = EventsOf(h)
  BY <1>4
<1> HIDE DEF h, a
<1>9. WellIndexed(Scanned(w), h)
  BY <1>3, <1>4, <1>5, <1>6, <1>7, <1>8 DEF WellIndexed
<1>10. /\ \A e \in DOMAIN logFile[w] : Scanned(w).seqs[e] = logFile[w][e]
       /\ \A e \in DOMAIN Scanned(w).seqs \ DOMAIN logFile[w] : Scanned(w).seqs[e] > LastSeq(logFile[w])
  BY <1>3, <1>4, <1>8
<1>11. QED
  BY <1>3, <1>9, <1>10 DEF h, a

\* the numbering after a write
NumberedWith(w) == Allocated(index[w].seqs, Part(txn, {pending[w].txn}))

\* a publication
LEMMA PublishedIs ==
  ASSUME Stored, NEW w \in Copies, pending[w] # None
  PROVE  /\ pending[w].txn \in 1..Len(txn) /\ index[w].headers \subseteq 1..Len(txn)
         /\ Published(w).headers = index[w].headers \cup {pending[w].txn}
         /\ Published(w).tips = pending[w].tips
         /\ Published(w).seqs = NumberedWith(w)
         /\ Published(w).streams = [s \in Streams |-> index[w].streams[s] \o ByStream(Part(txn, {pending[w].txn}))[s]]
         /\ WellIndexed(Published(w), Part(txn, Published(w).headers))
         /\ DOMAIN NumberedWith(w) = DOMAIN index[w].seqs \cup EventsOf(Part(txn, {pending[w].txn}))
         /\ \A e \in DOMAIN index[w].seqs : NumberedWith(w)[e] = index[w].seqs[e]
         /\ \A e \in DOMAIN NumberedWith(w) \ DOMAIN index[w].seqs : NumberedWith(w)[e] > LastSeq(index[w].seqs)
<1> DEFINE t == pending[w].txn
           H == index[w].headers
           x == Part(txn, {t})
           a == NumberedWith(w)
           new == ByStream(x)
           old == index[w].streams
<1>1. t \in 1..Len(txn) /\ H \subseteq 1..Len(txn)
  BY DEF Stored, Typed, Indexed, Underway, UnderwayAt
<1>2. Grounded(x, Len(txn))
  <2>1. {t} \subseteq 1..Len(txn)
    BY <1>1
  <2>2. QED
    BY <2>1, RecordedIsGrounded DEF Stored
<1>3. /\ Published(w).headers = H \cup {t}
      /\ Published(w).tips = pending[w].tips
      /\ Published(w).seqs = a
      /\ Published(w).streams = [s \in Streams |-> old[s] \o new[s]]
  BY HistoryIsPart DEF Published, NumberedWith
<1>4. WellIndexed(index[w], Part(txn, H))
  BY DEF Stored, Indexed
<1>5. Numbering(index[w].seqs) /\ DOMAIN index[w].seqs = EventsOf(Part(txn, H))
  BY <1>4 DEF WellIndexed
<1>6. /\ Numbering(a)
      /\ DOMAIN a = DOMAIN index[w].seqs \cup EventsOf(x)
      /\ \A e \in DOMAIN index[w].seqs : a[e] = index[w].seqs[e]
      /\ \A e \in EventsOf(x) \ DOMAIN index[w].seqs : a[e] > LastSeq(index[w].seqs)
  <2> HIDE DEF x
  <2>1. QED
    BY <1>2, <1>5, AllocatedIs DEF NumberedWith, x
<1>7. DOMAIN a = EventsOf(Part(txn, H \cup {t}))
  BY <1>5, <1>6, EventsOfTwo
<1>8. /\ \A s \in Streams : new[s] \in Seq(Nat \X Nat) /\ ToSet(new[s]) = OfStream(x, s)
      /\ UNION {OfStream(x, s) : s \in Streams} = EventsOf(x)
  <2> HIDE DEF x
  <2>1. QED
    BY <1>2, ByStreamHolds, EventsHaveStreams
<1>9. /\ \A s \in Streams : old[s] \in Seq(Nat \X Nat)
      /\ UNION {ToSet(old[s]) : s \in Streams} = EventsOf(Part(txn, H))
  BY <1>4 DEF WellIndexed
<1>10. pending[w].tips \subseteq H \cup {t}
  BY DEF Stored, Underway, UnderwayAt
<1> HIDE DEF t, H, x, a, new, old
<1>11. \A s \in Streams : /\ old[s] \o new[s] \in Seq(Nat \X Nat)
                         /\ ToSet(old[s] \o new[s]) = ToSet(old[s]) \cup OfStream(x, s)
  BY <1>8, <1>9, ToSetOfConcat
<1>12. UNION {ToSet(Published(w).streams[s]) : s \in Streams} = EventsOf(Part(txn, H \cup {t}))
  <2>1. \A s \in Streams : ToSet(Published(w).streams[s]) = ToSet(old[s]) \cup OfStream(x, s)
    BY <1>3, <1>11
  <2>2. UNION {ToSet(Published(w).streams[s]) : s \in Streams}
          = (UNION {ToSet(old[s]) : s \in Streams}) \cup (UNION {OfStream(x, s) : s \in Streams})
    BY <2>1
  <2>3. EventsOf(Part(txn, H \cup {t})) = EventsOf(Part(txn, H)) \cup EventsOf(x)
    BY EventsOfTwo DEF x
  <2>4. QED
    BY <2>2, <2>3, <1>8, <1>9
<1>13. WellIndexed(Published(w), Part(txn, H \cup {t}))
  <2>1. DOMAIN Part(txn, H \cup {t}) = H \cup {t}
    BY DEF Part
  <2>2. \A s \in Streams : Published(w).streams[s] \in Seq(Nat \X Nat)
    BY <1>3, <1>11
  <2>3. QED
    BY <2>1, <2>2, <1>3, <1>6, <1>7, <1>10, <1>12 DEF WellIndexed
<1>14. \A e \in DOMAIN a \ DOMAIN index[w].seqs : a[e] > LastSeq(index[w].seqs)
  BY <1>6
<1>15. QED
  BY <1>1, <1>3, <1>6, <1>13, <1>14 DEF t, H, x, a, new, old

(***************************************************************************)
(* Forks are among the headers, and there are finitely many.               *)
(***************************************************************************)
LEMMA ForksAreForked ==
  ASSUME Typed, NEW S, S \subseteq 1..Len(txn)
  PROVE  /\ IsFiniteSet(Forks(Part(txn, S)))
         /\ \A fork \in Forks(Part(txn, S)) : Forked(fork, S)
<1> DEFINE h == Part(txn, S)
           of == [t \in S |-> {<< s, h[t].bases[s] >> : s \in DOMAIN h[t].bases}]
           bases == UNION {of[t] : t \in S}
           Heads(key) == {t \in DOMAIN h : key[1] \in DOMAIN h[t].bases /\ h[t].bases[key[1]] = key[2]}
           fork == [key \in bases |-> [stream |-> key[1], base |-> key[2], heads |-> Heads(key)]]
<1>1. DOMAIN h = S /\ \A t \in S : h[t] = txn[t]
  BY DEF Part
<1>2. IsFiniteSet(S)
  <2>1. Len(txn) \in Nat
    BY DEF Typed, Listed
  <2>2. IsFiniteSet(1..Len(txn))
    BY <2>1, FS_Interval
  <2>3. QED
    BY <2>2, FS_Subset
<1>3. ASSUME NEW t \in S PROVE IsFiniteSet(of[t])
  <2> DEFINE D == DOMAIN h[t].bases
             pair == [s \in D |-> << s, h[t].bases[s] >>]
  <2>1. IsFiniteSet(D)
    BY <1>1 DEF Typed, Recorded
  <2>2. IsFiniteSet({pair[s] : s \in D})
    <3> HIDE DEF D, pair
    <3>1. QED
      BY <2>1, FiniteImage
  <2>3. {pair[s] : s \in D} = of[t]
    OBVIOUS
  <2>4. QED
    BY <2>2, <2>3
<1>4. IsFiniteSet(bases)
  <2> HIDE DEF of
  <2>1. IsFiniteSet({of[t] : t \in S})
    BY <1>2, FiniteImage
  <2>2. QED
    BY <2>1, <1>3, FS_UNION
<1>5. IsFiniteSet({fork[key] : key \in bases})
  <2> HIDE DEF bases, fork
  <2>1. QED
    BY <1>4, FiniteImage
<1>6. bases = UNION {{<< s, h[t].bases[s] >> : s \in DOMAIN h[t].bases} : t \in DOMAIN h}
  BY <1>1
<1>7. Forks(h) \subseteq {[stream |-> key[1], base |-> key[2], heads |-> Heads(key)] : key \in bases}
  <2> HIDE DEF bases, h
  <2>1. QED
    BY <1>6 DEF Forks
<1>8. {[stream |-> key[1], base |-> key[2], heads |-> Heads(key)] : key \in bases} = {fork[key] : key \in bases}
  <2> HIDE DEF bases, h
  <2>1. QED
    OBVIOUS
<1>9. IsFiniteSet(Forks(h))
  <2> HIDE DEF bases, h, fork
  <2>1. QED
    BY <1>5, <1>7, <1>8, FS_Subset
<1>10. ASSUME NEW f \in Forks(h) PROVE Forked(f, S)
  <2>1. PICK key \in bases : f = [stream |-> key[1], base |-> key[2], heads |-> Heads(key)]
    <3> HIDE DEF bases, h, fork
    <3>1. QED
      BY <1>7
  <2>2. PICK t \in S : key \in of[t]
    OBVIOUS
  <2>3. PICK s \in DOMAIN h[t].bases : key = << s, h[t].bases[s] >>
    BY <2>2
  <2>4. s \in Streams
    BY <1>1, <2>3 DEF Typed, Recorded
  <2>5. f.stream = s /\ f.heads = Heads(key)
    BY <2>1, <2>3
  <2>6. Heads(key) \subseteq S
    BY <1>1
  <2>7. QED
    BY <2>4, <2>5, <2>6 DEF Forked
<1>11. QED
  BY <1>9, <1>10

(***************************************************************************)
(* The index of a copy is kept, step by step.                              *)
(***************************************************************************)
LEMMA IndexKept ==
  ASSUME Stored, Grows, NEW v \in Copies, index'[v] = index[v], open'[v] = open[v]
  PROVE  /\ index'[v].headers \subseteq files'[v]
         /\ WellIndexed(index'[v], Part(txn', index'[v].headers))
         /\ ~open'[v] => index'[v] = NoIndex
<1>1. /\ index[v].headers \subseteq files[v] /\ index[v].headers \subseteq 1..Len(txn)
      /\ WellIndexed(index[v], Part(txn, index[v].headers))
      /\ ~open[v] => index[v] = NoIndex
  BY DEF Stored, Typed, Indexed
<1>2. Part(txn', index[v].headers) = Part(txn, index[v].headers)
  BY <1>1, PartGrows
<1>3. files[v] \subseteq files'[v]
  BY DEF Grows
<1>4. QED
  BY <1>1, <1>2, <1>3

\* every step leaves every index made of durable transactions
LEMMA IndexedStep ==
  ASSUME Stored, Logged, [Next]_vars
  PROVE  Indexed'
<1>1. Grows
  BY StepGrows
<1>2. SUFFICES ASSUME NEW v \in Copies
               PROVE  /\ index'[v].headers \subseteq files'[v]
                      /\ WellIndexed(index'[v], Part(txn', index'[v].headers))
                      /\ ~open'[v] => index'[v] = NoIndex
  BY DEF Indexed
<1>3. DOMAIN index = Copies /\ DOMAIN open = Copies
  BY DEF Stored, Typed
<1>4. CASE index' = index /\ open' = open
  BY <1>1, <1>4, IndexKept
<1>6. ASSUME NEW w \in Copies, Open(w) \/ OpenFails(w) \/ Publish(w) \/ PublishUnlogged(w), v # w
      PROVE  index'[v] = index[v] /\ open'[v] = open[v]
  BY <1>3, <1>6 DEF Open, OpenFails, Publish, PublishUnlogged
<1>7. CASE Open(v)
  <2>1. index'[v] = Scanned(v) /\ open'[v] /\ txn' = txn /\ files' = files
    BY <1>3, <1>7 DEF Open
  <2>2. Numbering(logFile[v]) /\ DOMAIN logFile[v] \subseteq EventsOf(Part(txn, files[v]))
    BY DEF Logged, LogOf
  <2>3. WellIndexed(Scanned(v), Part(txn, files[v])) /\ Scanned(v).headers = files[v]
    BY <2>2, ScannedIs DEF Stored
  <2>4. QED
    BY <2>1, <2>3
<1>8. CASE OpenFails(v)
  <2>1. index'[v] = NoIndex
    BY <1>3, <1>8 DEF OpenFails
  <2>2. QED
    BY <2>1, NothingIndexed
<1>9. CASE Publish(v) \/ PublishUnlogged(v)
  <2>1. /\ pending[v] # None /\ index'[v] = Published(v)
        /\ txn' = txn /\ files' = files /\ open' = open
    BY <1>3, <1>9 DEF Publish, PublishUnlogged
  <2>2. /\ Published(v).headers = index[v].headers \cup {pending[v].txn}
        /\ WellIndexed(Published(v), Part(txn, Published(v).headers))
    BY <2>1, PublishedIs
  <2>3. open[v] /\ pending[v].txn \in files[v] /\ index[v].headers \subseteq files[v]
    BY <2>1 DEF Stored, Indexed, Underway, UnderwayAt
  <2>4. QED
    BY <2>1, <2>2, <2>3
<1>10. ASSUME NEW w \in Copies,
              AppendEvents(w) \/ AbandonAppend(w) \/ Reconcile(w) \/ ResolveFork(w) \/ DeclineFork(w) \/ Project(w)
      PROVE  index' = index /\ open' = open
  BY <1>10 DEF AppendEvents, AbandonAppend, WriteBatch, WriteTransaction, Reconcile, ResolveFork, DeclineFork,
               Project, process
<1>11. ASSUME NEW w \in Copies, NEW u \in Copies, GitMerge(w, u) \/ CopyTree(w, u)
      PROVE  index' = index /\ open' = open
  BY <1>11 DEF GitMerge, CopyTree, process
<1>12. CASE UNCHANGED vars
  BY <1>4, <1>12 DEF vars, process
<1>13. ASSUME NEW w \in Copies, Open(w) \/ OpenFails(w) \/ Publish(w) \/ PublishUnlogged(w)
      PROVE  /\ index'[v].headers \subseteq files'[v]
             /\ WellIndexed(index'[v], Part(txn', index'[v].headers))
             /\ ~open'[v] => index'[v] = NoIndex
  <2>1. CASE v = w
    BY <2>1, <1>7, <1>8, <1>9, <1>13
  <2>2. CASE v # w
    BY <2>2, <1>1, <1>6, <1>13, IndexKept
  <2>3. QED
    BY <2>1, <2>2
<1>14. QED
  BY <1>4, <1>10, <1>11, <1>12, <1>13 DEF Next

(***************************************************************************)
(* What is under way is kept, step by step.                                *)
(***************************************************************************)
LEMMA ForkedKept ==
  ASSUME NEW q, NEW S, \A i \in 1..Len(q) : Forked(q[i], S), NEW T, S \subseteq T
  PROVE  \A i \in 1..Len(q) : Forked(q[i], T)
BY DEF Forked

\* a write
LEMMA UnderwayWrites ==
  ASSUME Stored, NEW w \in Copies, NEW parents, NEW registered, NEW events,
         Writable(w, parents, registered, events), WriteTransaction(w, parents, registered, events),
         NEW tips, tips \subseteq index[w].headers \cup {Len(txn) + 1},
         pending' = pending \/ Publishes(w, tips),
         remaining' = remaining \/ (remaining[w] # << >> /\ remaining' = [remaining EXCEPT ![w] = Tail(@)])
  PROVE  \A v \in Copies : UnderwayAt(v)'
<1>1. SUFFICES ASSUME NEW v \in Copies PROVE UnderwayAt(v)'
  OBVIOUS
<1>2. UnderwayAt(v)
  BY DEF Stored, Underway, UnderwayAt
<1>3. /\ files' = [files EXCEPT ![w] = @ \cup {Len(txn) + 1}] /\ open' = open /\ index' = index
      /\ DOMAIN files = Copies /\ DOMAIN pending = Copies /\ DOMAIN remaining = Copies
      /\ Len(txn) \in Nat /\ index[w].headers \subseteq 1..Len(txn) /\ open[w]
  BY DEF WriteTransaction, Writable, Stored, Typed, Listed, Indexed
<1>4. files[v] \subseteq files'[v]
  BY <1>3
<1>5. /\ Listed(remaining'[v])
      /\ \A i \in 1..Len(remaining'[v]) : Forked(remaining'[v][i], index[v].headers)
      /\ remaining'[v] # << >> => open[v]
  <2>1. CASE remaining'[v] = remaining[v]
    BY <2>1, <1>2 DEF UnderwayAt
  <2>2. CASE v = w /\ remaining[w] # << >> /\ remaining'[v] = Tail(remaining[v])
    <3>1. /\ Listed(Tail(remaining[v]))
          /\ \A i \in 1..Len(Tail(remaining[v])) :
               i + 1 \in 1..Len(remaining[v]) /\ Tail(remaining[v])[i] = remaining[v][i + 1]
      BY <2>2, <1>2, TailListed DEF UnderwayAt
    <3>2. QED
      BY <3>1, <2>2, <1>2 DEF UnderwayAt
  <2>3. QED
    BY <2>1, <2>2, <1>3
<1>6. pending'[v] # None =>
       /\ open[v]
       /\ pending'[v].txn \in files'[v]
       /\ pending'[v].tips \subseteq index[v].headers \cup {pending'[v].txn}
       /\ index[v].headers \subseteq 1..(pending'[v].txn - 1)
  <2>1. CASE pending'[v] = pending[v]
    BY <2>1, <1>2, <1>4 DEF UnderwayAt
  <2>2. CASE v = w /\ pending'[v] = [txn |-> Len(txn) + 1, tips |-> tips]
    <3>1. (Len(txn) + 1) - 1 = Len(txn)
      BY <1>3
    <3>2. QED
      BY <3>1, <2>2, <1>3
  <2>3. QED
    BY <2>1, <2>2, <1>3 DEF Publishes
<1>7. QED
  BY <1>3, <1>5, <1>6 DEF UnderwayAt

\* every step
LEMMA UnderwayStep ==
  ASSUME Stored, [Next]_vars
  PROVE  Underway'
<1>1. Grows
  BY StepGrows
<1>2. SUFFICES \A v \in Copies : UnderwayAt(v)'
  BY DEF Underway, UnderwayAt
<1>3. \A v \in Copies : UnderwayAt(v)
  BY DEF Stored, Underway, UnderwayAt
<1>4. /\ DOMAIN index = Copies /\ DOMAIN open = Copies /\ DOMAIN files = Copies
      /\ DOMAIN pending = Copies /\ DOMAIN remaining = Copies
  BY DEF Stored, Typed
<1>5. ASSUME NEW v \in Copies, index'[v] = index[v], open'[v] = open[v], pending'[v] = pending[v],
             remaining'[v] = remaining[v]
      PROVE  UnderwayAt(v)'
  BY <1>1, <1>3, <1>5 DEF UnderwayAt, Grows
<1>6. ASSUME NEW v \in Copies, pending'[v] = None, remaining'[v] = << >>
      PROVE  UnderwayAt(v)'
  <2>1. 1..Len(<< >>) = {}
    BY EmptyListed
  <2>2. QED
    BY <2>1, <1>6, EmptyListed DEF UnderwayAt
<1>7. ASSUME NEW w \in Copies, Open(w) \/ OpenFails(w), NEW v \in Copies
      PROVE  UnderwayAt(v)'
  <2>1. CASE v = w
    <3>1. pending'[v] = None /\ remaining'[v] = << >>
      BY <2>1, <1>4, <1>7 DEF Open, OpenFails, Ended
    <3>2. QED
      BY <3>1, <1>6
  <2>2. CASE v # w
    <3>1. /\ index'[v] = index[v] /\ open'[v] = open[v] /\ pending'[v] = pending[v]
          /\ remaining'[v] = remaining[v]
      BY <2>2, <1>4, <1>7 DEF Open, OpenFails, Ended
    <3>2. QED
      BY <3>1, <1>5
  <2>3. QED
    BY <2>1, <2>2
<1>8. ASSUME NEW w \in Copies, AppendEvents(w) \/ AbandonAppend(w), NEW v \in Copies
      PROVE  UnderwayAt(v)'
  <2>1. PICK registered, events :
          /\ Writable(w, index[w].tips, registered, events)
          /\ WriteTransaction(w, index[w].tips, registered, events)
    BY <1>8, AppendWrites DEF AppendEvents, AbandonAppend
  <2>2. {Len(txn) + 1} \subseteq index[w].headers \cup {Len(txn) + 1}
    OBVIOUS
  <2>3. pending' = pending \/ Publishes(w, {Len(txn) + 1})
    BY <1>8 DEF AppendEvents, AbandonAppend
  <2>4. remaining' = remaining
    BY <1>8 DEF AppendEvents, AbandonAppend, WriteBatch
  <2>5. QED
    BY <2>1, <2>2, <2>3, <2>4, UnderwayWrites
<1>9. ASSUME NEW w \in Copies, ResolveFork(w), NEW v \in Copies
      PROVE  UnderwayAt(v)'
  <2>1. PICK events :
          /\ Writable(w, Head(remaining[w]).heads, ToSet(events), events)
          /\ WriteTransaction(w, Head(remaining[w]).heads, ToSet(events), events)
    BY <1>9, ResolutionWrites
  <2>2. (index[w].tips \ Head(remaining[w]).heads) \cup {Len(txn) + 1}
          \subseteq index[w].headers \cup {Len(txn) + 1}
    <3>1. DOMAIN Part(txn, index[w].headers) = index[w].headers
      BY DEF Part
    <3>2. QED
      BY <3>1 DEF Stored, Indexed, WellIndexed
  <2>3. Publishes(w, (index[w].tips \ Head(remaining[w]).heads) \cup {Len(txn) + 1})
    BY <1>9 DEF ResolveFork
  <2>4. remaining[w] # << >> /\ remaining' = [remaining EXCEPT ![w] = Tail(@)]
    BY <1>9 DEF ResolveFork
  <2>5. QED
    BY <2>1, <2>2, <2>3, <2>4, UnderwayWrites
<1>10. ASSUME NEW w \in Copies, Reconcile(w), NEW v \in Copies
      PROVE  UnderwayAt(v)'
  <2> DEFINE F == Forks(Part(txn, index[w].headers))
  <2>1. /\ open[w] /\ pending' = pending /\ index' = index /\ open' = open /\ files' = files
        /\ remaining' = [remaining EXCEPT ![w] = SetToSeq(F)]
    BY <1>10, HistoryIsPart DEF Reconcile, disk
  <2>2. index[w].headers \subseteq 1..Len(txn)
    BY DEF Stored, Typed, Indexed
  <2>3. IsFiniteSet(F) /\ \A fork \in F : Forked(fork, index[w].headers)
    BY <2>2, ForksAreForked DEF Stored
  <2>4. CASE v = w
    <3> DEFINE q == SetToSeq(F)
    <3>1. q \in Seq(F)
      BY <2>3, SetToSeqListed
    <3>2. remaining'[v] = q
      BY <2>1, <2>4, <1>4
    <3> HIDE DEF q
    <3>3. Listed(q) /\ \A i \in 1..Len(q) : q[i] \in F
      BY <3>1, SequencesAreListed
    <3>4. \A i \in 1..Len(q) : Forked(q[i], index[w].headers)
      BY <3>3, <2>3
    <3>5. QED
      BY <3>2, <3>3, <3>4, <2>1, <2>4, <1>3 DEF UnderwayAt
  <2>5. CASE v # w
    BY <2>1, <2>5, <1>4, <1>5
  <2>6. QED
    BY <2>4, <2>5
<1>11. ASSUME NEW w \in Copies, DeclineFork(w), NEW v \in Copies
      PROVE  UnderwayAt(v)'
  <2>1. /\ pending' = pending /\ index' = index /\ open' = open /\ files' = files
        /\ remaining[w] # << >> /\ remaining' = [remaining EXCEPT ![w] = Tail(@)]
    BY <1>11 DEF DeclineFork, disk
  <2>2. CASE v = w
    <3>1. /\ Listed(Tail(remaining[v]))
          /\ \A i \in 1..Len(Tail(remaining[v])) :
               i + 1 \in 1..Len(remaining[v]) /\ Tail(remaining[v])[i] = remaining[v][i + 1]
      BY <2>1, <2>2, <1>3, TailListed DEF UnderwayAt
    <3>2. remaining'[v] = Tail(remaining[v])
      BY <2>1, <2>2, <1>4
    <3>3. QED
      BY <3>1, <3>2, <2>1, <2>2, <1>3 DEF UnderwayAt
  <2>3. CASE v # w
    BY <2>1, <2>3, <1>4, <1>5
  <2>4. QED
    BY <2>2, <2>3
<1>12. ASSUME NEW w \in Copies, Publish(w) \/ PublishUnlogged(w), NEW v \in Copies
      PROVE  UnderwayAt(v)'
  <2>1. /\ pending[w] # None /\ pending' = [pending EXCEPT ![w] = None]
        /\ index' = [index EXCEPT ![w] = Published(w)] /\ open' = open /\ files' = files
        /\ remaining' = remaining \/ remaining' = [remaining EXCEPT ![w] = << >>]
    BY <1>12 DEF Publish, PublishUnlogged
  <2>2. CASE v = w /\ remaining' = remaining
    <3>1. index[v].headers \subseteq index'[v].headers
      BY <2>1, <2>2, <1>4, PublishedIs
    <3>2. pending'[v] = None /\ remaining'[v] = remaining[v]
      BY <2>1, <2>2, <1>4
    <3>3. Listed(remaining[v]) /\ (remaining[v] # << >> => open[v])
          /\ \A i \in 1..Len(remaining[v]) : Forked(remaining[v][i], index[v].headers)
      BY <1>3 DEF UnderwayAt
    <3>4. \A i \in 1..Len(remaining[v]) : Forked(remaining[v][i], index'[v].headers)
      BY <3>1, <3>3 DEF Forked
    <3>5. QED
      BY <3>2, <3>3, <3>4, <2>1 DEF UnderwayAt
  <2>3. CASE v = w /\ remaining' = [remaining EXCEPT ![w] = << >>]
    BY <2>1, <2>3, <1>4, <1>6
  <2>4. CASE v # w
    BY <2>1, <2>4, <1>4, <1>5
  <2>5. QED
    BY <2>1, <2>2, <2>3, <2>4
<1>13. ASSUME NEW w \in Copies, Project(w), NEW v \in Copies
      PROVE  UnderwayAt(v)'
  BY <1>5, <1>13 DEF Project, process
<1>14. ASSUME NEW w \in Copies, NEW u \in Copies, GitMerge(w, u) \/ CopyTree(w, u), NEW v \in Copies
      PROVE  UnderwayAt(v)'
  BY <1>5, <1>14 DEF GitMerge, CopyTree, process
<1>15. CASE UNCHANGED vars
  BY <1>5, <1>15 DEF vars, process
<1>16. QED
  BY <1>7, <1>8, <1>9, <1>10, <1>11, <1>12, <1>13, <1>14, <1>15 DEF Next

(***************************************************************************)
(* The ingestion log is kept, step by step.                                *)
(***************************************************************************)
LEMMA LogKept ==
  ASSUME Stored, Grows, NEW v \in Copies, LogOf(v), logFile'[v] = logFile[v],
         \/ index'[v] = index[v] /\ open'[v] = open[v] /\ unlogged'[v] = unlogged[v]
         \/ ~open'[v]
  PROVE  LogOf(v)'
<1>1. files[v] \subseteq 1..Len(txn) /\ files[v] \subseteq files'[v] /\ \A t \in 1..Len(txn) : txn[t] = txn'[t]
  BY DEF Stored, Typed, Grows
<1>2. EventsOf(Part(txn, files[v])) \subseteq EventsOf(Part(txn', files'[v]))
  BY <1>1, EventsMonotone
<1>3. QED
  BY <1>2 DEF LogOf

\* the file after an opening or a publication: part of the new numbering
LEMMA LogRewritten ==
  ASSUME NEW v \in Copies, NEW seqs, Numbering(seqs), NEW T, T \subseteq DOMAIN seqs,
         T \subseteq EventsOf(Part(txn', files'[v])),
         logFile'[v] = [e \in T |-> seqs[e]],
         open'[v] => index'[v].seqs = seqs /\ (~unlogged'[v] => T = DOMAIN seqs)
  PROVE  LogOf(v)'
<1>1. /\ DOMAIN logFile'[v] = T /\ \A e \in T : logFile'[v][e] = seqs[e]
      /\ Numbering(logFile'[v])
  BY RestrictedNumbering
<1>2. T = DOMAIN seqs => logFile'[v] = seqs
  BY DEF Numbering
<1>3. QED
  BY <1>1, <1>2 DEF LogOf

\* an opening, whole or failed
LEMMA LogOpens ==
  ASSUME Stored, Logged, Grows, NEW w \in Copies, Open(w) \/ OpenFails(w)
  PROVE  LogOf(w)'
<1>1. Numbering(logFile[w]) /\ DOMAIN logFile[w] \subseteq EventsOf(Part(txn, files[w])) /\ LogOf(w)
  BY DEF Logged, LogOf
<1>2. WellIndexed(Scanned(w), Part(txn, files[w]))
  BY <1>1, ScannedIs DEF Stored
<1> DEFINE seqs == Scanned(w).seqs
<1>3. Numbering(seqs) /\ DOMAIN seqs = EventsOf(Part(txn, files[w]))
  BY <1>2 DEF WellIndexed
<1>4. txn' = txn /\ files' = files /\ DOMAIN logFile = Copies /\ DOMAIN index = Copies /\ DOMAIN open = Copies
  BY DEF Open, OpenFails, Stored, Typed
<1>5. CASE Open(w)
  <2>1. index'[w] = Scanned(w) /\ logFile'[w] = seqs
    BY <1>4, <1>5 DEF Open
  <2>2. seqs = [e \in DOMAIN seqs |-> seqs[e]]
    BY <1>3 DEF Numbering
  <2> HIDE DEF seqs
  <2>3. logFile'[w] = [e \in DOMAIN seqs |-> seqs[e]] /\ index'[w].seqs = seqs
    BY <2>1, <2>2 DEF seqs
  <2>4. QED
    BY <2>3, <1>3, <1>4, LogRewritten
<1>6. CASE OpenFails(w)
  <2>1. ~open'[w]
    BY <1>4, <1>6 DEF OpenFails
  <2>2. \/ logFile' = logFile
        \/ \E last : logFile' = [logFile EXCEPT ![w] = Restrict(seqs, {e \in DOMAIN seqs : seqs[e] <= last})]
    <3>1. PICK q \in {Scanned(w).seqs} :
            \/ UNCHANGED logFile
            \/ \E last \in LastSeq(logFile[w])..(LastSeq(q) - 1) :
                 logFile' = [logFile EXCEPT ![w] = Restrict(q, {e \in DOMAIN q : q[e] <= last})]
      BY <1>6, Zenon DEF OpenFails
    <3>2. q = seqs
      OBVIOUS
    <3> HIDE DEF seqs
    <3>3. CASE UNCHANGED logFile
      BY <3>3
    <3>4. CASE \E last \in LastSeq(logFile[w])..(LastSeq(q) - 1) :
                 logFile' = [logFile EXCEPT ![w] = Restrict(q, {e \in DOMAIN q : q[e] <= last})]
      <4>1. PICK last : logFile' = [logFile EXCEPT ![w] = Restrict(q, {e \in DOMAIN q : q[e] <= last})]
        BY <3>4
      <4>2. logFile' = [logFile EXCEPT ![w] = Restrict(seqs, {e \in DOMAIN seqs : seqs[e] <= last})]
        BY <3>2, <4>1
      <4>3. QED
        BY <4>2
    <3>5. QED
      BY <3>1, <3>3, <3>4
  <2>3. CASE logFile' = logFile
    BY <2>1, <2>3, <1>1, LogKept
  <2>4. CASE \E last : logFile' = [logFile EXCEPT ![w] = Restrict(seqs, {e \in DOMAIN seqs : seqs[e] <= last})]
    <3>1. PICK last : logFile' = [logFile EXCEPT ![w] = Restrict(seqs, {e \in DOMAIN seqs : seqs[e] <= last})]
      BY <2>4
    <3> DEFINE T == {e \in DOMAIN seqs : seqs[e] <= last}
    <3>2. T \subseteq DOMAIN seqs
      OBVIOUS
    <3>3. logFile'[w] = [e \in T |-> seqs[e]]
      BY <3>1, <1>4 DEF Restrict
    <3> HIDE DEF T, seqs
    <3>4. QED
      BY <2>1, <3>2, <3>3, <1>3, <1>4, LogRewritten
  <2>5. QED
    BY <2>2, <2>3, <2>4
<1>7. QED
  BY <1>5, <1>6

\* a publication, logged or not
LEMMA LogPublished ==
  ASSUME Stored, Logged, Grows, NEW w \in Copies, Publish(w) \/ PublishUnlogged(w)
  PROVE  LogOf(w)'
<1>1. LogOf(w)
  BY DEF Logged
<1> DEFINE x == Part(txn, {pending[w].txn})
           seqs == NumberedWith(w)
<1>2. /\ pending[w] # None /\ open[w] /\ pending[w].txn \in files[w]
      /\ index' = [index EXCEPT ![w] = Published(w)] /\ txn' = txn /\ files' = files /\ open' = open
      /\ DOMAIN logFile = Copies /\ DOMAIN index = Copies /\ DOMAIN unlogged = Copies
  BY DEF Publish, PublishUnlogged, Stored, Typed, Underway, UnderwayAt
<1>3. /\ Published(w).seqs = seqs
      /\ WellIndexed(Published(w), Part(txn, Published(w).headers))
      /\ DOMAIN seqs = DOMAIN index[w].seqs \cup EventsOf(x)
      /\ \A e \in DOMAIN index[w].seqs : seqs[e] = index[w].seqs[e]
  BY <1>2, PublishedIs
<1>4. Numbering(seqs) /\ index'[w].seqs = seqs
  BY <1>2, <1>3 DEF WellIndexed
<1>5. CASE Publish(w)
  <2> DEFINE T == DOMAIN logFile[w] \cup EventsOf(x)
  <2>1. logFile'[w] = [e \in T |-> seqs[e]] /\ unlogged' = unlogged
    BY <1>2, <1>3, <1>5, HistoryIsPart DEF Publish, accidents
  <2>2. T \subseteq DOMAIN seqs /\ (~unlogged[w] => T = DOMAIN seqs)
    BY <1>1, <1>2, <1>3 DEF LogOf
  <2>3. EventsOf(x) \subseteq EventsOf(Part(txn', files'[w]))
    <3>1. {pending[w].txn} \subseteq files'[w] /\ \A t \in {pending[w].txn} : txn[t] = txn'[t]
      BY <1>2
    <3>2. QED
      BY <3>1, EventsMonotone
  <2>4. T \subseteq EventsOf(Part(txn', files'[w]))
    BY <1>1, <1>2, <2>3 DEF LogOf
  <2> HIDE DEF T, seqs
  <2>5. QED
    BY <2>1, <2>2, <2>4, <1>2, <1>4, LogRewritten
<1>6. CASE PublishUnlogged(w)
  <2>1. logFile' = logFile /\ unlogged'[w]
    BY <1>2, <1>6 DEF PublishUnlogged
  <2>2. QED
    BY <2>1, <1>1, <1>2, <1>3, <1>4 DEF LogOf
<1>7. QED
  BY <1>5, <1>6

\* every step
LEMMA LoggedStep ==
  ASSUME Stored, Logged, [Next]_vars
  PROVE  Logged'
<1>1. Grows
  BY StepGrows
<1>2. SUFFICES ASSUME NEW v \in Copies PROVE LogOf(v)'
  BY DEF Logged
<1>3. \A u \in Copies : LogOf(u)
  BY DEF Logged
<1>4. /\ DOMAIN index = Copies /\ DOMAIN open = Copies /\ DOMAIN logFile = Copies /\ DOMAIN unlogged = Copies
      /\ DOMAIN files = Copies
  BY DEF Stored, Typed
<1>5. CASE logFile'[v] = logFile[v] /\ index'[v] = index[v] /\ open'[v] = open[v] /\ unlogged'[v] = unlogged[v]
  BY <1>1, <1>3, <1>5, LogKept
<1>6. ASSUME NEW w \in Copies, Open(w) \/ OpenFails(w) PROVE LogOf(v)'
  <2>1. CASE v = w
    BY <2>1, <1>1, <1>6, LogOpens
  <2>2. CASE v # w
    BY <2>2, <1>4, <1>5, <1>6 DEF Open, OpenFails, accidents
  <2>3. QED
    BY <2>1, <2>2
<1>7. ASSUME NEW w \in Copies, Publish(w) \/ PublishUnlogged(w) PROVE LogOf(v)'
  <2>1. CASE v = w
    BY <2>1, <1>1, <1>7, LogPublished
  <2>2. CASE v # w
    BY <2>2, <1>4, <1>5, <1>7 DEF Publish, PublishUnlogged, accidents
  <2>3. QED
    BY <2>1, <2>2
<1>8. ASSUME NEW w \in Copies,
             AppendEvents(w) \/ AbandonAppend(w) \/ Reconcile(w) \/ ResolveFork(w) \/ DeclineFork(w) \/ Project(w)
      PROVE  LogOf(v)'
  BY <1>5, <1>8 DEF AppendEvents, AbandonAppend, WriteBatch, WriteTransaction, Reconcile, ResolveFork, DeclineFork,
                    Project, process, disk, accidents
<1>9. ASSUME NEW w \in Copies, NEW u \in Copies, GitMerge(w, u) PROVE LogOf(v)'
  BY <1>5, <1>9 DEF GitMerge, process, accidents
<1>10. ASSUME NEW w \in Copies, NEW u \in Copies, CopyTree(w, u) PROVE LogOf(v)'
  <2>1. /\ ~open'[w] /\ txn' = txn /\ index' = index /\ open' = open
        /\ files' = [files EXCEPT ![w] = files[u]]
        /\ logFile' = [logFile EXCEPT ![w] = logFile[u]]
        /\ unlogged' = [unlogged EXCEPT ![w] = unlogged[u]]
    BY <1>10 DEF CopyTree, process
  <2>2. CASE v = w
    <3>1. LogOf(u)
      BY <1>3
    <3>2. logFile'[v] = logFile[u] /\ files'[v] = files[u] /\ ~open'[v]
      BY <2>1, <2>2, <1>4
    <3>3. QED
      BY <3>1, <3>2, <2>1 DEF LogOf
  <2>3. CASE v # w
    BY <2>1, <2>3, <1>4, <1>5
  <2>4. QED
    BY <2>2, <2>3
<1>11. CASE UNCHANGED vars
  BY <1>5, <1>11 DEF vars, disk, process, accidents
<1>12. QED
  BY <1>6, <1>7, <1>8, <1>9, <1>10, <1>11 DEF Next

\* the initial states
LEMMA InitLogged == Init => Logged
<1>1. Numbering(<< >>) /\ DOMAIN << >> = {}
  BY FS_EmptySet DEF Numbering, IsInjective
<1>2. QED
  BY <1>1 DEF Init, Logged, LogOf

-------------------------------------------------------------------------------
(***************************************************************************)
(* Third part: a projection has handled the log up to its checkpoint.      *)
(***************************************************************************)
Upto(seqs, c) == {e \in DOMAIN seqs : seqs[e] <= c}

FollowedAt(w) ==
  ~unlogged[w] => /\ handled[w] = Upto(logFile[w], checkpoint[w])
                  /\ checkpoint[w] <= LastSeq(logFile[w])

Followed == \A w \in Copies : FollowedAt(w)

\* the numbering b goes on from a
Continues(a, b) ==
  /\ Numbering(a) /\ Numbering(b)
  /\ DOMAIN a \subseteq DOMAIN b
  /\ \A e \in DOMAIN a : b[e] = a[e]
  /\ \A e \in DOMAIN b \ DOMAIN a : b[e] > LastSeq(a)

\* going on adds nothing up to a checkpoint within the log
LEMMA ContinuesKeeps ==
  ASSUME NEW a, NEW b, Continues(a, b), NEW c \in Nat, c <= LastSeq(a)
  PROVE  Upto(b, c) = Upto(a, c) /\ c <= LastSeq(b)
<1>1. LastSeq(a) \in Nat /\ LastSeq(b) \in Nat /\ \A e \in DOMAIN b : b[e] <= LastSeq(b)
  BY LastSeqIs DEF Continues
<1>2. LastSeq(a) = 0 \/ \E e \in DOMAIN a : a[e] = LastSeq(a)
  BY LastSeqIs DEF Continues
<1>3. LastSeq(a) <= LastSeq(b)
  <2>1. CASE LastSeq(a) = 0
    BY <2>1, <1>1
  <2>2. CASE \E e \in DOMAIN a : a[e] = LastSeq(a)
    BY <2>2, <1>1 DEF Continues
  <2>3. QED
    BY <1>2, <2>1, <2>2
<1>4. \A e \in DOMAIN b : b[e] \in Nat
  BY DEF Continues, Numbering
<1>5. \A e \in DOMAIN b \ DOMAIN a : ~(b[e] <= c)
  <2>1. SUFFICES ASSUME NEW e \in DOMAIN b \ DOMAIN a PROVE ~(b[e] <= c)
    OBVIOUS
  <2>2. b[e] > LastSeq(a) /\ b[e] \in Nat
    BY <1>4 DEF Continues
  <2>3. QED
    BY <2>2, <1>1
<1>6. Upto(b, c) = Upto(a, c)
  BY <1>5 DEF Upto, Continues
<1>7. QED
  BY <1>1, <1>3, <1>6

\* a log that goes on under a projection that stands still
LEMMA FollowsOn ==
  ASSUME Typed, NEW w \in Copies, FollowedAt(w), unlogged[w] => unlogged'[w],
         handled'[w] = handled[w], checkpoint'[w] = checkpoint[w],
         ~unlogged'[w] => Continues(logFile[w], logFile'[w])
  PROVE  FollowedAt(w)'
<1>1. SUFFICES ASSUME ~unlogged'[w]
               PROVE  /\ handled'[w] = Upto(logFile'[w], checkpoint'[w])
                      /\ checkpoint'[w] <= LastSeq(logFile'[w])
  BY DEF FollowedAt
<1>2. handled[w] = Upto(logFile[w], checkpoint[w]) /\ checkpoint[w] <= LastSeq(logFile[w])
  BY <1>1 DEF FollowedAt
<1>3. checkpoint[w] \in Nat /\ Continues(logFile[w], logFile'[w])
  BY <1>1 DEF Typed
<1> DEFINE a == logFile[w]
           b == logFile'[w]
           c == checkpoint[w]
<1>4. Upto(b, c) = Upto(a, c) /\ c <= LastSeq(b)
  <2>1. Continues(a, b) /\ c \in Nat /\ c <= LastSeq(a)
    BY <1>2, <1>3
  <2> HIDE DEF a, b, c
  <2>2. QED
    BY <2>1, ContinuesKeeps
<1>5. QED
  BY <1>2, <1>4

\* openings go on from the log on disk
LEMMA OpeningContinues ==
  ASSUME Stored, Logged, NEW w \in Copies, Open(w) \/ OpenFails(w)
  PROVE  logFile'[w] = logFile[w] \/ Continues(logFile[w], logFile'[w])
<1>1. Numbering(logFile[w]) /\ DOMAIN logFile[w] \subseteq EventsOf(Part(txn, files[w]))
  BY DEF Logged, LogOf
<1> DEFINE seqs == Scanned(w).seqs
           m == LastSeq(logFile[w])
<1>2. /\ WellIndexed(Scanned(w), Part(txn, files[w]))
      /\ \A e \in DOMAIN logFile[w] : seqs[e] = logFile[w][e]
      /\ \A e \in DOMAIN seqs \ DOMAIN logFile[w] : seqs[e] > m
  BY <1>1, ScannedIs DEF Stored
<1>3. Numbering(seqs) /\ DOMAIN logFile[w] \subseteq DOMAIN seqs
  BY <1>1, <1>2 DEF WellIndexed
<1>4. Continues(logFile[w], seqs)
  BY <1>1, <1>2, <1>3 DEF Continues
<1>5. DOMAIN logFile = Copies
  BY DEF Stored, Typed
<1>6. CASE Open(w)
  BY <1>4, <1>5, <1>6 DEF Open
<1>7. CASE OpenFails(w)
  <2>1. PICK q \in {Scanned(w).seqs} :
          \/ UNCHANGED logFile
          \/ \E last \in LastSeq(logFile[w])..(LastSeq(q) - 1) :
               logFile' = [logFile EXCEPT ![w] = Restrict(q, {e \in DOMAIN q : q[e] <= last})]
    BY <1>7, Zenon DEF OpenFails
  <2>2. q = seqs
    OBVIOUS
  <2>3. CASE UNCHANGED logFile
    BY <2>3
  <2>4. ASSUME NEW last \in m..(LastSeq(q) - 1),
               logFile' = [logFile EXCEPT ![w] = Restrict(q, {e \in DOMAIN q : q[e] <= last})]
        PROVE  Continues(logFile[w], logFile'[w])
    <3> HIDE DEF seqs
    <3> DEFINE T == {e \in DOMAIN seqs : seqs[e] <= last}
    <3>1. logFile'[w] = [e \in T |-> seqs[e]]
      BY <1>5, <2>2, <2>4 DEF Restrict
    <3>2. m \in Nat /\ LastSeq(seqs) \in Nat /\ \A e \in DOMAIN logFile[w] : logFile[w][e] <= m
      BY <1>1, <1>3, LastSeqIs
    <3>3. last \in Nat /\ m <= last
      BY <2>2, <2>4, <3>2
    <3>4. DOMAIN logFile[w] \subseteq T
      <4>1. SUFFICES ASSUME NEW e \in DOMAIN logFile[w] PROVE e \in DOMAIN seqs /\ seqs[e] <= last
        OBVIOUS
      <4>2. e \in DOMAIN seqs /\ seqs[e] = logFile[w][e] /\ seqs[e] \in Nat
        BY <1>2, <1>3 DEF Numbering
      <4>3. logFile[w][e] <= m
        BY <3>2
      <4>4. QED
        BY <4>2, <4>3, <3>2, <3>3
    <3>5. T \subseteq DOMAIN seqs
      OBVIOUS
    <3> HIDE DEF T, m
    <3>6. Numbering([e \in T |-> seqs[e]])
      BY <3>5, <1>3, RestrictedNumbering
    <3>7. DOMAIN logFile'[w] = T /\ \A e \in T : logFile'[w][e] = seqs[e]
      BY <3>1
    <3>8. \A e \in T \ DOMAIN logFile[w] : seqs[e] > m
      BY <3>5, <1>2
    <3>9. QED
      BY <3>1, <3>4, <3>6, <3>7, <3>8, <1>1, <1>2 DEF Continues, m
  <2>5. QED
    BY <2>1, <2>3, <2>4
<1>8. QED
  BY <1>6, <1>7

\* so does a publication
LEMMA PublishingContinues ==
  ASSUME Stored, Logged, NEW w \in Copies, Publish(w), ~unlogged[w]
  PROVE  Continues(logFile[w], logFile'[w])
<1>1. pending[w] # None /\ open[w] /\ DOMAIN logFile = Copies
  BY DEF Publish, Stored, Typed, Underway, UnderwayAt
<1>2. logFile[w] = index[w].seqs /\ Numbering(logFile[w])
  BY <1>1 DEF Logged, LogOf
<1> DEFINE seqs == NumberedWith(w)
           x == Part(txn, {pending[w].txn})
<1>3. /\ Published(w).seqs = seqs
      /\ WellIndexed(Published(w), Part(txn, Published(w).headers))
      /\ DOMAIN seqs = DOMAIN index[w].seqs \cup EventsOf(x)
      /\ \A e \in DOMAIN index[w].seqs : seqs[e] = index[w].seqs[e]
      /\ \A e \in DOMAIN seqs \ DOMAIN index[w].seqs : seqs[e] > LastSeq(index[w].seqs)
  BY <1>1, PublishedIs
<1>4. Numbering(seqs)
  BY <1>3 DEF WellIndexed
<1>5. logFile'[w] = [e \in DOMAIN logFile[w] \cup EventsOf(x) |-> seqs[e]]
  <2>1. PICK published \in {Published(w)} :
          logFile' = [logFile EXCEPT ![w] =
                        [e \in DOMAIN @ \cup EventsOf(History({pending[w].txn})) |-> published.seqs[e]]]
    BY DEF Publish
  <2>2. published.seqs = seqs
    BY <2>1, <1>3
  <2>3. History({pending[w].txn}) = x
    BY HistoryIsPart
  <2> HIDE DEF seqs, x
  <2>4. QED
    BY <2>1, <2>2, <2>3, <1>1
<1> HIDE DEF seqs, x
<1>6. logFile'[w] = [e \in DOMAIN seqs |-> seqs[e]]
  BY <1>2, <1>3, <1>5
<1>7. logFile'[w] = seqs
  BY <1>4, <1>6 DEF Numbering
<1>8. QED
  BY <1>2, <1>3, <1>4, <1>7 DEF Continues

\* the events up to the next one
LEMMA NextUpto ==
  ASSUME NEW seqs, Numbering(seqs), NEW c \in Nat, NEW e \in DOMAIN seqs, seqs[e] > c,
         \A f \in DOMAIN seqs : seqs[f] > c => seqs[e] <= seqs[f]
  PROVE  Upto(seqs, seqs[e]) = Upto(seqs, c) \cup {e}
<1>1. \A f \in DOMAIN seqs : seqs[f] \in Nat
  BY DEF Numbering
<1>2. ASSUME NEW f \in DOMAIN seqs PROVE seqs[f] <= seqs[e] <=> seqs[f] <= c \/ f = e
  <2>1. seqs[f] \in Nat /\ seqs[e] \in Nat
    BY <1>1
  <2>2. seqs[f] = seqs[e] => f = e
    BY DEF Numbering, IsInjective
  <2>3. seqs[f] > c => seqs[e] <= seqs[f]
    OBVIOUS
  <2>4. QED
    BY <2>1, <2>2, <2>3
<1>3. QED
  BY <1>2 DEF Upto

\* and the projection takes the next event
LEMMA ProjectFollows ==
  ASSUME Stored, Logged, NEW w \in Copies, FollowedAt(w), Project(w)
  PROVE  FollowedAt(w)'
<1>1. /\ open[w] /\ checkpoint[w] \in Nat /\ DOMAIN handled = Copies /\ DOMAIN checkpoint = Copies
      /\ logFile' = logFile /\ unlogged' = unlogged
  BY DEF Project, Stored, Typed, disk, accidents
<1>2. SUFFICES ASSUME ~unlogged[w]
               PROVE  /\ handled'[w] = Upto(logFile[w], checkpoint'[w])
                      /\ checkpoint'[w] <= LastSeq(logFile[w])
  BY <1>1 DEF FollowedAt
<1> DEFINE seqs == logFile[w]
           c == checkpoint[w]
<1>3. seqs = index[w].seqs /\ Numbering(seqs)
  BY <1>1, <1>2 DEF Logged, LogOf
<1>4. EventsIn(w) = DOMAIN seqs
  BY <1>3 DEF Stored, Indexed, WellIndexed, EventsIn
<1>5. PICK e \in DOMAIN seqs :
        /\ seqs[e] > c
        /\ \A f \in DOMAIN seqs : seqs[f] > c => seqs[e] <= seqs[f]
        /\ handled' = [handled EXCEPT ![w] = @ \cup {e}]
        /\ checkpoint' = [checkpoint EXCEPT ![w] = seqs[e]]
  BY <1>3, <1>4 DEF Project
<1>6. handled[w] = Upto(seqs, c)
  BY <1>2 DEF FollowedAt
<1>7. handled'[w] = Upto(seqs, c) \cup {e} /\ checkpoint'[w] = seqs[e]
  BY <1>1, <1>5, <1>6
<1>8. seqs[e] <= LastSeq(seqs)
  BY <1>3, LastSeqIs
<1>9. c \in Nat
  BY <1>1
<1> HIDE DEF seqs, c
<1>10. Upto(seqs, seqs[e]) = Upto(seqs, c) \cup {e}
  BY <1>3, <1>5, <1>9, NextUpto
<1>11. QED
  BY <1>7, <1>8, <1>10 DEF seqs

\* every step
LEMMA FollowedStep ==
  ASSUME Stored, Logged, Followed, [Next]_vars
  PROVE  Followed'
<1>1. SUFFICES ASSUME NEW v \in Copies PROVE FollowedAt(v)'
  BY DEF Followed
<1>2. FollowedAt(v) /\ LogOf(v) /\ Typed
  BY DEF Followed, Logged, Stored
<1>3. /\ DOMAIN logFile = Copies /\ DOMAIN unlogged = Copies /\ DOMAIN checkpoint = Copies /\ DOMAIN handled = Copies
  BY DEF Stored, Typed
<1>4. CASE logFile'[v] = logFile[v] /\ unlogged'[v] = unlogged[v] /\ checkpoint'[v] = checkpoint[v]
           /\ handled'[v] = handled[v]
  BY <1>2, <1>4 DEF FollowedAt
<1>5. ASSUME NEW w \in Copies, Open(w) \/ OpenFails(w) PROVE FollowedAt(v)'
  <2>1. /\ unlogged' = unlogged /\ checkpoint' = checkpoint /\ handled' = handled
        /\ v # w => logFile'[v] = logFile[v]
    BY <1>3, <1>5 DEF Open, OpenFails, projection, accidents
  <2>2. CASE v = w
    <3>1. CASE logFile'[v] = logFile[v]
      BY <2>1, <3>1, <1>4
    <3>2. CASE Continues(logFile[v], logFile'[v])
      BY <2>1, <3>2, <1>2, FollowsOn
    <3>3. QED
      BY <2>2, <3>1, <3>2, <1>5, OpeningContinues
  <2>3. QED
    BY <2>1, <2>2, <1>4
<1>6. ASSUME NEW w \in Copies, Publish(w) \/ PublishUnlogged(w) PROVE FollowedAt(v)'
  <2>1. CASE v # w
    <3>1. logFile'[v] = logFile[v] /\ unlogged'[v] = unlogged[v] /\ checkpoint' = checkpoint /\ handled' = handled
      BY <2>1, <1>3, <1>6 DEF Publish, PublishUnlogged, projection, accidents
    <3>2. QED
      BY <3>1, <1>4
  <2>2. CASE v = w /\ Publish(w)
    <3>1. unlogged' = unlogged /\ checkpoint' = checkpoint /\ handled' = handled
      BY <2>2 DEF Publish, projection, accidents
    <3>2. ~unlogged[v] => Continues(logFile[v], logFile'[v])
      BY <2>2, PublishingContinues
    <3>3. QED
      BY <3>1, <3>2, <1>2, FollowsOn
  <2>3. CASE v = w /\ PublishUnlogged(w)
    BY <2>3, <1>3 DEF PublishUnlogged, FollowedAt
  <2>4. QED
    BY <2>1, <2>2, <2>3, <1>6
<1>7. ASSUME NEW w \in Copies, Project(w) PROVE FollowedAt(v)'
  <2>1. CASE v = w
    BY <2>1, <1>2, <1>7, ProjectFollows
  <2>2. CASE v # w
    <3>1. logFile' = logFile /\ unlogged' = unlogged
      BY <1>7 DEF Project, disk, accidents
    <3>2. checkpoint'[v] = checkpoint[v] /\ handled'[v] = handled[v]
      BY <2>2, <1>3, <1>7 DEF Project
    <3>3. QED
      BY <3>1, <3>2, <1>4
  <2>3. QED
    BY <2>1, <2>2
<1>8. ASSUME NEW w \in Copies,
             AppendEvents(w) \/ AbandonAppend(w) \/ Reconcile(w) \/ ResolveFork(w) \/ DeclineFork(w)
      PROVE  FollowedAt(v)'
  BY <1>4, <1>8 DEF AppendEvents, AbandonAppend, WriteBatch, WriteTransaction, Reconcile, ResolveFork, DeclineFork,
                    disk, projection, accidents
<1>9. ASSUME NEW w \in Copies, NEW u \in Copies, GitMerge(w, u) PROVE FollowedAt(v)'
  BY <1>4, <1>9 DEF GitMerge, projection, accidents
<1>10. ASSUME NEW w \in Copies, NEW u \in Copies, CopyTree(w, u) PROVE FollowedAt(v)'
  <2>1. /\ logFile' = [logFile EXCEPT ![w] = logFile[u]]
        /\ checkpoint' = [checkpoint EXCEPT ![w] = checkpoint[u]]
        /\ handled' = [handled EXCEPT ![w] = handled[u]]
        /\ unlogged' = [unlogged EXCEPT ![w] = unlogged[u]]
    BY <1>10 DEF CopyTree
  <2>2. CASE v = w
    <3>1. FollowedAt(u)
      BY DEF Followed
    <3>2. QED
      BY <3>1, <2>1, <2>2, <1>3 DEF FollowedAt
  <2>3. CASE v # w
    BY <2>1, <2>3, <1>3, <1>4
  <2>4. QED
    BY <2>2, <2>3
<1>11. CASE UNCHANGED vars
  BY <1>4, <1>11 DEF vars, disk, projection, accidents
<1>12. QED
  BY <1>5, <1>6, <1>7, <1>8, <1>9, <1>10, <1>11 DEF Next

\* the initial states
LEMMA InitFollowed == Init => Followed
<1>1. Numbering(<< >>) /\ DOMAIN << >> = {}
  BY FS_EmptySet DEF Numbering, IsInjective
<1>2. LastSeq(<< >>) \in Nat
  BY <1>1, LastSeqIs
<1>3. QED
  BY <1>1, <1>2 DEF Init, Followed, FollowedAt, Upto

\* the three parts together
LEMMA StoredStep ==
  ASSUME Stored, Logged, Followed, [Next]_vars
  PROVE  Stored' /\ Logged' /\ Followed'
BY TypedStep, IndexedStep, UnderwayStep, LoggedStep, FollowedStep DEF Stored

\* the types
LEMMA StoredImpliesTypes ==
  ASSUME Stored
  PROVE  TypeOK
<1>1. /\ DOMAIN txn = 1..Len(txn) /\ Len(txn) <= MaxTransactions
      /\ \A t \in 1..Len(txn) : Recorded(txn[t], t, minted)
      /\ files \in [Copies -> SUBSET (1..Len(txn))]
      /\ identity \in [Copies -> [id : 0..minted, print : Copies \cup {None}]]
      /\ checkpoint \in [Copies -> Nat]
      /\ torn \in [Copies -> BOOLEAN] /\ open \in [Copies -> BOOLEAN]
  BY DEF Stored, Typed, Listed
<1>2. \A t \in DOMAIN txn : /\ txn[t].parents \subseteq 1..(t - 1)
                            /\ txn[t].replica \in 1..minted
                            /\ txn[t].created \in Nat
                            /\ \A s \in DOMAIN txn[t].bases : txn[t].bases[s] \in Nat
  BY <1>1 DEF Recorded
<1>3. files \in [Copies -> SUBSET DOMAIN txn]
  BY <1>1
<1>4. \A w \in Copies : /\ identity[w].id \in 0..minted
                        /\ identity[w].print \in Copies \cup {None}
  BY <1>1
<1>5. \A w \in Copies : pending[w] # None => pending[w].txn \in files[w]
  BY DEF Stored, Underway, UnderwayAt
<1>6. \A w \in Copies : IsInjective(index[w].seqs)
  BY DEF Stored, Indexed, WellIndexed, Numbering
<1>7. QED
  BY <1>1, <1>2, <1>3, <1>4, <1>5, <1>6 DEF TypeOK

\* the cursor
LEMMA FollowedImpliesExact ==
  ASSUME Stored, Logged, Followed
  PROVE  CursorIsExact
<1>1. SUFFICES ASSUME NEW w \in Copies, open[w], ~unlogged[w]
               PROVE  handled[w] = {e \in EventsIn(w) : index[w].seqs[e] <= checkpoint[w]}
  BY DEF CursorIsExact
<1>2. logFile[w] = index[w].seqs
  BY <1>1 DEF Logged, LogOf
<1>3. EventsIn(w) = DOMAIN index[w].seqs
  BY DEF Stored, Indexed, WellIndexed, EventsIn
<1>4. handled[w] = Upto(logFile[w], checkpoint[w])
  BY <1>1 DEF Followed, FollowedAt
<1>5. QED
  BY <1>2, <1>3, <1>4 DEF Upto

\* the inductive invariant so far
LEMMA Invariants == Spec => [](Stored /\ Logged /\ Followed)
<1>1. Init => Stored /\ Logged /\ Followed
  BY InitTyped, InitLogged, InitFollowed
<1>2. Stored /\ Logged /\ Followed /\ [Next]_vars => Stored' /\ Logged' /\ Followed'
  BY StoredStep
<1>3. QED
  BY <1>1, <1>2, PTL DEF Spec

(***************************************************************************)
(* Every copy stores well-formed transactions: parents are older ones,     *)
(* every recorded base is a number, a pending transaction is on disk, and  *)
(* no two events of a copy share a local sequence number (format.rs,       *)
(* index.rs, ingestion.rs), whatever is merged, copied, torn or dropped.   *)
(***************************************************************************)
THEOREM TypeCorrect == Spec => []TypeOK
<1>1. Stored /\ Logged /\ Followed => TypeOK
  BY StoredImpliesTypes
<1>2. QED
  BY <1>1, Invariants, PTL

(***************************************************************************)
(* A projection has handled exactly the events up to its checkpoint:       *)
(* merges, crashes, failed openings and copied directories neither put an  *)
(* event behind it nor bring one back, unless a write of the ingestion     *)
(* log failed.  Rests on ingestion.rs giving new events numbers above all  *)
(* on disk.                                                                *)
(***************************************************************************)
THEOREM CursorExact == Spec => []CursorIsExact
<1>1. Stored /\ Logged /\ Followed => CursorIsExact
  BY FollowedImpliesExact
<1>2. QED
  BY <1>1, Invariants, PTL

-------------------------------------------------------------------------------
(***************************************************************************)
(* Fourth part.  The index has every stream's events once, and in the      *)
(* canonical order but where its own identity has put an event by a merge  *)
(* that left tips aside; a transaction about to enter it was built on it.  *)
(***************************************************************************)
Leaves(q, t) == ~(TipsOf(Part(q, q[t].knew)) \subseteq q[t].parents)

MergedInto(q, headers, r, s) ==
  \E t \in headers : q[t].replica = r /\ Leaves(q, t) /\ s \in ToSet(q[t].events)

\* the stream, as the sequence e, made of the transactions h
StreamHeld(e, h, s) == ToSet(e) = OfStream(h, s) /\ Len(e) = Cardinality(OfStream(h, s))

\* the index i, of the identity r; q are the transactions
CanonicalIndex(i, r, q) ==
  /\ i.tips = TipsOf(Part(q, i.headers))
  /\ \A s \in Streams : /\ StreamHeld(i.streams[s], Part(q, i.headers), s)
                        /\ \/ i.streams[s] = ByStream(Part(q, i.headers))[s]
                           \/ MergedInto(q, i.headers, r, s)

\* p is about to enter the index i
OnTop(p, i, r, q) ==
  p # None => /\ q[p.txn].replica = r
              /\ q[p.txn].knew = i.headers
              /\ p.tips = (i.tips \ q[p.txn].parents) \cup {p.txn}

CanonicalAt(w) ==
  /\ CanonicalIndex(index[w], identity[w].id, txn)
  /\ OnTop(pending[w], index[w], identity[w].id, txn)

Canonical == \A w \in Copies : CanonicalAt(w)

(***************************************************************************)
(* What a transaction records is what its writer knew.                     *)
(***************************************************************************)
Knowing(x, h) ==
  /\ \A s \in DOMAIN x.bases : x.bases[s] = Cardinality(OfStream(h, s))
  /\ ToSet(x.events) \subseteq DOMAIN x.bases

Informed == \A t \in 1..Len(txn) : Knowing(txn[t], Part(txn, txn[t].knew))

\* the empty index is canonical
LEMMA NothingCanonical ==
  ASSUME NEW q, NEW r
  PROVE  CanonicalIndex(NoIndex, r, q)
<1> DEFINE h == Part(q, {})
<1>1. DOMAIN h = {} /\ EventsOf(h) = {}
  BY DEF Part, EventsOf
<1>2. TipsOf(h) = {}
  BY <1>1 DEF TipsOf
<1>3. \A s \in Streams : OfStream(h, s) = {}
  BY <1>1 DEF OfStream
<1>4. \A R : InOrder(R, {}) = << >>
  <2>1. Cardinality({}) = 0
    BY FS_EmptySet
  <2>2. 1..Cardinality({}) = {}
    BY <2>1
  <2>3. QED
    BY <2>2 DEF InOrder
<1>5. ToSet(<< >>) = {} /\ Len(<< >>) = 0 /\ Cardinality({}) = 0
  BY FS_EmptySet DEF ToSet
<1> HIDE DEF h
<1>6. ByStream(h) = [s \in Streams |-> << >>]
  BY <1>3, <1>4 DEF ByStream
<1>7. NoIndex.headers = {} /\ NoIndex.tips = {} /\ \A s \in Streams : NoIndex.streams[s] = << >>
  BY DEF NoIndex
<1>8. ASSUME NEW s \in Streams
      PROVE  StreamHeld(NoIndex.streams[s], h, s) /\ NoIndex.streams[s] = ByStream(h)[s]
  <2>1. OfStream(h, s) = {} /\ NoIndex.streams[s] = << >> /\ ByStream(h)[s] = << >>
    BY <1>3, <1>6, <1>7
  <2>2. QED
    BY <2>1, <1>5 DEF StreamHeld
<1>9. QED
  BY <1>2, <1>7, <1>8 DEF CanonicalIndex, h

\* an opened index is canonical
LEMMA ScannedCanonical ==
  ASSUME Stored, NEW i, NEW r, i.headers \subseteq 1..Len(txn),
         i.tips = TipsOf(Part(txn, i.headers)), i.streams = ByStream(Part(txn, i.headers))
  PROVE  CanonicalIndex(i, r, txn)
<1> DEFINE h == Part(txn, i.headers)
<1>1. Grounded(h, Len(txn))
  BY RecordedIsGrounded DEF Stored
<1> HIDE DEF h
<1>2. \A s \in Streams : StreamHeld(ByStream(h)[s], h, s)
  BY <1>1, ByStreamHolds DEF StreamHeld
<1>3. QED
  BY <1>2 DEF CanonicalIndex, h

\* two sequences joined: the members and the length
LEMMA HeldTogether ==
  ASSUME NEW e \in Seq(Nat \X Nat), NEW f \in Seq(Nat \X Nat), NEW s, NEW h, NEW x, NEW g,
         StreamHeld(e, h, s), StreamHeld(f, x, s),
         OfStream(g, s) = OfStream(h, s) \cup OfStream(x, s),
         Cardinality(OfStream(g, s)) = Cardinality(OfStream(h, s)) + Cardinality(OfStream(x, s))
  PROVE  StreamHeld(e \o f, g, s)
<1>1. ToSet(e \o f) = ToSet(e) \cup ToSet(f)
  BY ToSetOfConcat
<1>2. Len(e \o f) = Len(e) + Len(f)
  BY ConcatProperties
<1>3. QED
  BY <1>1, <1>2 DEF StreamHeld

\* publishing
LEMMA PublishedCanonical ==
  ASSUME Stored, NEW w \in Copies, pending[w] # None, CanonicalAt(w)
  PROVE  CanonicalIndex(Published(w), identity[w].id, txn)
<1> DEFINE t == pending[w].txn
           D == index[w].headers
           g == Part(txn, D \cup {t})
           n == Len(txn)
           r == identity[w].id
<1>1. /\ t \in 1..n /\ D \subseteq 1..n /\ D \subseteq 1..(t - 1)
      /\ Published(w).headers = D \cup {t}
      /\ Published(w).tips = pending[w].tips
      /\ Published(w).streams = [s \in Streams |-> index[w].streams[s] \o ByStream(Part(txn, {t}))[s]]
  <2>1. D \subseteq 1..(t - 1)
    BY DEF Stored, Underway, UnderwayAt
  <2>2. QED
    BY <2>1, PublishedIs
<1>2. /\ index[w].tips = TipsOf(Part(txn, D))
      /\ txn[t].replica = r /\ txn[t].knew = D
      /\ pending[w].tips = (index[w].tips \ txn[t].parents) \cup {t}
  BY DEF CanonicalAt, CanonicalIndex, OnTop
<1>3. ASSUME NEW s \in Streams
      PROVE  /\ StreamHeld(index[w].streams[s], Part(txn, D), s)
             /\ index[w].streams[s] = ByStream(Part(txn, D))[s] \/ MergedInto(txn, D, r, s)
             /\ index[w].streams[s] \in Seq(Nat \X Nat)
  BY DEF CanonicalAt, CanonicalIndex, Stored, Indexed, WellIndexed
<1>4. Grounded(g, n) /\ DOMAIN g = D \cup {t}
  <2>1. D \cup {t} \subseteq 1..n
    BY <1>1
  <2> HIDE DEF D, t
  <2>2. QED
    BY <2>1, RecordedIsGrounded DEF Stored
<1>5. Part(g, D) = Part(txn, D) /\ Part(g, {t}) = Part(txn, {t}) /\ g[t] = txn[t]
  BY DEF Part
<1>6. Grounded(Part(txn, {t}), n) /\ DOMAIN Part(txn, {t}) = {t} /\ Part(txn, {t})[t] = txn[t]
  <2>1. {t} \subseteq 1..n
    BY <1>1
  <2>2. Part(txn, {t})[t] = txn[t]
    BY DEF Part
  <2> HIDE DEF t
  <2>3. QED
    BY <2>1, <2>2, RecordedIsGrounded DEF Stored
<1> HIDE DEF t, D, n, g, r
<1>7. Newest(g, n, D, t)
  BY <1>1, <1>4 DEF Newest
<1>8. Published(w).tips = TipsOf(g)
  BY <1>1, <1>2, <1>5, <1>7, NewTips
<1> DEFINE new(s) == ByStream(Part(txn, {t}))[s]
<1>9. ASSUME NEW s \in Streams PROVE new(s) \in Seq(Nat \X Nat) /\ StreamHeld(new(s), Part(txn, {t}), s)
  BY <1>6, ByStreamHolds DEF StreamHeld
<1>10. ASSUME NEW s \in Streams PROVE StreamHeld(index[w].streams[s] \o new(s), g, s)
  <2>1. /\ OfStream(g, s) = OfStream(Part(txn, D), s) \cup OfStream(Part(txn, {t}), s)
        /\ Cardinality(OfStream(g, s))
             = Cardinality(OfStream(Part(txn, D), s)) + Cardinality(OfStream(Part(txn, {t}), s))
    BY <1>5, <1>7, StreamsGrow
  <2> HIDE DEF new
  <2>2. QED
    BY <2>1, <1>3, <1>9, HeldTogether
<1>11. ASSUME NEW s \in Streams, ~MergedInto(txn, D \cup {t}, r, s)
      PROVE  index[w].streams[s] \o new(s) = ByStream(g)[s]
  <2>1. index[w].streams[s] = ByStream(Part(txn, D))[s]
    BY <1>3, <1>11 DEF MergedInto
  <2>2. ~Leaves(txn, t) \/ s \notin ToSet(txn[t].events)
    BY <1>2, <1>11 DEF MergedInto
  <2>3. ~Leaves(txn, t) => TipsOf(Part(g, D)) \subseteq g[t].parents
    BY <1>2, <1>5 DEF Leaves
  <2>4. s \notin ToSet(txn[t].events) => OfStream(Part(g, {t}), s) = {}
    <3>1. SUFFICES ASSUME NEW e \in OfStream(Part(txn, {t}), s) PROVE s \in ToSet(txn[t].events)
      BY <1>5
    <3>2. e \in EventsOf(Part(txn, {t})) /\ StreamOf(Part(txn, {t}), e) = s
      BY <3>1 DEF OfStream
    <3>3. e[1] = t /\ e[2] \in 1..Len(Part(txn, {t})[e[1]].events)
      BY <1>6, <3>2, EventsAre
    <3>4. e[2] \in 1..Len(txn[t].events) /\ txn[t].events[e[2]] = s /\ txn[t].events \in Seq(Streams)
      BY <1>6, <3>2, <3>3 DEF StreamOf, Grounded
    <3>5. QED
      BY <3>4 DEF ToSet
  <2>5. ExtendedBy(g, Part(g, D), Part(g, {t}), s)
    BY <1>7, <2>2, <2>3, <2>4, StreamsExtend
  <2>6. \A h : ByStream(h)[s] = StreamIn(h, s)
    BY DEF ByStream, StreamIn
  <2>7. QED
    BY <2>1, <2>5, <2>6, <1>5 DEF ExtendedBy
<1>12. ASSUME NEW s \in Streams PROVE Published(w).streams[s] = index[w].streams[s] \o new(s)
  BY <1>1
<1> HIDE DEF new
<1>13. ASSUME NEW s \in Streams
       PROVE  /\ StreamHeld(Published(w).streams[s], g, s)
              /\ Published(w).streams[s] = ByStream(g)[s] \/ MergedInto(txn, D \cup {t}, r, s)
  BY <1>10, <1>11, <1>12
<1>14. QED
  BY <1>1, <1>8, <1>13 DEF CanonicalIndex, g, r

\* what a transaction left aside does not change
LEMMA LeavesKept ==
  ASSUME Stored, Grows, NEW t \in 1..Len(txn)
  PROVE  txn'[t] = txn[t] /\ (Leaves(txn', t) <=> Leaves(txn, t))
<1>1. txn[t].knew \subseteq 1..Len(txn)
  <2>1. Len(txn) \in Nat /\ txn[t].knew \subseteq 1..(t - 1)
    BY DEF Stored, Typed, Listed, Recorded
  <2>2. QED
    BY <2>1
<1>2. Part(txn', txn[t].knew) = Part(txn, txn[t].knew)
  BY <1>1, PartGrows
<1>3. txn'[t] = txn[t]
  BY DEF Grows
<1>4. QED
  BY <1>2, <1>3 DEF Leaves

\* an index of recorded transactions stays canonical
LEMMA CanonicalGrows ==
  ASSUME Stored, Grows, NEW i, NEW r, i.headers \subseteq 1..Len(txn), CanonicalIndex(i, r, txn)
  PROVE  CanonicalIndex(i, r, txn')
<1>1. Part(txn', i.headers) = Part(txn, i.headers)
  BY PartGrows
<1>2. ASSUME NEW s, MergedInto(txn, i.headers, r, s) PROVE MergedInto(txn', i.headers, r, s)
  BY <1>2, LeavesKept DEF MergedInto
<1>3. QED
  BY <1>1, <1>2 DEF CanonicalIndex

\* an index nobody touches stays canonical
LEMMA CanonicalKept ==
  ASSUME Stored, Grows, NEW v \in Copies, CanonicalAt(v), index'[v] = index[v],
         identity'[v] = identity[v] \/ ~open[v],
         pending'[v] = pending[v] \/ pending'[v] = None
  PROVE  CanonicalAt(v)'
<1>1. index[v].headers \subseteq 1..Len(txn) /\ (pending[v] # None => pending[v].txn \in 1..Len(txn))
  BY DEF Stored, Typed, Indexed, Underway, UnderwayAt
<1>2. CASE identity'[v] = identity[v]
  <2>1. CanonicalIndex(index'[v], identity'[v].id, txn')
    BY <1>1, <1>2, CanonicalGrows DEF CanonicalAt
  <2>2. pending[v] # None => txn'[pending[v].txn] = txn[pending[v].txn]
    BY <1>1 DEF Grows
  <2>3. OnTop(pending'[v], index'[v], identity'[v].id, txn')
    BY <1>2, <2>2 DEF CanonicalAt, OnTop
  <2>4. QED
    BY <2>1, <2>3 DEF CanonicalAt
<1>3. CASE ~open[v]
  <2>1. index'[v] = NoIndex /\ pending'[v] = None
    BY <1>3 DEF Stored, Indexed, Underway, UnderwayAt
  <2>2. QED
    BY <2>1, NothingCanonical DEF CanonicalAt, OnTop
<1>4. QED
  BY <1>2, <1>3

\* a write
LEMMA CanonicalWrites ==
  ASSUME Stored, Grows, NEW w \in Copies, CanonicalAt(w), NEW parents, NEW registered, NEW events,
         Writable(w, parents, registered, events), WriteTransaction(w, parents, registered, events),
         Publishes(w, (index[w].tips \ parents) \cup {Len(txn) + 1})
  PROVE  CanonicalAt(w)'
<1>1. index[w].headers \subseteq 1..Len(txn) /\ DOMAIN pending = Copies
  BY DEF Stored, Typed, Indexed
<1>2. /\ txn'[Len(txn) + 1].parents = parents
      /\ txn'[Len(txn) + 1].replica = identity[w].id
      /\ txn'[Len(txn) + 1].knew = index[w].headers
  <2>1. txn'[Len(txn) + 1] = [replica |-> identity[w].id,
                              parents |-> parents,
                              created |-> Len(txn) + Skew[w],
                              bases |-> [s \in registered |-> StreamHead(w, s)],
                              events |-> events,
                              knew |-> index[w].headers]
    BY Written
  <2>2. QED
    BY <2>1
<1>3. /\ index' = index /\ identity' = identity
      /\ pending'[w] = [txn |-> Len(txn) + 1, tips |-> (index[w].tips \ parents) \cup {Len(txn) + 1}]
  BY <1>1 DEF WriteTransaction, Publishes
<1>4. OnTop(pending'[w], index'[w], identity'[w].id, txn')
  BY <1>2, <1>3 DEF OnTop
<1>5. CanonicalIndex(index'[w], identity'[w].id, txn')
  BY <1>1, <1>3, CanonicalGrows DEF CanonicalAt
<1>6. QED
  BY <1>4, <1>5 DEF CanonicalAt

\* every step
LEMMA CanonicalStep ==
  ASSUME Stored, Logged, Canonical, [Next]_vars
  PROVE  Canonical'
<1>1. Grows
  BY StepGrows
<1>2. SUFFICES ASSUME NEW v \in Copies PROVE CanonicalAt(v)'
  BY DEF Canonical
<1>3. CanonicalAt(v) /\ DOMAIN index = Copies /\ DOMAIN pending = Copies /\ DOMAIN identity = Copies
  BY DEF Canonical, Stored, Typed
<1>4. CASE /\ index'[v] = index[v] /\ (identity'[v] = identity[v] \/ ~open[v])
           /\ (pending'[v] = pending[v] \/ pending'[v] = None)
  BY <1>1, <1>3, <1>4, CanonicalKept
<1>5. CASE Open(v)
  <2>1. index'[v] = Scanned(v) /\ pending'[v] = None /\ txn' = txn
    BY <1>3, <1>5 DEF Open, Ended
  <2>2. Numbering(logFile[v]) /\ DOMAIN logFile[v] \subseteq EventsOf(Part(txn, files[v]))
    BY DEF Logged, LogOf
  <2>3. /\ Scanned(v).headers = files[v]
        /\ Scanned(v).streams = ByStream(Part(txn, files[v])) /\ Scanned(v).tips = TipsOf(Part(txn, files[v]))
    BY <2>2, ScannedIs DEF Stored
  <2>4. files[v] \subseteq 1..Len(txn)
    BY DEF Stored, Typed
  <2>5. CanonicalIndex(Scanned(v), identity'[v].id, txn)
    BY <2>3, <2>4, ScannedCanonical
  <2>6. QED
    BY <2>1, <2>5 DEF CanonicalAt, OnTop
<1>6. CASE OpenFails(v)
  <2>1. index'[v] = NoIndex /\ pending'[v] = None
    BY <1>3, <1>6 DEF OpenFails, Ended
  <2>2. QED
    BY <2>1, NothingCanonical DEF CanonicalAt, OnTop
<1>7. CASE Publish(v) \/ PublishUnlogged(v)
  <2>1. /\ pending[v] # None /\ index'[v] = Published(v) /\ pending'[v] = None /\ txn' = txn
        /\ identity' = identity
    BY <1>3, <1>7 DEF Publish, PublishUnlogged
  <2>2. QED
    BY <2>1, <1>3, PublishedCanonical DEF CanonicalAt, OnTop
<1>8. CASE AppendEvents(v)
  <2>1. PICK registered, events :
          /\ Writable(v, index[v].tips, registered, events)
          /\ WriteTransaction(v, index[v].tips, registered, events)
    BY <1>8, AppendWrites DEF AppendEvents
  <2> DEFINE parents == index[v].tips
  <2>2. {Len(txn) + 1} = (index[v].tips \ parents) \cup {Len(txn) + 1}
    OBVIOUS
  <2>3. Publishes(v, (index[v].tips \ parents) \cup {Len(txn) + 1})
    BY <1>8, <2>2 DEF AppendEvents
  <2>4. Writable(v, parents, registered, events) /\ WriteTransaction(v, parents, registered, events)
    BY <2>1
  <2> HIDE DEF parents
  <2>5. QED
    BY <2>3, <2>4, <1>1, <1>3, CanonicalWrites
<1>9. CASE ResolveFork(v)
  <2>1. PICK events :
          /\ Writable(v, Head(remaining[v]).heads, ToSet(events), events)
          /\ WriteTransaction(v, Head(remaining[v]).heads, ToSet(events), events)
    BY <1>9, ResolutionWrites
  <2> DEFINE parents == Head(remaining[v]).heads
             registered == ToSet(events)
  <2>2. /\ Publishes(v, (index[v].tips \ parents) \cup {Len(txn) + 1})
        /\ Writable(v, parents, registered, events) /\ WriteTransaction(v, parents, registered, events)
    BY <2>1, <1>9 DEF ResolveFork
  <2> HIDE DEF parents, registered
  <2>3. QED
    BY <2>2, <1>1, <1>3, CanonicalWrites
<1>10. ASSUME NEW w \in Copies, v # w,
              \/ Open(w) \/ OpenFails(w) \/ Publish(w) \/ PublishUnlogged(w) \/ AppendEvents(w) \/ ResolveFork(w)
       PROVE  CanonicalAt(v)'
  <2>1. index'[v] = index[v] /\ pending'[v] = pending[v] /\ identity'[v] = identity[v]
    BY <1>3, <1>10 DEF Open, OpenFails, Ended, LoadIdentity, Publish, PublishUnlogged, AppendEvents, WriteBatch,
                       WriteTransaction, ResolveFork, Publishes
  <2>2. QED
    BY <2>1, <1>4
<1>11. ASSUME NEW w \in Copies, AbandonAppend(w) \/ Reconcile(w) \/ DeclineFork(w) \/ Project(w)
       PROVE  CanonicalAt(v)'
  BY <1>4, <1>11 DEF AbandonAppend, WriteBatch, WriteTransaction, Reconcile, DeclineFork, Project, process, disk
<1>12. ASSUME NEW w \in Copies, NEW u \in Copies, GitMerge(w, u) \/ CopyTree(w, u) PROVE CanonicalAt(v)'
  <2>1. identity'[v] = identity[v] \/ ~open[v]
    BY <1>3, <1>12 DEF GitMerge, CopyTree
  <2>2. QED
    BY <2>1, <1>4, <1>12 DEF GitMerge, CopyTree, process
<1>13. CASE UNCHANGED vars
  BY <1>4, <1>13 DEF vars, process, disk
<1>14. QED
  BY <1>5, <1>6, <1>7, <1>8, <1>9, <1>10, <1>11, <1>12, <1>13 DEF Next

\* a write records what the index held
LEMMA InformedWrites ==
  ASSUME Stored, Canonical, Informed, Grows, NEW w \in Copies, NEW parents, NEW registered, NEW events,
         Writable(w, parents, registered, events), WriteTransaction(w, parents, registered, events),
         ToSet(events) \subseteq registered
  PROVE  Informed'
<1> DEFINE x == [replica |-> identity[w].id,
                 parents |-> parents,
                 created |-> Len(txn) + Skew[w],
                 bases |-> [s \in registered |-> StreamHead(w, s)],
                 events |-> events,
                 knew |-> index[w].headers]
           h == Part(txn, index[w].headers)
<1>1. /\ Len(txn') = Len(txn) + 1 /\ txn'[Len(txn) + 1] = x
      /\ \A t \in 1..Len(txn) : txn'[t] = txn[t]
  BY Written
<1>2. Len(txn) \in Nat /\ index[w].headers \subseteq 1..Len(txn)
      /\ \A t \in 1..Len(txn) : txn[t].knew \subseteq 1..Len(txn)
  BY DEF Stored, Typed, Listed, Recorded, Indexed
<1>3. \A s \in Streams : Len(index[w].streams[s]) = Cardinality(OfStream(h, s))
  BY DEF Canonical, CanonicalAt, CanonicalIndex, StreamHeld
<1>4. Knowing(x, h)
  <2>1. \A s \in registered : x.bases[s] = Cardinality(OfStream(h, s))
    BY <1>3 DEF Writable, StreamHead
  <2>2. DOMAIN x.bases = registered /\ x.events = events
    OBVIOUS
  <2> HIDE DEF x
  <2>3. QED
    BY <2>1, <2>2 DEF Knowing
<1>5. x.knew = index[w].headers
  OBVIOUS
<1> HIDE DEF x
<1>6. ASSUME NEW t \in 1..Len(txn') PROVE Knowing(txn'[t], Part(txn', txn'[t].knew))
  <2>1. CASE t \in 1..Len(txn)
    <3>1. txn'[t] = txn[t] /\ Part(txn', txn[t].knew) = Part(txn, txn[t].knew)
      BY <2>1, <1>1, <1>2, PartGrows
    <3>2. QED
      BY <2>1, <3>1 DEF Informed
  <2>2. CASE t = Len(txn) + 1
    <3>1. txn'[t] = x /\ Part(txn', x.knew) = h
      BY <2>2, <1>1, <1>2, <1>5, PartGrows
    <3>2. QED
      BY <3>1, <1>4
  <2>3. QED
    BY <2>1, <2>2, <1>1, <1>2
<1>7. QED
  BY <1>6 DEF Informed

\* every step
LEMMA InformedStep ==
  ASSUME Stored, Canonical, Informed, [Next]_vars
  PROVE  Informed'
<1>1. Grows
  BY StepGrows
<1>2. CASE UNCHANGED txn
  BY <1>2 DEF Informed
<1>3. ASSUME NEW w \in Copies, Open(w) \/ OpenFails(w) \/ Publish(w) \/ PublishUnlogged(w) PROVE Informed'
  BY <1>2, <1>3 DEF Open, OpenFails, Publish, PublishUnlogged
<1>4. ASSUME NEW w \in Copies, Reconcile(w) \/ DeclineFork(w) \/ Project(w) PROVE Informed'
  BY <1>2, <1>4 DEF Reconcile, DeclineFork, Project, disk
<1>5. ASSUME NEW w \in Copies, AppendEvents(w) \/ AbandonAppend(w) PROVE Informed'
  <2>1. PICK registered, events :
          /\ Writable(w, index[w].tips, registered, events)
          /\ ToSet(events) \subseteq registered
          /\ WriteTransaction(w, index[w].tips, registered, events)
    BY <1>5, AppendWrites DEF AppendEvents, AbandonAppend
  <2> DEFINE parents == index[w].tips
  <2>2. Writable(w, parents, registered, events) /\ WriteTransaction(w, parents, registered, events)
    BY <2>1
  <2> HIDE DEF parents
  <2>3. QED
    BY <2>1, <2>2, <1>1, InformedWrites
<1>6. ASSUME NEW w \in Copies, ResolveFork(w) PROVE Informed'
  <2>1. PICK events :
          /\ Writable(w, Head(remaining[w]).heads, ToSet(events), events)
          /\ WriteTransaction(w, Head(remaining[w]).heads, ToSet(events), events)
    BY <1>6, ResolutionWrites
  <2> DEFINE parents == Head(remaining[w]).heads
             registered == ToSet(events)
  <2>2. /\ Writable(w, parents, registered, events) /\ WriteTransaction(w, parents, registered, events)
        /\ ToSet(events) \subseteq registered
    BY <2>1
  <2> HIDE DEF parents, registered
  <2>3. QED
    BY <2>2, <1>1, InformedWrites
<1>7. ASSUME NEW w \in Copies, NEW u \in Copies, GitMerge(w, u) \/ CopyTree(w, u) PROVE Informed'
  BY <1>2, <1>7 DEF GitMerge, CopyTree
<1>8. CASE UNCHANGED vars
  BY <1>2, <1>8 DEF vars, disk
<1>9. QED
  BY <1>3, <1>4, <1>5, <1>6, <1>7, <1>8 DEF Next

-------------------------------------------------------------------------------
(***************************************************************************)
(* Fifth part.  Forks to be presented are of transactions that recorded    *)
(* one base, and nothing else leaves tips aside.                           *)
(***************************************************************************)
OneBase(q, heads) ==
  /\ Cardinality(heads) >= 2
  /\ \E s \in Streams : \A t, u \in heads : /\ s \in DOMAIN q[t].bases /\ s \in DOMAIN q[u].bases
                                           /\ q[t].bases[s] = q[u].bases[s]

OfferedAt(v) == \A i \in 1..Len(remaining[v]) : OneBase(txn, remaining[v][i].heads)

Offered == \A v \in Copies : OfferedAt(v)

Joined == \A t \in 1..Len(txn) : Leaves(txn, t) => OneBase(txn, txn[t].parents)

\* what transactions recorded does not change
LEMMA OneBaseKept ==
  ASSUME Grows, NEW H, H \subseteq 1..Len(txn), OneBase(txn, H)
  PROVE  OneBase(txn', H)
<1>1. \A t \in H : txn'[t] = txn[t]
  BY DEF Grows
<1>2. PICK s \in Streams : \A t, u \in H : /\ s \in DOMAIN txn[t].bases /\ s \in DOMAIN txn[u].bases
                                          /\ txn[t].bases[s] = txn[u].bases[s]
  BY DEF OneBase
<1>3. \A t, u \in H : /\ s \in DOMAIN txn'[t].bases /\ s \in DOMAIN txn'[u].bases
                       /\ txn'[t].bases[s] = txn'[u].bases[s]
  BY <1>1, <1>2
<1>4. QED
  BY <1>3 DEF OneBase

\* the heads of a fork recorded the same base
LEMMA HeadsShareBase ==
  ASSUME NEW h, NEW fork \in Forks(h)
  PROVE  /\ Cardinality(fork.heads) >= 2
         /\ \A t \in fork.heads : t \in DOMAIN h /\ fork.stream \in DOMAIN h[t].bases
                                 /\ h[t].bases[fork.stream] = fork.base
<1> DEFINE bases == UNION {{<< s, h[x].bases[s] >> : s \in DOMAIN h[x].bases} : x \in DOMAIN h}
           Heads(key) == {x \in DOMAIN h : key[1] \in DOMAIN h[x].bases /\ h[x].bases[key[1]] = key[2]}
<1>1. /\ fork \in {[stream |-> key[1], base |-> key[2], heads |-> Heads(key)] : key \in bases}
      /\ Cardinality(fork.heads) >= 2
  <2> HIDE DEF bases
  <2>1. QED
    BY DEF Forks, bases
<1>2. PICK key \in bases : fork = [stream |-> key[1], base |-> key[2], heads |-> Heads(key)]
  <2> HIDE DEF bases
  <2>1. QED
    BY <1>1
<1>3. fork.stream = key[1] /\ fork.base = key[2] /\ fork.heads = Heads(key)
  BY <1>2
<1>4. QED
  BY <1>1, <1>3

\* a fork found among recorded transactions
LEMMA ForksAreOfOneBase ==
  ASSUME Typed, NEW S, S \subseteq 1..Len(txn), NEW fork \in Forks(Part(txn, S))
  PROVE  OneBase(txn, fork.heads)
<1> DEFINE h == Part(txn, S)
<1>1. DOMAIN h = S /\ \A t \in S : h[t] = txn[t]
  BY DEF Part
<1>2. fork.stream \in Streams
  BY ForksAreForked DEF Forked
<1>3. fork \in Forks(h)
  OBVIOUS
<1> HIDE DEF h
<1>4. Cardinality(fork.heads) >= 2
      /\ \A t \in fork.heads : /\ t \in DOMAIN h /\ fork.stream \in DOMAIN h[t].bases
                              /\ h[t].bases[fork.stream] = fork.base
  BY <1>3, HeadsShareBase
<1>5. ASSUME NEW t \in fork.heads
      PROVE  fork.stream \in DOMAIN txn[t].bases /\ txn[t].bases[fork.stream] = fork.base
  <2>1. h[t] = txn[t]
    BY <1>1, <1>4
  <2>2. fork.stream \in DOMAIN h[t].bases /\ h[t].bases[fork.stream] = fork.base
    BY <1>4
  <2>3. QED
    BY <2>1, <2>2
<1>6. QED
  BY <1>2, <1>4, <1>5 DEF OneBase

\* every step
LEMMA OfferedStep ==
  ASSUME Stored, Offered, [Next]_vars
  PROVE  Offered'
<1>1. Grows
  BY StepGrows
<1>2. SUFFICES ASSUME NEW v \in Copies PROVE OfferedAt(v)'
  BY DEF Offered
<1>3. /\ DOMAIN remaining = Copies /\ OfferedAt(v) /\ Listed(remaining[v])
      /\ \A i \in 1..Len(remaining[v]) : remaining[v][i].heads \subseteq 1..Len(txn)
  <2>1. /\ DOMAIN remaining = Copies /\ OfferedAt(v) /\ index[v].headers \subseteq 1..Len(txn) /\ UnderwayAt(v)
    BY DEF Offered, Stored, Typed, Indexed, Underway
  <2>2. QED
    BY <2>1 DEF UnderwayAt, Forked
<1>4. CASE remaining'[v] = remaining[v]
  BY <1>1, <1>3, <1>4, OneBaseKept DEF OfferedAt
<1>5. CASE remaining'[v] = << >>
  <2>1. 1..Len(<< >>) = {}
    BY EmptyListed
  <2>2. QED
    BY <2>1, <1>5 DEF OfferedAt
<1>6. CASE remaining[v] # << >> /\ remaining'[v] = Tail(remaining[v])
  <2>1. \A i \in 1..Len(Tail(remaining[v])) :
          i + 1 \in 1..Len(remaining[v]) /\ Tail(remaining[v])[i] = remaining[v][i + 1]
    BY <1>3, <1>6, TailListed
  <2>2. \A i \in 1..Len(remaining[v]) : OneBase(txn', remaining[v][i].heads)
    BY <1>1, <1>3, OneBaseKept DEF OfferedAt
  <2>3. QED
    BY <2>1, <2>2, <1>6 DEF OfferedAt
<1>7. CASE Reconcile(v)
  <2> DEFINE F == Forks(Part(txn, index[v].headers))
             q == SetToSeq(F)
  <2>1. remaining'[v] = q /\ txn' = txn
    BY <1>3, <1>7, HistoryIsPart DEF Reconcile, disk
  <2>2. index[v].headers \subseteq 1..Len(txn) /\ Typed
    BY DEF Stored, Typed, Indexed
  <2>3. IsFiniteSet(F) /\ \A fork \in F : OneBase(txn, fork.heads)
    BY <2>2, ForksAreForked, ForksAreOfOneBase
  <2>4. q \in Seq(F)
    BY <2>3, SetToSeqListed
  <2> HIDE DEF q
  <2>5. \A i \in 1..Len(q) : q[i] \in F
    BY <2>4, SequencesAreListed
  <2>6. QED
    BY <2>1, <2>3, <2>5 DEF OfferedAt
<1>8. ASSUME NEW w \in Copies, ResolveFork(w) \/ DeclineFork(w) PROVE OfferedAt(v)'
  <2>1. remaining[w] # << >> /\ remaining' = [remaining EXCEPT ![w] = Tail(@)]
    BY <1>8 DEF ResolveFork, DeclineFork
  <2>2. CASE v = w
    BY <2>1, <2>2, <1>3, <1>6
  <2>3. CASE v # w
    BY <2>1, <2>3, <1>3, <1>4
  <2>4. QED
    BY <2>2, <2>3
<1>9. ASSUME NEW w \in Copies, Open(w) \/ OpenFails(w) \/ Publish(w) \/ PublishUnlogged(w) PROVE OfferedAt(v)'
  <2>1. remaining' = remaining \/ remaining' = [remaining EXCEPT ![w] = << >>]
    BY <1>9 DEF Open, OpenFails, Ended, Publish, PublishUnlogged
  <2>2. QED
    BY <2>1, <1>3, <1>4, <1>5
<1>10. ASSUME NEW w \in Copies, Reconcile(w), v # w PROVE OfferedAt(v)'
  BY <1>3, <1>4, <1>10 DEF Reconcile
<1>11. ASSUME NEW w \in Copies, AppendEvents(w) \/ AbandonAppend(w) \/ Project(w) PROVE OfferedAt(v)'
  BY <1>4, <1>11 DEF AppendEvents, AbandonAppend, WriteBatch, Project, process
<1>12. ASSUME NEW w \in Copies, NEW u \in Copies, GitMerge(w, u) \/ CopyTree(w, u) PROVE OfferedAt(v)'
  BY <1>4, <1>12 DEF GitMerge, CopyTree, process
<1>13. CASE UNCHANGED vars
  BY <1>4, <1>13 DEF vars, process
<1>14. QED
  BY <1>7, <1>8, <1>9, <1>10, <1>11, <1>12, <1>13 DEF Next

\* a write on all the tips, or on transactions of one base
LEMMA JoinedWrites ==
  ASSUME Stored, Canonical, Joined, Grows, NEW w \in Copies, NEW parents, NEW registered, NEW events,
         Writable(w, parents, registered, events), WriteTransaction(w, parents, registered, events),
         index[w].tips \subseteq parents \/ OneBase(txn, parents)
  PROVE  Joined'
<1>1. /\ Len(txn') = Len(txn) + 1
      /\ txn'[Len(txn) + 1].parents = parents /\ txn'[Len(txn) + 1].knew = index[w].headers
  <2>1. /\ Len(txn') = Len(txn) + 1
        /\ txn'[Len(txn) + 1] = [replica |-> identity[w].id,
                                 parents |-> parents,
                                 created |-> Len(txn) + Skew[w],
                                 bases |-> [s \in registered |-> StreamHead(w, s)],
                                 events |-> events,
                                 knew |-> index[w].headers]
    BY Written
  <2>2. QED
    BY <2>1
<1>2. Len(txn) \in Nat /\ index[w].headers \subseteq 1..Len(txn) /\ parents \subseteq 1..Len(txn)
  BY DEF Stored, Typed, Listed, Indexed, Writable
<1>3. index[w].tips = TipsOf(Part(txn, index[w].headers))
      /\ Part(txn', index[w].headers) = Part(txn, index[w].headers)
  BY <1>2, PartGrows DEF Canonical, CanonicalAt, CanonicalIndex
<1>4. SUFFICES ASSUME NEW t \in 1..Len(txn'), Leaves(txn', t) PROVE OneBase(txn', txn'[t].parents)
  BY DEF Joined
<1>5. CASE t \in 1..Len(txn)
  <2>1. txn'[t] = txn[t] /\ Leaves(txn, t)
    BY <1>4, <1>5, LeavesKept
  <2>2. txn[t].parents \subseteq 1..Len(txn)
    <3>1. txn[t].parents \subseteq 1..(t - 1)
      BY <1>5 DEF Stored, Typed, Recorded
    <3>2. QED
      BY <3>1, <1>2, <1>5
  <2>3. OneBase(txn, txn[t].parents)
    BY <2>1, <1>5 DEF Joined
  <2>4. QED
    BY <2>1, <2>2, <2>3, OneBaseKept
<1>6. CASE t = Len(txn) + 1
  <2>1. ~(index[w].tips \subseteq parents)
    BY <1>1, <1>3, <1>4, <1>6 DEF Leaves
  <2>2. QED
    BY <2>1, <1>1, <1>2, <1>6, OneBaseKept
<1>7. QED
  BY <1>1, <1>2, <1>5, <1>6

\* every step
LEMMA JoinedStep ==
  ASSUME Stored, Canonical, Offered, Joined, [Next]_vars
  PROVE  Joined'
<1>1. Grows
  BY StepGrows
<1>2. CASE UNCHANGED txn
  BY <1>2 DEF Joined
<1>3. ASSUME NEW w \in Copies, Open(w) \/ OpenFails(w) \/ Publish(w) \/ PublishUnlogged(w) PROVE Joined'
  BY <1>2, <1>3 DEF Open, OpenFails, Publish, PublishUnlogged
<1>4. ASSUME NEW w \in Copies, Reconcile(w) \/ DeclineFork(w) \/ Project(w) PROVE Joined'
  BY <1>2, <1>4 DEF Reconcile, DeclineFork, Project, disk
<1>5. ASSUME NEW w \in Copies, AppendEvents(w) \/ AbandonAppend(w) PROVE Joined'
  <2>1. PICK registered, events :
          /\ Writable(w, index[w].tips, registered, events)
          /\ WriteTransaction(w, index[w].tips, registered, events)
    BY <1>5, AppendWrites DEF AppendEvents, AbandonAppend
  <2> DEFINE parents == index[w].tips
  <2>2. /\ Writable(w, parents, registered, events) /\ WriteTransaction(w, parents, registered, events)
        /\ index[w].tips \subseteq parents
    BY <2>1
  <2> HIDE DEF parents
  <2>3. QED
    BY <2>2, <1>1, JoinedWrites
<1>6. ASSUME NEW w \in Copies, ResolveFork(w) PROVE Joined'
  <2>1. PICK events :
          /\ Writable(w, Head(remaining[w]).heads, ToSet(events), events)
          /\ WriteTransaction(w, Head(remaining[w]).heads, ToSet(events), events)
    BY <1>6, ResolutionWrites
  <2> DEFINE parents == Head(remaining[w]).heads
             registered == ToSet(events)
  <2>2. OneBase(txn, parents)
    <3>1. remaining[w] # << >> /\ Listed(remaining[w]) /\ OfferedAt(w)
      BY <1>6 DEF ResolveFork, Stored, Underway, UnderwayAt, Offered
    <3>2. \E i \in 1..Len(remaining[w]) : Head(remaining[w]) = remaining[w][i]
      BY <3>1, TailListed
    <3>3. QED
      BY <3>1, <3>2 DEF OfferedAt
  <2>3. Writable(w, parents, registered, events) /\ WriteTransaction(w, parents, registered, events)
    BY <2>1
  <2> HIDE DEF parents, registered
  <2>4. QED
    BY <2>2, <2>3, <1>1, JoinedWrites
<1>7. ASSUME NEW w \in Copies, NEW u \in Copies, GitMerge(w, u) \/ CopyTree(w, u) PROVE Joined'
  BY <1>2, <1>7 DEF GitMerge, CopyTree
<1>8. CASE UNCHANGED vars
  BY <1>2, <1>8 DEF vars, disk
<1>9. QED
  BY <1>3, <1>4, <1>5, <1>6, <1>7, <1>8 DEF Next

-------------------------------------------------------------------------------
(***************************************************************************)
(* Sixth part: an identity belongs to one copy, and its transactions are   *)
(* that copy's, one upon the other.                                        *)
(***************************************************************************)
Distinct ==
  /\ \A w, v \in Copies :
       identity[w].print = w /\ identity[v].print = v /\ identity[w].id = identity[v].id => w = v
  /\ \A w, v \in Copies : identity[v].print = w => identity[w].id # 0

\* the transaction t, of the copy w
HeldBy(w, t) ==
  /\ t \in files[w]
  /\ open[w] /\ ~abandoned[w] => t \in index[w].headers \/ (pending[w] # None /\ t = pending[w].txn)

OwnedBy(w) ==
  identity[w].print = w => \A t \in 1..Len(txn) : txn[t].replica = identity[w].id => HeldBy(w, t)

Owned == \A w \in Copies : OwnedBy(w)

Chained ==
  (\A v \in Copies : ~abandoned[v]) =>
    \A u \in 1..Len(txn) : \A t \in 1..(u - 1) : txn[t].replica = txn[u].replica => t \in txn[u].knew

\* no two copies come to write under one identity
LEMMA DistinctStep ==
  ASSUME Stored, Distinct, [Next]_vars
  PROVE  Distinct'
<1>1. DOMAIN identity = Copies /\ Typed /\ Identified
  BY DEF Stored, Typed
<1>2. CASE UNCHANGED identity
  BY <1>2 DEF Distinct
<1>3. ASSUME NEW w \in Copies, Open(w) \/ OpenFails(w) PROVE Distinct'
  <2>1. LoadIdentity(w)
    BY <1>3 DEF Open, OpenFails
  <2>2. /\ ReplicaId(w) # minted + 1 => KeepsIdentity(w) /\ ReplicaId(w) = identity[w].id
        /\ identity' = [identity EXCEPT ![w] = [id |-> ReplicaId(w), print |-> w]]
        /\ ReplicaId(w) \in 1..minted'
    BY <2>1, <1>1, IdentityLoaded
  <2>3. identity'[w].id = ReplicaId(w) /\ identity'[w].print = w /\ \A v \in Copies \ {w} : identity'[v] = identity[v]
    BY <2>2, <1>1
  <2>4. \A v \in Copies : identity[v].id \in 0..minted /\ minted \in Nat
    BY DEF Stored, Typed
  <2>5. ReplicaId(w) # 0
    BY <2>2
  <2>6. ASSUME NEW v \in Copies, v # w, identity[v].print = v PROVE identity[v].id # ReplicaId(w)
    <3>1. CASE ReplicaId(w) = minted + 1
      BY <3>1, <2>4
    <3>2. CASE KeepsIdentity(w) /\ ReplicaId(w) = identity[w].id
      BY <3>2, <2>6 DEF Distinct, KeepsIdentity
    <3>3. QED
      BY <3>1, <3>2, <2>2
  <2>7. ASSUME NEW u \in Copies, NEW v \in Copies,
               identity'[u].print = u, identity'[v].print = v, identity'[u].id = identity'[v].id
        PROVE  u = v
    <3>1. CASE u # w /\ v # w
      BY <3>1, <2>3, <2>7 DEF Distinct
    <3>2. CASE u = w /\ v # w
      BY <3>2, <2>3, <2>6, <2>7
    <3>3. CASE v = w /\ u # w
      BY <3>3, <2>3, <2>6, <2>7
    <3>4. QED
      BY <3>1, <3>2, <3>3
  <2>8. ASSUME NEW u \in Copies, NEW v \in Copies, identity'[v].print = u
        PROVE  identity'[u].id # 0
    BY <2>3, <2>5, <2>8 DEF Distinct
  <2>9. QED
    BY <2>7, <2>8 DEF Distinct
<1>4. ASSUME NEW w \in Copies, AppendEvents(w) \/ AbandonAppend(w) \/ ResolveFork(w) PROVE Distinct'
  BY <1>2, <1>4 DEF AppendEvents, AbandonAppend, WriteBatch, WriteTransaction, ResolveFork
<1>5. ASSUME NEW w \in Copies,
             Reconcile(w) \/ DeclineFork(w) \/ Project(w) \/ Publish(w) \/ PublishUnlogged(w) PROVE Distinct'
  BY <1>2, <1>5 DEF Reconcile, DeclineFork, Project, Publish, PublishUnlogged, disk
<1>6. ASSUME NEW w \in Copies, NEW v \in Copies, GitMerge(w, v) PROVE Distinct'
  BY <1>2, <1>6 DEF GitMerge
<1>7. ASSUME NEW w \in Copies, NEW v \in Copies, CopyTree(w, v) PROVE Distinct'
  <2>1. identity' = [identity EXCEPT ![w] = identity[v]] /\ identity[w].id = 0 /\ identity[v].id # 0
    BY <1>7 DEF CopyTree
  <2>2. \A u \in Copies : identity[u].print # w
    BY <2>1 DEF Distinct
  <2>3. identity'[w] = identity[v] /\ \A u \in Copies \ {w} : identity'[u] = identity[u]
    BY <2>1, <1>1
  <2>4. \A u \in Copies : identity'[u].print = u => u # w /\ identity'[u] = identity[u]
    BY <2>2, <2>3
  <2>5. \A u, x \in Copies : identity'[x].print = u => identity'[u].id # 0
    BY <2>1, <2>2, <2>3 DEF Distinct
  <2>6. QED
    BY <2>4, <2>5 DEF Distinct
<1>8. CASE UNCHANGED vars
  BY <1>2, <1>8 DEF vars, disk
<1>9. QED
  BY <1>3, <1>4, <1>5, <1>6, <1>7, <1>8 DEF Next

\* a copy nobody touches
LEMMA OwnedKept ==
  ASSUME Stored, Grows, NEW v \in Copies, OwnedBy(v),
         identity'[v] = identity[v], index'[v] = index[v], pending'[v] = pending[v],
         open'[v] = open[v], abandoned'[v] = abandoned[v],
         \/ txn' = txn
         \/ /\ Len(txn') = Len(txn) + 1
            /\ identity[v].print = v => txn'[Len(txn) + 1].replica # identity[v].id
  PROVE  OwnedBy(v)'
<1>1. SUFFICES ASSUME identity[v].print = v, NEW t \in 1..Len(txn'), txn'[t].replica = identity[v].id
               PROVE  HeldBy(v, t)'
  BY DEF OwnedBy
<1>2. t \in 1..Len(txn) /\ txn[t].replica = identity[v].id
  <2>1. Len(txn) \in Nat
    BY DEF Grows
  <2>2. t \in 1..Len(txn)
    BY <1>1, <2>1
  <2>3. QED
    BY <2>2, <1>1 DEF Grows
<1>3. HeldBy(v, t)
  BY <1>1, <1>2 DEF OwnedBy
<1>4. QED
  BY <1>3 DEF HeldBy, Grows

\* a write: the new transaction is its copy's
LEMMA OwnedWrites ==
  ASSUME Stored, Grows, Owned, Distinct, NEW w \in Copies, pending[w] = None,
         NEW parents, NEW registered, NEW events,
         Writable(w, parents, registered, events), WriteTransaction(w, parents, registered, events),
         NEW tips \in SUBSET Nat,
         \/ Publishes(w, tips) /\ UNCHANGED abandoned
         \/ UNCHANGED pending /\ abandoned' = [abandoned EXCEPT ![w] = TRUE]
  PROVE  Owned'
<1> DEFINE x == [replica |-> identity[w].id,
                 parents |-> parents,
                 created |-> Len(txn) + Skew[w],
                 bases |-> [s \in registered |-> StreamHead(w, s)],
                 events |-> events,
                 knew |-> index[w].headers]
<1>1. /\ Len(txn') = Len(txn) + 1 /\ txn'[Len(txn) + 1] = x
      /\ files' = [files EXCEPT ![w] = @ \cup {Len(txn) + 1}]
  BY Written
<1>2. x.replica = identity[w].id
  OBVIOUS
<1> HIDE DEF x
<1>3. /\ identity' = identity /\ index' = index /\ open' = open
      /\ DOMAIN files = Copies /\ DOMAIN pending = Copies /\ DOMAIN abandoned = Copies
      /\ Len(txn) \in Nat /\ open[w] /\ identity[w].print = w
  BY DEF WriteTransaction, Stored, Typed, Identified, Writable, Listed
<1>4. SUFFICES ASSUME NEW v \in Copies PROVE OwnedBy(v)'
  BY DEF Owned
<1>5. CASE v # w
  <2>1. pending'[v] = pending[v] /\ abandoned'[v] = abandoned[v]
    BY <1>3, <1>5 DEF Publishes
  <2>2. identity[v].print = v => txn'[Len(txn) + 1].replica # identity[v].id
    BY <1>1, <1>2, <1>3, <1>5 DEF Distinct
  <2>3. OwnedBy(v)
    BY DEF Owned
  <2>4. QED
    BY <2>1, <2>2, <2>3, <1>1, <1>3, OwnedKept
<1>6. CASE v = w
  <2>1. SUFFICES ASSUME NEW t \in 1..Len(txn'), txn'[t].replica = identity[w].id PROVE HeldBy(w, t)'
    BY <1>3, <1>6 DEF OwnedBy
  <2>2. CASE t = Len(txn) + 1
    <3>1. t \in files'[w]
      BY <2>2, <1>1, <1>3
    <3>2. CASE Publishes(w, tips)
      <4>1. pending'[w] = [txn |-> Len(txn) + 1, tips |-> tips]
        BY <3>2, <1>3 DEF Publishes
      <4>2. pending'[w].txn = t
        BY <4>1, <2>2
      <4>3. pending'[w] # None
        <5>1. pending'[w] \in [txn : Nat, tips : SUBSET Nat]
          BY <4>1, <1>3
        <5>2. QED
          BY <5>1, NoneAssumption
      <4>4. QED
        BY <3>1, <4>2, <4>3 DEF HeldBy
    <3>3. CASE abandoned' = [abandoned EXCEPT ![w] = TRUE]
      BY <3>1, <3>3, <1>3 DEF HeldBy
    <3>4. QED
      BY <3>2, <3>3
  <2>3. CASE t \in 1..Len(txn)
    <3>1. txn[t].replica = identity[w].id
      BY <2>1, <2>3 DEF Grows
    <3>2. HeldBy(w, t)
      BY <2>3, <3>1, <1>3 DEF Owned, OwnedBy
    <3>3. abandoned'[w] = abandoned[w] \/ abandoned'[w]
      BY <1>3
    <3>4. QED
      BY <3>2, <3>3, <1>3 DEF HeldBy, Grows
  <2>4. QED
    BY <2>2, <2>3, <1>1, <1>3
<1>7. QED
  BY <1>5, <1>6

\* an opening finds all transactions of its identity
LEMMA OwnedOpens ==
  ASSUME Stored, Owned, NEW w \in Copies, Open(w) \/ OpenFails(w)
  PROVE  OwnedBy(w)'
<1>1. /\ LoadIdentity(w) /\ txn' = txn /\ files' = files /\ abandoned' = abandoned
      /\ DOMAIN identity = Copies /\ DOMAIN index = Copies /\ DOMAIN open = Copies
      /\ minted \in Nat /\ Typed /\ Identified
  BY DEF Open, OpenFails, accidents, Stored, Typed
<1>2. /\ ReplicaId(w) # minted + 1 => KeepsIdentity(w) /\ ReplicaId(w) = identity[w].id
      /\ identity' = [identity EXCEPT ![w] = [id |-> ReplicaId(w), print |-> w]]
  BY <1>1, IdentityLoaded
<1>3. SUFFICES ASSUME NEW t \in 1..Len(txn), txn[t].replica = ReplicaId(w) PROVE HeldBy(w, t)'
  BY <1>1, <1>2 DEF OwnedBy
<1>4. txn[t].replica \in 1..minted
  BY DEF Stored, Typed, Recorded
<1>5. KeepsIdentity(w) /\ txn[t].replica = identity[w].id
  BY <1>1, <1>2, <1>3, <1>4
<1>6. t \in files[w]
  BY <1>5 DEF Owned, OwnedBy, HeldBy, KeepsIdentity
<1>7. CASE Open(w)
  <2>1. index'[w] = Scanned(w)
    BY <1>1, <1>7 DEF Open
  <2>2. Scanned(w).headers = files[w]
    BY DEF Scanned
  <2>3. QED
    BY <2>1, <2>2, <1>1, <1>6 DEF HeldBy
<1>8. CASE OpenFails(w)
  <2>1. ~open'[w]
    BY <1>1, <1>8 DEF OpenFails
  <2>2. QED
    BY <2>1, <1>1, <1>6 DEF HeldBy
<1>9. QED
  BY <1>7, <1>8

\* every step
LEMMA OwnedStep ==
  ASSUME Stored, Owned, Distinct, [Next]_vars
  PROVE  Owned'
<1>1. Grows
  BY StepGrows
<1>2. /\ DOMAIN index = Copies /\ DOMAIN open = Copies /\ DOMAIN files = Copies /\ DOMAIN identity = Copies
      /\ DOMAIN pending = Copies /\ DOMAIN abandoned = Copies
  BY DEF Stored, Typed
<1>3. ASSUME NEW v \in Copies,
             identity'[v] = identity[v], index'[v] = index[v], pending'[v] = pending[v],
             open'[v] = open[v], abandoned'[v] = abandoned[v], txn' = txn
      PROVE  OwnedBy(v)'
  BY <1>1, <1>3, OwnedKept DEF Owned
<1>4. ASSUME NEW w \in Copies, Open(w) \/ OpenFails(w) PROVE Owned'
  <2>1. ASSUME NEW v \in Copies PROVE OwnedBy(v)'
    <3>1. CASE v = w
      BY <3>1, <1>4, OwnedOpens
    <3>2. CASE v # w
      <4>1. /\ identity'[v] = identity[v] /\ index'[v] = index[v] /\ pending'[v] = pending[v]
            /\ open'[v] = open[v] /\ abandoned'[v] = abandoned[v] /\ txn' = txn
        BY <3>2, <1>2, <1>4 DEF Open, OpenFails, Ended, LoadIdentity, accidents
      <4>2. QED
        BY <4>1, <1>3
    <3>3. QED
      BY <3>1, <3>2
  <2>2. QED
    BY <2>1 DEF Owned
<1>5. ASSUME NEW w \in Copies, AppendEvents(w) \/ AbandonAppend(w) PROVE Owned'
  <2>1. PICK registered, events :
          /\ Writable(w, index[w].tips, registered, events)
          /\ WriteTransaction(w, index[w].tips, registered, events)
    BY <1>5, AppendWrites DEF AppendEvents, AbandonAppend
  <2> DEFINE parents == index[w].tips
             tips == {Len(txn) + 1}
  <2>2. pending[w] = None
    BY <1>5 DEF AppendEvents, AbandonAppend, WriteBatch
  <2>3. \/ Publishes(w, tips) /\ UNCHANGED abandoned
        \/ UNCHANGED pending /\ abandoned' = [abandoned EXCEPT ![w] = TRUE]
    BY <1>5 DEF AppendEvents, AbandonAppend
  <2>4. Writable(w, parents, registered, events) /\ WriteTransaction(w, parents, registered, events)
    BY <2>1
  <2>5. tips \in SUBSET Nat
    BY <1>1 DEF Grows
  <2> HIDE DEF parents, tips
  <2>6. QED
    BY <2>2, <2>3, <2>4, <2>5, <1>1, OwnedWrites
<1>6. ASSUME NEW w \in Copies, ResolveFork(w) PROVE Owned'
  <2>1. PICK events :
          /\ Writable(w, Head(remaining[w]).heads, ToSet(events), events)
          /\ WriteTransaction(w, Head(remaining[w]).heads, ToSet(events), events)
    BY <1>6, ResolutionWrites
  <2> DEFINE parents == Head(remaining[w]).heads
             registered == ToSet(events)
             tips == (index[w].tips \ Head(remaining[w]).heads) \cup {Len(txn) + 1}
  <2>2. pending[w] = None /\ Publishes(w, tips) /\ UNCHANGED abandoned
    BY <1>6 DEF ResolveFork
  <2>3. Writable(w, parents, registered, events) /\ WriteTransaction(w, parents, registered, events)
    BY <2>1
  <2>4. tips \in SUBSET Nat
    <3>1. DOMAIN Part(txn, index[w].headers) = index[w].headers
      BY DEF Part
    <3>2. index[w].tips \subseteq Nat
      BY <3>1 DEF Stored, Typed, Indexed, WellIndexed
    <3>3. QED
      BY <3>2, <1>1 DEF Grows
  <2> HIDE DEF parents, registered, tips
  <2>5. QED
    BY <2>2, <2>3, <2>4, <1>1, OwnedWrites
<1>7. ASSUME NEW w \in Copies, Publish(w) \/ PublishUnlogged(w) PROVE Owned'
  <2>1. /\ pending[w] # None /\ pending' = [pending EXCEPT ![w] = None]
        /\ index' = [index EXCEPT ![w] = Published(w)]
        /\ txn' = txn /\ files' = files /\ identity' = identity /\ open' = open /\ abandoned' = abandoned
    BY <1>7 DEF Publish, PublishUnlogged, accidents
  <2>2. ASSUME NEW v \in Copies PROVE OwnedBy(v)'
    <3>1. CASE v = w
      <4>1. index'[w].headers = index[w].headers \cup {pending[w].txn}
        BY <2>1, <1>2, PublishedIs
      <4>2. OwnedBy(w)
        BY DEF Owned
      <4>3. ASSUME NEW t, HeldBy(w, t) PROVE HeldBy(w, t)'
        BY <4>1, <4>3, <2>1 DEF HeldBy
      <4>4. QED
        BY <3>1, <4>2, <4>3, <2>1 DEF OwnedBy
    <3>2. CASE v # w
      BY <3>2, <2>1, <1>2, <1>3
    <3>3. QED
      BY <3>1, <3>2
  <2>3. QED
    BY <2>2 DEF Owned
<1>8. ASSUME NEW w \in Copies, Reconcile(w) \/ DeclineFork(w) \/ Project(w) PROVE Owned'
  BY <1>3, <1>8 DEF Reconcile, DeclineFork, Project, disk, process, accidents, Owned
<1>9. ASSUME NEW w \in Copies, NEW u \in Copies, GitMerge(w, u) PROVE Owned'
  BY <1>3, <1>9 DEF GitMerge, process, accidents, Owned
<1>10. ASSUME NEW w \in Copies, NEW u \in Copies, CopyTree(w, u) PROVE Owned'
  <2>1. /\ identity' = [identity EXCEPT ![w] = identity[u]] /\ identity[w].id = 0
        /\ txn' = txn /\ index' = index /\ open' = open /\ pending' = pending /\ abandoned' = abandoned
    BY <1>10 DEF CopyTree, process
  <2>2. ASSUME NEW v \in Copies PROVE OwnedBy(v)'
    <3>1. CASE v = w
      <4>1. identity[u].print # w
        BY <2>1 DEF Distinct
      <4>2. identity'[w].print # w
        BY <4>1, <2>1, <1>2
      <4>3. QED
        BY <3>1, <4>2 DEF OwnedBy
    <3>2. CASE v # w
      BY <3>2, <2>1, <1>2, <1>3
    <3>3. QED
      BY <3>1, <3>2
  <2>3. QED
    BY <2>2 DEF Owned
<1>11. CASE UNCHANGED vars
  BY <1>3, <1>11 DEF vars, disk, process, accidents, Owned
<1>12. QED
  BY <1>4, <1>5, <1>6, <1>7, <1>8, <1>9, <1>10, <1>11 DEF Next

\* a write knew all earlier ones of its identity
LEMMA ChainedWrites ==
  ASSUME Stored, Owned, Chained, Grows, NEW w \in Copies, pending[w] = None,
         NEW parents, NEW registered, NEW events,
         Writable(w, parents, registered, events), WriteTransaction(w, parents, registered, events),
         \/ UNCHANGED abandoned
         \/ abandoned' = [abandoned EXCEPT ![w] = TRUE]
  PROVE  Chained'
<1> DEFINE x == [replica |-> identity[w].id,
                 parents |-> parents,
                 created |-> Len(txn) + Skew[w],
                 bases |-> [s \in registered |-> StreamHead(w, s)],
                 events |-> events,
                 knew |-> index[w].headers]
<1>1. Len(txn') = Len(txn) + 1 /\ txn'[Len(txn) + 1] = x
  BY Written
<1>2. x.replica = identity[w].id /\ x.knew = index[w].headers
  OBVIOUS
<1> HIDE DEF x
<1>3. /\ open[w] /\ identity[w].print = w /\ Len(txn) \in Nat /\ DOMAIN abandoned = Copies
      /\ \A t \in 1..Len(txn) : txn'[t] = txn[t]
  BY DEF Writable, Stored, Typed, Identified, Grows
<1>4. SUFFICES ASSUME \A v \in Copies : ~abandoned'[v], NEW u \in 1..Len(txn'), NEW t \in 1..(u - 1),
                      txn'[t].replica = txn'[u].replica
               PROVE  t \in txn'[u].knew
  BY DEF Chained
<1>5. UNCHANGED abandoned
  BY <1>3, <1>4
<1>6. t \in 1..Len(txn) /\ txn'[t] = txn[t]
  BY <1>1, <1>3
<1>7. CASE u = Len(txn) + 1
  <2>1. txn[t].replica = identity[w].id
    BY <1>1, <1>2, <1>4, <1>6, <1>7
  <2>2. HeldBy(w, t)
    BY <2>1, <1>3, <1>6 DEF Owned, OwnedBy
  <2>3. t \in index[w].headers
    BY <2>2, <1>3, <1>4, <1>5 DEF HeldBy
  <2>4. QED
    BY <2>3, <1>1, <1>2, <1>7
<1>8. CASE u \in 1..Len(txn)
  BY <1>3, <1>4, <1>5, <1>6, <1>8 DEF Chained
<1>9. QED
  BY <1>1, <1>3, <1>7, <1>8

\* every step
LEMMA ChainedStep ==
  ASSUME Stored, Owned, Chained, [Next]_vars
  PROVE  Chained'
<1>1. Grows
  BY StepGrows
<1>2. CASE UNCHANGED << txn, abandoned >>
  BY <1>2 DEF Chained
<1>3. ASSUME NEW w \in Copies, AppendEvents(w) \/ AbandonAppend(w) PROVE Chained'
  <2>1. PICK registered, events :
          /\ Writable(w, index[w].tips, registered, events)
          /\ WriteTransaction(w, index[w].tips, registered, events)
    BY <1>3, AppendWrites DEF AppendEvents, AbandonAppend
  <2> DEFINE parents == index[w].tips
  <2>2. pending[w] = None
    BY <1>3 DEF AppendEvents, AbandonAppend, WriteBatch
  <2>3. UNCHANGED abandoned \/ abandoned' = [abandoned EXCEPT ![w] = TRUE]
    BY <1>3 DEF AppendEvents, AbandonAppend
  <2>4. Writable(w, parents, registered, events) /\ WriteTransaction(w, parents, registered, events)
    BY <2>1
  <2> HIDE DEF parents
  <2>5. QED
    BY <2>2, <2>3, <2>4, <1>1, ChainedWrites
<1>4. ASSUME NEW w \in Copies, ResolveFork(w) PROVE Chained'
  <2>1. PICK events :
          /\ Writable(w, Head(remaining[w]).heads, ToSet(events), events)
          /\ WriteTransaction(w, Head(remaining[w]).heads, ToSet(events), events)
    BY <1>4, ResolutionWrites
  <2> DEFINE parents == Head(remaining[w]).heads
             registered == ToSet(events)
  <2>2. pending[w] = None /\ UNCHANGED abandoned
    BY <1>4 DEF ResolveFork
  <2>3. Writable(w, parents, registered, events) /\ WriteTransaction(w, parents, registered, events)
    BY <2>1
  <2> HIDE DEF parents, registered
  <2>4. QED
    BY <2>2, <2>3, <1>1, ChainedWrites
<1>5. ASSUME NEW w \in Copies, Open(w) \/ OpenFails(w) \/ Publish(w) \/ PublishUnlogged(w) PROVE Chained'
  BY <1>2, <1>5 DEF Open, OpenFails, Publish, PublishUnlogged, accidents
<1>6. ASSUME NEW w \in Copies, Reconcile(w) \/ DeclineFork(w) \/ Project(w) PROVE Chained'
  BY <1>2, <1>6 DEF Reconcile, DeclineFork, Project, disk, accidents
<1>7. ASSUME NEW w \in Copies, NEW u \in Copies, GitMerge(w, u) \/ CopyTree(w, u) PROVE Chained'
  BY <1>2, <1>7 DEF GitMerge, CopyTree, accidents
<1>8. CASE UNCHANGED vars
  BY <1>2, <1>8 DEF vars, disk, accidents
<1>9. QED
  BY <1>3, <1>4, <1>5, <1>6, <1>7, <1>8 DEF Next

-------------------------------------------------------------------------------
(***************************************************************************)
(* What a writer knew is among the ancestors of what he wrote, unless he   *)
(* left tips aside.                                                        *)
(***************************************************************************)
LEMMA KnownIsAncestral ==
  ASSUME Stored, NEW S, S \subseteq 1..Len(txn), Complete(S), NEW u \in S, ~Leaves(txn, u)
  PROVE  txn[u].knew \subseteq Ancestors(Part(txn, S))[u]
<1> DEFINE h == Part(txn, S)
           A == Ancestors(h)[u]
           C == A \cap S
           k == Part(txn, txn[u].knew)
<1>1. Grounded(h, Len(txn)) /\ DOMAIN h = S /\ \A t \in S : h[t] = txn[t]
  BY RecordedIsGrounded DEF Stored, Part
<1>2. \A t \in S : txn[t].parents \subseteq S
  BY <1>1, HistoryIsPart DEF Complete, Dangling
<1>3. txn[u].parents \subseteq A /\ \A p \in A \cap S : txn[p].parents \subseteq A
  <2> HIDE DEF h
  <2>1. h[u].parents \subseteq Ancestors(h)[u]
        /\ \A p \in Ancestors(h)[u] \cap DOMAIN h : h[p].parents \subseteq Ancestors(h)[u]
    BY <1>1, AncestorsAreClosed
  <2>2. QED
    BY <2>1, <1>1
<1>4. u \in 1..Len(txn) /\ txn[u].knew \subseteq 1..Len(txn)
  <2>1. u \in 1..Len(txn) /\ Len(txn) \in Nat /\ txn[u].knew \subseteq 1..(u - 1)
    BY DEF Stored, Typed, Listed, Recorded
  <2>2. QED
    BY <2>1
<1>5. Grounded(k, Len(txn)) /\ DOMAIN k = txn[u].knew /\ \A t \in txn[u].knew : k[t] = txn[t]
  BY <1>4, RecordedIsGrounded DEF Stored, Part
<1>6. TipsOf(k) \subseteq txn[u].parents
  BY DEF Leaves
<1>7. TipsOf(k) \subseteq C
  BY <1>2, <1>3, <1>6
<1>8. \A t \in C \cap DOMAIN k : k[t].parents \subseteq C
  BY <1>2, <1>3, <1>5
<1>9. DOMAIN k \subseteq C
  <2> HIDE DEF k, C
  <2>1. QED
    BY <1>5, <1>7, <1>8, TipsReachAll
<1>10. QED
  BY <1>5, <1>9

\* a transaction that leaves tips aside is a narrow merge
LEMMA LeavingIsNarrow ==
  ASSUME Joined, NEW t \in 1..Len(txn)
  PROVE  Leaves(txn, t) => IsNarrowMerge(t)
<1>1. Leaves(txn, t) => LeavesTips(t)
  BY HistoryIsPart DEF Leaves, LeavesTips
<1>2. OneBase(txn, txn[t].parents) => ShareBase(txn[t].parents)
  BY DEF OneBase, ShareBase
<1>3. QED
  BY <1>1, <1>2 DEF Joined, IsNarrowMerge

\* so of two concurrent transactions of one identity the later is one
LEMMA ConflictsAreNarrow ==
  ASSUME Stored, Joined, Chained
  PROVE  ConflictsAreByMerges
<1>1. SUFFICES ASSUME NEW w \in Copies, Complete(index[w].headers), \A v \in Copies : ~abandoned[v],
                      NEW t \in DOMAIN History(index[w].headers), NEW u \in DOMAIN History(index[w].headers),
                      t < u, History(index[w].headers)[t].replica = History(index[w].headers)[u].replica,
                      Concurrent(t, u, Ancestors(History(index[w].headers)))
               PROVE  IsNarrowMerge(u)
  BY DEF ConflictsAreByMerges
<1> DEFINE S == index[w].headers
<1>2. S \subseteq 1..Len(txn) /\ Len(txn) \in Nat
  BY DEF Stored, Typed, Listed, Indexed
<1>3. History(S) = Part(txn, S) /\ DOMAIN Part(txn, S) = S /\ \A x \in S : Part(txn, S)[x] = txn[x]
  BY HistoryIsPart DEF Part
<1>4. t \in S /\ u \in S /\ txn[t].replica = txn[u].replica /\ Complete(S)
      /\ t \notin Ancestors(Part(txn, S))[u]
  BY <1>1, <1>3 DEF Concurrent
<1> HIDE DEF S
<1>5. t \in 1..(u - 1) /\ u \in 1..Len(txn)
  BY <1>1, <1>2, <1>4
<1>6. t \in txn[u].knew
  BY <1>1, <1>4, <1>5 DEF Chained
<1>7. Leaves(txn, u)
  BY <1>2, <1>4, <1>6, KnownIsAncestral
<1>8. QED
  BY <1>5, <1>7, LeavingIsNarrow

(***************************************************************************)
(* A writer who had a transaction that wrote a stream found the stream     *)
(* longer than its writer did, who built on all he knew.                   *)
(***************************************************************************)
LEMMA LaterBaseIsLarger ==
  ASSUME Stored, Informed, NEW t \in 1..Len(txn), NEW u \in 1..Len(txn), t \in txn[u].knew, Complete(txn[u].knew),
         ~Leaves(txn, t), NEW s, s \in ToSet(txn[t].events), s \in DOMAIN txn[t].bases, s \in DOMAIN txn[u].bases
  PROVE  txn[t].bases[s] # txn[u].bases[s]
<1> DEFINE K == txn[t].knew
           L == txn[u].knew
           k == Part(txn, K)
           l == Part(txn, L)
           S == OfStream(k, s)
           T == OfStream(l, s)
<1>1. K \subseteq 1..Len(txn) /\ L \subseteq 1..Len(txn) /\ t \notin K
      /\ txn[t].events \in Seq(Streams) /\ t \in Nat
  <2>1. Len(txn) \in Nat /\ K \subseteq 1..(t - 1) /\ L \subseteq 1..(u - 1) /\ txn[t].events \in Seq(Streams)
    BY DEF Stored, Typed, Listed, Recorded
  <2>2. QED
    BY <2>1
<1>2. /\ Grounded(k, Len(txn)) /\ DOMAIN k = K /\ \A x \in K : k[x] = txn[x]
      /\ Grounded(l, Len(txn)) /\ DOMAIN l = L /\ \A x \in L : l[x] = txn[x]
  BY <1>1, RecordedIsGrounded DEF Stored, Part
<1>3. \A x \in L : txn[x].parents \subseteq L
  BY <1>2, HistoryIsPart DEF Complete, Dangling
<1>4. TipsOf(k) \subseteq txn[t].parents
  BY DEF Leaves
<1>5. K \subseteq L
  <2>1. TipsOf(k) \subseteq L
    BY <1>3, <1>4
  <2>2. \A x \in L \cap DOMAIN k : k[x].parents \subseteq L
    BY <1>2, <1>3
  <2>3. DOMAIN k \subseteq L
    <3> HIDE DEF k, L
    <3>1. QED
      BY <1>2, <2>1, <2>2, TipsReachAll
  <2>4. QED
    BY <2>3, <1>2
<1>6. txn[t].bases[s] = Cardinality(S) /\ txn[u].bases[s] = Cardinality(T)
  BY DEF Informed, Knowing
<1>7. EventsOf(k) \subseteq EventsOf(l) /\ \A e \in EventsOf(k) : e[1] \in K /\ StreamOf(k, e) = StreamOf(l, e)
  <2>1. EventsOf(k) \subseteq EventsOf(l)
    BY <1>5, EventsMonotone
  <2>2. \A e \in EventsOf(k) : e[1] \in DOMAIN k
    BY <1>2, EventsAre
  <2>3. QED
    BY <2>1, <2>2, <1>2, <1>5 DEF StreamOf
<1>8. S \subseteq T
  BY <1>7 DEF OfStream
<1>9. PICK i \in DOMAIN txn[t].events : txn[t].events[i] = s
  BY DEF ToSet
<1>10. << t, i >> \in T /\ << t, i >> \notin S
  <2>1. << t, i >> \in {t} \X DOMAIN l[t].events /\ l[t] = txn[t]
    BY <1>2, <1>9
  <2>2. << t, i >> \in EventsOf(l)
    BY <2>1, <1>2 DEF EventsOf
  <2>3. StreamOf(l, << t, i >>) = s
    BY <2>1, <1>9 DEF StreamOf
  <2>4. << t, i >> \notin EventsOf(k)
    BY <1>1, <1>7
  <2>5. QED
    BY <2>2, <2>3, <2>4 DEF OfStream
<1>11. IsFiniteSet(T)
  <2> HIDE DEF l
  <2>1. QED
    BY <1>2, OfStreamFinite
<1>12. Cardinality(S) < Cardinality(T)
  <2> HIDE DEF S, T
  <2>1. S # T /\ S \in SUBSET T
    BY <1>8, <1>10
  <2>2. IsFiniteSet(S) /\ Cardinality(S) <= Cardinality(T) /\ (Cardinality(S) = Cardinality(T) => S = T)
    BY <1>11, <2>1, FS_Subset
  <2>3. Cardinality(S) \in Nat /\ Cardinality(T) \in Nat
    BY <1>11, <2>2, FS_CardinalityType
  <2>4. QED
    BY <2>1, <2>2, <2>3
<1>13. Cardinality(S) \in Nat /\ Cardinality(T) \in Nat
  <2>1. IsFiniteSet(S)
    <3> HIDE DEF k
    <3>1. QED
      BY <1>2, OfStreamFinite
  <2> HIDE DEF S, T
  <2>2. QED
    BY <2>1, <1>11, FS_CardinalityType
<1> HIDE DEF S, T
<1>14. QED
  BY <1>6, <1>12, <1>13

\* so a head another had recorded the base of is a narrow merge
LEMMA InformedImpliesReal ==
  ASSUME Stored, Informed, Joined
  PROVE  ForksAreReal
<1>1. SUFFICES ASSUME NEW w \in Copies, NEW fork \in Forks(History(index[w].headers)),
                      NEW t \in fork.heads, NEW u \in fork.heads, fork.stream \in ToSet(txn[t].events),
                      Complete(txn[u].knew), t \in txn[u].knew
               PROVE  IsNarrowMerge(t)
  BY DEF ForksAreReal
<1> DEFINE h == Part(txn, index[w].headers)
           s == fork.stream
<1>2. History(index[w].headers) = h
  BY HistoryIsPart
<1>3. DOMAIN h = index[w].headers /\ \A x \in index[w].headers : h[x] = txn[x]
  BY DEF Part
<1>4. fork \in Forks(h)
  BY <1>1, <1>2
<1>5. \A x \in fork.heads : x \in DOMAIN h /\ s \in DOMAIN h[x].bases /\ h[x].bases[s] = fork.base
  <2> HIDE DEF h
  <2>1. QED
    BY <1>4, HeadsShareBase
<1>6. /\ t \in index[w].headers /\ s \in DOMAIN txn[t].bases /\ txn[t].bases[s] = fork.base
      /\ u \in index[w].headers /\ s \in DOMAIN txn[u].bases /\ txn[u].bases[s] = fork.base
  BY <1>1, <1>3, <1>5
<1>7. t \in 1..Len(txn) /\ u \in 1..Len(txn)
  BY <1>6 DEF Stored, Typed, Indexed
<1> HIDE DEF s
<1>8. ~Leaves(txn, t) => txn[t].bases[s] # txn[u].bases[s]
  BY <1>1, <1>6, <1>7, LaterBaseIsLarger DEF s
<1>9. QED
  BY <1>6, <1>7, <1>8, LeavingIsNarrow

\* what the canonical invariant says of an open store
LEMMA CanonicalImpliesIndex ==
  ASSUME Stored, Canonical, Joined
  PROVE  IndexIsCanonical
<1>1. SUFFICES ASSUME NEW w \in Copies
               PROVE  LET headers == index[w].headers
                          h == History(headers)
                          NarrowlyMerged(s) == \E t \in headers : /\ txn[t].replica = identity[w].id
                                                                  /\ IsNarrowMerge(t)
                                                                  /\ s \in ToSet(txn[t].events)
                      IN /\ headers \subseteq files[w]
                         /\ index[w].tips = TipsOf(h)
                         /\ \A s \in Streams :
                              /\ ToSet(index[w].streams[s]) = OfStream(h, s)
                              /\ Len(index[w].streams[s]) = Cardinality(OfStream(h, s))
                              /\ index[w].streams[s] = ByStream(h)[s] \/ NarrowlyMerged(s)
  BY Zenon DEF IndexIsCanonical
<1>2. index[w].headers \subseteq files[w] /\ index[w].headers \subseteq 1..Len(txn)
  BY DEF Stored, Typed, Indexed
<1>3. CanonicalIndex(index[w], identity[w].id, txn)
  BY DEF Canonical, CanonicalAt
<1>4. \A s : MergedInto(txn, index[w].headers, identity[w].id, s) =>
        \E t \in index[w].headers : txn[t].replica = identity[w].id /\ IsNarrowMerge(t) /\ s \in ToSet(txn[t].events)
  BY <1>2, LeavingIsNarrow DEF MergedInto
<1>5. QED
  BY <1>2, <1>3, <1>4, HistoryIsPart DEF CanonicalIndex, StreamHeld

Understood ==
  /\ Stored /\ Logged /\ Followed
  /\ Canonical /\ Informed /\ Offered /\ Joined
  /\ Distinct /\ Owned /\ Chained

\* all parts hold initially
LEMMA InitUnderstood == Init => Understood
<1> SUFFICES ASSUME Init PROVE Understood
  OBVIOUS
<1>1. Stored /\ Logged /\ Followed
  BY InitTyped, InitLogged, InitFollowed
<1>2. Canonical
  <2>1. \A w \in Copies : index[w] = NoIndex /\ pending[w] = None
    BY DEF Init
  <2>2. QED
    BY <2>1, NothingCanonical DEF Canonical, CanonicalAt, OnTop
<1>3. Len(txn) = 0 /\ \A w \in Copies : Len(remaining[w]) = 0
  BY DEF Init
<1>4. Informed /\ Offered /\ Joined /\ Chained
  BY <1>3 DEF Informed, Offered, OfferedAt, Joined, Chained
<1>5. Distinct
  BY NoneAssumption DEF Init, Distinct
<1>6. Owned
  BY <1>3 DEF Owned, OwnedBy
<1>7. QED
  BY <1>1, <1>2, <1>4, <1>5, <1>6 DEF Understood

\* and every step keeps them
LEMMA UnderstoodStep ==
  ASSUME Understood, [Next]_vars
  PROVE  Understood'
<1>1. /\ Stored /\ Logged /\ Followed
      /\ Canonical /\ Informed /\ Offered /\ Joined
      /\ Distinct /\ Owned /\ Chained
  BY DEF Understood
<1>2. Stored' /\ Logged' /\ Followed'
  BY <1>1, StoredStep
<1>3. Canonical' /\ Informed'
  BY <1>1, CanonicalStep, InformedStep
<1>4. Offered' /\ Joined'
  BY <1>1, OfferedStep, JoinedStep
<1>5. Distinct' /\ Owned' /\ Chained'
  BY <1>1, DistinctStep, OwnedStep, ChainedStep
<1>6. QED
  BY <1>2, <1>3, <1>4, <1>5 DEF Understood

\* so they hold always
LEMMA UnderstoodAlways == Spec => []Understood
<1>1. Init => Understood
  BY InitUnderstood
<1>2. Understood /\ [Next]_vars => Understood'
  BY UnderstoodStep
<1>3. QED
  BY <1>1, <1>2, PTL DEF Spec

(***************************************************************************)
(* The index an open store has built up write by write is the one a fresh  *)
(* scan of the same files computes, but for the order of streams in which  *)
(* its own identity has an event of a merge that left tips aside.  An      *)
(* append, and a merge of all the tips, is deeper than all others, so that *)
(* putting its events at the ends of the streams (append_events and        *)
(* write_merge_transaction, lib.rs) is what linearize (index.rs) would do. *)
(***************************************************************************)
THEOREM IndexCanonical == Spec => []IndexIsCanonical
<1>1. Understood => IndexIsCanonical
  BY CanonicalImpliesIndex DEF Understood
<1>2. QED
  BY <1>1, UnderstoodAlways, PTL

(***************************************************************************)
(* A head that wrote the forked stream was unknown to the writers of the   *)
(* other heads: who had it, and all its parents, counted its events in the *)
(* base he recorded (detect_forks_in, merge.rs).  The exception is a head  *)
(* that is a merge which left tips aside: it counted events that are not   *)
(* among its ancestors.                                                    *)
(***************************************************************************)
THEOREM RealForks == Spec => []ForksAreReal
<1>1. Understood => ForksAreReal
  BY InformedImpliesReal DEF Understood
<1>2. QED
  BY <1>1, UnderstoodAlways, PTL

(***************************************************************************)
(* Merges that left tips aside are all that makes a complete history show  *)
(* two concurrent transactions of one replica id                           *)
(* (check_replica_collisions), unless an append was dropped while its      *)
(* file was written: identities are loaded afresh in a copied directory    *)
(* (replica.rs), and a copy holds, and otherwise builds on, all it wrote.  *)
(***************************************************************************)
THEOREM IdentitiesAgree == Spec => []ConflictsAreByMerges
<1>1. Understood => ConflictsAreByMerges
  BY ConflictsAreNarrow DEF Understood
<1>2. QED
  BY <1>1, UnderstoodAlways, PTL
====================================================================================
