-------------------------- MODULE SnapshotReplayProofs --------------------------
(***************************************************************************)
(* Proofs about SnapshotReplay.  The checkpoints a call has collected, or  *)
(* those of a stored snapshot, are themselves the record of a full replay: *)
(* the i-th names the stream that was visited i-th, the state after it and *)
(* the versions read up to it.  The inductive invariant says so of every   *)
(* list of checkpoints in the system (Chain), and that the command at hand *)
(* would have visited those streams in that order (Follows).  The queues   *)
(* of a replay and the replay itself are recursive functions; what is true *)
(* of them is proved by the least-number principle.                        *)
(***************************************************************************)
EXTENDS SnapshotReplay, OrderLemmas, SequenceTheorems, TLAPS

CheckpointSet == [stream : Streams, state : Seq(Event),
                  versions : UNION { [D -> 0..MaxVersion] : D \in SUBSET Streams }]

StateAfter(cps) == IF cps = << >> THEN << >> ELSE cps[Len(cps)].state

VersionsAfter(cps) == IF cps = << >> THEN NoVersions ELSE cps[Len(cps)].versions

StartsWith(st, earlier) ==
  /\ Len(earlier) <= Len(st)
  /\ \A k \in 1..Len(earlier) : earlier[k] = st[k]

(***************************************************************************)
(* Each checkpoint adds one stream, read from its beginning, to the one    *)
(* before it.                                                              *)
(***************************************************************************)
Chain(cps) ==
  /\ cps \in Seq(CheckpointSet)
  /\ \A i, j \in DOMAIN cps : cps[i].stream = cps[j].stream => i = j
  /\ \A i \in DOMAIN cps :
       /\ DOMAIN cps[i].versions = Visited(cps, i)
       /\ cps[i].state = (IF i = 1 THEN << >> ELSE cps[i - 1].state)
                         \o Events(cps[i].stream, 1, cps[i].versions[cps[i].stream])
  /\ \A i, j \in DOMAIN cps : i <= j =>
       /\ \A s \in DOMAIN cps[i].versions : cps[j].versions[s] = cps[i].versions[s]
       /\ StartsWith(cps[j].state, cps[i].state)

(***************************************************************************)
(* The command visits the streams in this order.                           *)
(***************************************************************************)
Follows(c, cps) ==
  \A i \in DOMAIN cps :
    /\ Queues(c, cps)[i - 1] # << >>
    /\ Head(Queues(c, cps)[i - 1]) = cps[i].stream

Partial(c, cps, st, versions) ==
  /\ Chain(cps)
  /\ Follows(c, cps)
  /\ st = StateAfter(cps)
  /\ versions = VersionsAfter(cps)

Remaining(c, cps) == Queues(c, cps)[Len(cps)]

Complete(c, cps, st, versions) ==
  /\ Partial(c, cps, st, versions)
  /\ Remaining(c, cps) = << >>

Blank(c) ==
  /\ state[c] = << >>
  /\ expected[c] = NoVersions
  /\ checkpoints[c] = << >>

CallTyped(c) ==
  /\ IsSnapshot(snapshot[c], log)
  /\ index[c] \in 1..(Len(snapshot[c].checkpoints) + 1)
  /\ queue[c] \in Seq(Streams)
  /\ state[c] \in Seq(Event)
  /\ AtMost(expected[c], log)
  /\ \A i \in DOMAIN checkpoints[c] : IsCheckpoint(checkpoints[c][i], log)

(***************************************************************************)
(* What a call holds in each phase.                                        *)
(***************************************************************************)
CallOK(c) ==
  /\ phase[c] \in {"Loading", "Checking", "Done"} => Blank(c)
  /\ phase[c] = "Loading" => snapshot[c] = NoSnapshot
  /\ phase[c] = "Checking" =>
       Complete(c, snapshot[c].checkpoints, snapshot[c].state, snapshot[c].versions)
  /\ phase[c] = "Replaying" =>
       /\ Partial(c, checkpoints[c], state[c], expected[c])
       /\ queue[c] = Remaining(c, checkpoints[c])
  /\ phase[c] = "Saving" => Complete(c, checkpoints[c], state[c], expected[c])
  /\ phase[c] = "Handling" =>
       \E cps \in {checkpoints[c], snapshot[c].checkpoints} :
         Complete(c, cps, state[c], expected[c])
  /\ phase[c] # "Done" => decided[c] = {}

StoredOK ==
  /\ IsSnapshot(stored, log)
  /\ stored # NoSnapshot =>
       \E c \in Commands : Complete(c, stored.checkpoints, stored.state, stored.versions)

Typed ==
  /\ log \in [Streams -> 0..MaxVersion]
  /\ phase \in [Commands -> Phases]
  /\ attempt \in [Commands -> 0..MaxRetries]
  /\ outcome \in [Commands -> Outcomes]
  /\ replaces \in [Commands -> BOOLEAN]
  /\ DOMAIN snapshot = Commands /\ DOMAIN index = Commands /\ DOMAIN queue = Commands
  /\ DOMAIN state = Commands /\ DOMAIN expected = Commands
  /\ DOMAIN checkpoints = Commands /\ DOMAIN decided = Commands

IInv == /\ Typed
        /\ StoredOK
        /\ \A c \in Commands : CallTyped(c) /\ CallOK(c)
-------------------------------------------------------------------------------
(***************************************************************************)
(* A queue without repetitions that holds nothing visited.                 *)
(***************************************************************************)
Fresh(q, visited) ==
  /\ q \in Seq(Streams)
  /\ \A i, j \in DOMAIN q : q[i] = q[j] => i = j
  /\ \A i \in DOMAIN q : q[i] \notin visited

LEMMA ScheduleFresh ==
  ASSUME NEW q, NEW visited, Fresh(q, visited), NEW s \in Streams
  PROVE  Fresh(Schedule(q, visited, s), visited)
<1>1. CASE s \in visited \cup ToSet(q)
  BY <1>1 DEF Schedule
<1>2. CASE s \notin visited \cup ToSet(q)
  <2> DEFINE r == Append(q, s)
  <2>1. /\ r \in Seq(Streams) /\ Len(r) = Len(q) + 1
        /\ r[Len(q) + 1] = s
        /\ \A i \in 1..Len(q) : r[i] = q[i] /\ q[i] # s
    BY <1>2 DEF Fresh, ToSet
  <2>2. Fresh(r, visited)
    <3> HIDE DEF r
    <3>1. DOMAIN r = 1..(Len(q) + 1) /\ DOMAIN q = 1..Len(q) /\ Len(q) \in Nat
      BY <2>1 DEF Fresh
    <3>2. QED
      BY <1>2, <2>1, <3>1 DEF Fresh
  <2>3. QED
    BY <1>2, <2>2 DEF Schedule
<1>3. QED
  BY <1>1, <1>2

(***************************************************************************)
(* Discovery stays in every set of queues that scheduling stays in.        *)
(***************************************************************************)
LEMMA DiscoverStaysIn ==
  ASSUME NEW S, NEW q \in S, NEW visited, NEW st \in Seq(Event),
         \A x \in S, s \in Streams : Schedule(x, visited, s) \in S
  PROVE  Discover(q, visited, st) \in S
<1> DEFINE related == Resolver[ToSet(st)]
           n == Len(related)
           step == [i \in 1..n |-> [x \in S |-> Schedule(x, visited, related[i])]]
           F(g) == [i \in 0..Len(related) |->
                      IF i = 0 THEN q ELSE Schedule(g[i - 1], visited, related[i])]
           after == CHOOSE g : g = F(g)
<1>1. related \in Seq(Streams)
  <2>1. ToSet(st) \in SUBSET Event
    BY DEF ToSet
  <2>2. QED
    BY <2>1, ResolverAssumption
<1>2. n \in Nat /\ q \in S
  BY <1>1
<1>3. step \in [1..n -> [S -> S]]
  <2>1. ASSUME NEW i \in 1..n, NEW x \in S
        PROVE  Schedule(x, visited, related[i]) \in S
    <3>1. related[i] \in Streams
      BY <1>1
    <3>2. QED
      BY <3>1
  <2>2. QED
    BY <2>1
<1>4. PICK g \in [0..n -> S] : Iterates(g, n, q, step)
  <2> HIDE DEF step, n
  <2>1. QED
    BY <1>2, <1>3, Recursion
<1>5. g = F(g)
  <2>1. \A i \in 0..n : g[i] = IF i = 0 THEN q ELSE Schedule(g[i - 1], visited, related[i])
    <3>1. ASSUME NEW i \in 1..n
          PROVE  g[i] = Schedule(g[i - 1], visited, related[i])
      <4>1. g[i] = step[i][g[i - 1]] /\ g[i - 1] \in S
        <5> HIDE DEF step, n
        <5>1. i - 1 \in 0..n
          BY <1>2
        <5>2. QED
          BY <5>1, <1>4 DEF Iterates
      <4>2. QED
        BY <4>1
    <3>2. g[0] = q
      BY <1>4 DEF Iterates
    <3>3. QED
      BY <3>1, <3>2, <1>2
  <2>2. QED
    BY <2>1
<1>6. after = F(after)
  BY <1>5
<1>7. after[n] \in S
  <2> DEFINE Good == { i \in 0..n : after[i] \in S }
  <2>1. \A i \in 0..n : after[i] = IF i = 0 THEN q ELSE Schedule(after[i - 1], visited, related[i])
    <3> HIDE DEF after
    <3>1. QED
      BY <1>6
  <2> HIDE DEF after, n
  <2>2. 0 \in Good
    BY <1>2, <2>1
  <2>3. ASSUME NEW m \in 1..n, m - 1 \in Good
        PROVE  m \in Good
    <3>1. /\ after[m] = Schedule(after[m - 1], visited, related[m])
          /\ related[m] \in Streams
      BY <1>1, <2>1 DEF n
    <3>2. after[m - 1] \in S
      BY <2>3
    <3>3. QED
      BY <3>1, <3>2
  <2>4. n \in Good
    <3> HIDE DEF Good
    <3>1. \A m \in 0..n : m \in Good
      BY <1>2, <2>2, <2>3, Interval
    <3>2. QED
      BY <1>2, <3>1
  <2>5. QED
    BY <2>4
<1>8. Discover(q, visited, st) = after[n]
  BY Zenon DEF Discover
<1>9. QED
  BY <1>7, <1>8

LEMMA DiscoverFresh ==
  ASSUME NEW q, NEW visited, Fresh(q, visited), NEW st \in Seq(Event)
  PROVE  Fresh(Discover(q, visited, st), visited)
<1> DEFINE S == { x \in Seq(Streams) : Fresh(x, visited) }
<1>1. q \in S
  BY DEF Fresh
<1>2. \A x \in S, s \in Streams : Schedule(x, visited, s) \in S
  <2>1. ASSUME NEW x \in S, NEW s \in Streams
        PROVE  Fresh(Schedule(x, visited, s), visited)
    BY ScheduleFresh
  <2>2. QED
    BY <2>1 DEF Fresh
<1>3. Discover(q, visited, st) \in S
  <2> HIDE DEF S
  <2>1. QED
    BY <1>1, <1>2, DiscoverStaysIn
<1>4. QED
  BY <1>3

LEMMA DiscoverType ==
  ASSUME NEW q \in Seq(Streams), NEW visited, NEW st \in Seq(Event)
  PROVE  Discover(q, visited, st) \in Seq(Streams)
<1>1. \A x \in Seq(Streams), s \in Streams : Schedule(x, visited, s) \in Seq(Streams)
  BY DEF Schedule
<1>2. QED
  BY <1>1, DiscoverStaysIn

LEMMA AdvanceType ==
  ASSUME NEW q \in Seq(Streams), NEW visited, NEW st \in Seq(Event)
  PROVE  Advance(q, visited, st) \in Seq(Streams)
<1>1. q # << >> => Tail(q) \in Seq(Streams)
  OBVIOUS
<1>2. QED
  BY <1>1, DiscoverType DEF Advance

LEMMA CheckpointType ==
  ASSUME NEW cps \in Seq(CheckpointSet), NEW i \in 1..Len(cps)
  PROVE  /\ cps[i] \in CheckpointSet
         /\ cps[i].stream \in Streams
         /\ cps[i].state \in Seq(Event)
         /\ DOMAIN cps[i].versions \subseteq Streams
         /\ \A s \in DOMAIN cps[i].versions : cps[i].versions[s] \in 0..MaxVersion
<1>1. cps[i] \in CheckpointSet
  OBVIOUS
<1> DEFINE cp == cps[i]
<1>2. cp \in CheckpointSet
  BY <1>1
<1> HIDE DEF cp
<1>3. /\ cp.stream \in Streams /\ cp.state \in Seq(Event)
      /\ cp.versions \in UNION { [D -> 0..MaxVersion] : D \in SUBSET Streams }
  BY <1>2 DEF CheckpointSet
<1>4. PICK D \in SUBSET Streams : cp.versions \in [D -> 0..MaxVersion]
  BY <1>3
<1>5. QED
  BY <1>2, <1>3, <1>4 DEF cp

(***************************************************************************)
(* The queues of a list of checkpoints, as recursive equations.            *)
(***************************************************************************)
LEMMA QueuesDef ==
  ASSUME NEW c \in Commands, NEW cps \in Seq(CheckpointSet)
  PROVE  /\ Queues(c, cps) \in [0..Len(cps) -> Seq(Streams)]
         /\ Queues(c, cps)[0] = Declared[c]
         /\ \A i \in 1..Len(cps) :
              Queues(c, cps)[i] = Advance(Queues(c, cps)[i - 1], Visited(cps, i), cps[i].state)
<1> DEFINE n == Len(cps)
           S == Seq(Streams)
           step == [i \in 1..n |-> [x \in S |-> Advance(x, Visited(cps, i), cps[i].state)]]
           F(g) == [i \in 0..Len(cps) |->
                      IF i = 0 THEN Declared[c]
                      ELSE Advance(g[i - 1], Visited(cps, i), cps[i].state)]
           queues == CHOOSE g : g = F(g)
<1>1. n \in Nat /\ Declared[c] \in S
  BY DeclaredAssumption
<1>2. step \in [1..n -> [S -> S]]
  <2>1. ASSUME NEW i \in 1..n, NEW x \in S
        PROVE  Advance(x, Visited(cps, i), cps[i].state) \in S
    <3>1. cps[i].state \in Seq(Event)
      BY CheckpointType
    <3>2. QED
      BY <3>1, AdvanceType
  <2>2. QED
    BY <2>1
<1>3. PICK g \in [0..n -> S] : Iterates(g, n, Declared[c], step)
  <2> HIDE DEF step, S, n
  <2>1. QED
    BY <1>1, <1>2, Recursion
<1>4. \A i \in 1..n : g[i] = Advance(g[i - 1], Visited(cps, i), cps[i].state)
  <2>1. ASSUME NEW i \in 1..n
        PROVE  g[i] = Advance(g[i - 1], Visited(cps, i), cps[i].state)
    <3>1. g[i] = step[i][g[i - 1]] /\ g[i - 1] \in S
      <4> HIDE DEF step, n, S
      <4>1. i - 1 \in 0..n
        BY <1>1
      <4>2. QED
        BY <4>1, <1>3 DEF Iterates
    <3>2. QED
      BY <3>1
  <2>2. QED
    BY <2>1
<1>5. g[0] = Declared[c]
  BY <1>3 DEF Iterates
<1>6. g = F(g)
  BY <1>1, <1>4, <1>5
<1>7. queues = F(queues)
  BY <1>6
<1>8. Queues(c, cps) = queues
  BY Zenon DEF Queues
<1> HIDE DEF queues
<1>9. /\ DOMAIN queues = 0..n
      /\ queues[0] = Declared[c]
      /\ \A i \in 1..n : queues[i] = Advance(queues[i - 1], Visited(cps, i), cps[i].state)
  BY <1>1, <1>7
<1>10. \A i \in 0..n : queues[i] \in S
  <2> DEFINE Good == { i \in 0..n : queues[i] \in S }
  <2>1. 0 \in Good
    BY <1>1, <1>9
  <2>2. ASSUME NEW m \in 1..n, m - 1 \in Good
        PROVE  m \in Good
    <3>1. cps[m].state \in Seq(Event)
      BY CheckpointType
    <3>2. queues[m] \in S
      BY <2>2, <3>1, <1>9, AdvanceType
    <3>3. QED
      BY <3>2
  <2>3. \A m \in 0..n : m \in Good
    <3> HIDE DEF Good, n
    <3>1. QED
      BY <1>1, <2>1, <2>2, Interval
  <2>4. QED
    BY <2>3
<1>11. queues \in [0..n -> S]
  <2>1. queues = [i \in 0..n |-> queues[i]]
    BY <1>7
  <2>2. QED
    BY <1>10, <2>1
<1>12. QED
  BY <1>8, <1>9, <1>11

LEMMA VisitedStep ==
  ASSUME NEW cps
  PROVE  /\ Visited(cps, 0) = {}
         /\ \A i \in Nat \ {0} : Visited(cps, i) = Visited(cps, i - 1) \cup {cps[i].stream}
<1>1. Visited(cps, 0) = {}
  BY DEF Visited
<1>2. ASSUME NEW i \in Nat \ {0}
      PROVE  Visited(cps, i) = Visited(cps, i - 1) \cup {cps[i].stream}
  <2>1. 1..i = 1..(i - 1) \cup {i}
    OBVIOUS
  <2>2. QED
    BY <2>1 DEF Visited
<1>3. QED
  BY <1>1, <1>2

(***************************************************************************)
(* Lists of checkpoints with a common prefix have common queues.           *)
(***************************************************************************)
LEMMA QueuesAgree ==
  ASSUME NEW c \in Commands,
         NEW cps \in Seq(CheckpointSet), NEW other \in Seq(CheckpointSet), NEW n \in Nat,
         n <= Len(cps), n <= Len(other),
         \A i \in 1..n : cps[i] = other[i]
  PROVE  /\ \A i \in 0..n : Queues(c, cps)[i] = Queues(c, other)[i]
         /\ \A i \in 0..n : Visited(cps, i) = Visited(other, i)
<1>1. ASSUME NEW i \in 0..n
      PROVE  Visited(cps, i) = Visited(other, i)
  <2>1. \A j \in 1..i : cps[j].stream = other[j].stream
    OBVIOUS
  <2>2. QED
    BY <2>1 DEF Visited
<1> DEFINE Good == { i \in 0..n : Queues(c, cps)[i] = Queues(c, other)[i] }
<1>2. 0 \in Good
  BY QueuesDef
<1>3. ASSUME NEW m \in 1..n, m - 1 \in Good
      PROVE  m \in Good
  <2>1. Queues(c, cps)[m] = Advance(Queues(c, cps)[m - 1], Visited(cps, m), cps[m].state)
    BY QueuesDef
  <2>2. Queues(c, other)[m]
          = Advance(Queues(c, other)[m - 1], Visited(other, m), other[m].state)
    BY QueuesDef
  <2>3. cps[m] = other[m] /\ Visited(cps, m) = Visited(other, m)
    BY <1>1
  <2>4. QED
    BY <1>3, <2>1, <2>2, <2>3
<1>4. \A m \in 0..n : m \in Good
  <2> HIDE DEF Good
  <2>1. QED
    BY <1>2, <1>3, Interval
<1>5. QED
  BY <1>1, <1>4

LEMMA TailFresh ==
  ASSUME NEW q, NEW visited, Fresh(q, visited), q # << >>
  PROVE  /\ Head(q) \in Streams
         /\ Head(q) \notin visited
         /\ Fresh(Tail(q), visited \cup {Head(q)})
<1>1. /\ q \in Seq(Streams) /\ Len(q) \in Nat \ {0} /\ DOMAIN q = 1..Len(q)
      /\ Head(q) = q[1]
  BY DEF Fresh
<1> DEFINE r == Tail(q)
<1>2. /\ r \in Seq(Streams) /\ Len(r) = Len(q) - 1
      /\ \A i \in 1..Len(r) : r[i] = q[i + 1]
  BY <1>1
<1> HIDE DEF r
<1>3. DOMAIN r = 1..Len(r) /\ Len(r) \in Nat
  BY <1>2
<1>4. Fresh(r, visited \cup {Head(q)})
  <2>1. ASSUME NEW i \in DOMAIN r
        PROVE  i + 1 \in DOMAIN q /\ r[i] = q[i + 1] /\ i + 1 # 1
    BY <1>1, <1>2, <1>3
  <2>2. \A i, j \in DOMAIN r : r[i] = r[j] => i = j
    <3>1. ASSUME NEW i \in DOMAIN r, NEW j \in DOMAIN r, r[i] = r[j]
          PROVE  i + 1 = j + 1
      BY <2>1, <3>1 DEF Fresh
    <3>2. QED
      BY <3>1, <1>3
  <2>3. \A i \in DOMAIN r : r[i] \notin visited \cup {Head(q)}
    BY <1>1, <2>1 DEF Fresh
  <2>4. QED
    BY <1>2, <2>2, <2>3 DEF Fresh
<1>5. QED
  BY <1>1, <1>4 DEF Fresh, r

LEMMA AdvanceFresh ==
  ASSUME NEW q, NEW visited, Fresh(q, visited), q # << >>, NEW st \in Seq(Event)
  PROVE  Fresh(Advance(q, visited \cup {Head(q)}, st), visited \cup {Head(q)})
<1>1. Fresh(Tail(q), visited \cup {Head(q)})
  BY TailFresh
<1>2. Fresh(Discover(Tail(q), visited \cup {Head(q)}, st), visited \cup {Head(q)})
  BY <1>1, DiscoverFresh
<1>3. QED
  BY <1>2 DEF Advance

(***************************************************************************)
(* A command that follows the checkpoints never queues a stream twice.     *)
(***************************************************************************)
LEMMA QueuesFresh ==
  ASSUME NEW c \in Commands, NEW cps \in Seq(CheckpointSet), Follows(c, cps)
  PROVE  \A i \in 0..Len(cps) : Fresh(Queues(c, cps)[i], Visited(cps, i))
<1> DEFINE n == Len(cps)
           Good == { i \in 0..n : Fresh(Queues(c, cps)[i], Visited(cps, i)) }
<1>0. n \in Nat
  OBVIOUS
<1>1. 0 \in Good
  <2>1. Queues(c, cps)[0] = Declared[c] /\ Visited(cps, 0) = {}
    BY QueuesDef, VisitedStep
  <2>2. Fresh(Declared[c], {})
    BY DeclaredAssumption DEF Fresh, IsInjective
  <2>3. Fresh(Queues(c, cps)[0], Visited(cps, 0))
    BY <2>1, <2>2
  <2>4. QED
    BY <1>0, <2>3
<1>2. ASSUME NEW m \in 1..n, m - 1 \in Good
      PROVE  m \in Good
  <2> DEFINE q == Queues(c, cps)[m - 1]
             visited == Visited(cps, m - 1)
  <2>1. Fresh(q, visited)
    BY <1>2
  <2>2. q # << >> /\ Head(q) = cps[m].stream
    BY DEF Follows
  <2>3. cps[m].state \in Seq(Event)
    BY CheckpointType
  <2>4. Visited(cps, m) = visited \cup {Head(q)}
    BY <2>2, VisitedStep
  <2>5. Queues(c, cps)[m] = Advance(q, Visited(cps, m), cps[m].state)
    BY QueuesDef
  <2> HIDE DEF q, visited
  <2>6. Fresh(Queues(c, cps)[m], Visited(cps, m))
    BY <2>1, <2>2, <2>3, <2>4, <2>5, AdvanceFresh
  <2>7. QED
    BY <1>0, <2>6
<1>3. \A m \in 0..n : m \in Good
  <2> HIDE DEF Good, n
  <2>1. QED
    BY <1>0, <1>1, <1>2, Interval
<1>4. QED
  BY <1>3

-------------------------------------------------------------------------------
(***************************************************************************)
(* Events and states.                                                      *)
(***************************************************************************)
LEMMA EventsType ==
  ASSUME NEW s \in Streams, NEW first \in Nat \ {0}, NEW last \in 0..MaxVersion,
         first <= last + 1
  PROVE  /\ Events(s, first, last) \in Seq(Event)
         /\ Len(Events(s, first, last)) = last - first + 1
         /\ \A i \in 1..(last - first + 1) : Events(s, first, last)[i] = << s, first + i - 1 >>
<1> USE VersionAssumption
<1> DEFINE n == last - first + 1
<1>1. n \in Nat /\ \A i \in 1..n : first + i - 1 \in 1..MaxVersion
  OBVIOUS
<1>2. \A i \in 1..n : << s, first + i - 1 >> \in Event
  BY <1>1 DEF Event
<1>3. QED
  BY <1>1, <1>2 DEF Events

LEMMA FirstEventsType ==
  ASSUME NEW s \in Streams, NEW v \in 0..MaxVersion
  PROVE  /\ Events(s, 1, v) \in Seq(Event)
         /\ Len(Events(s, 1, v)) = v
         /\ \A i \in 1..v : Events(s, 1, v)[i] = << s, i >>
<1> USE VersionAssumption
<1> DEFINE e == Events(s, 1, v)
<1>1. 1 \in Nat \ {0} /\ 1 <= v + 1 /\ v - 1 + 1 = v
  OBVIOUS
<1>2. /\ e \in Seq(Event) /\ Len(e) = v - 1 + 1
      /\ \A i \in 1..(v - 1 + 1) : e[i] = << s, 1 + i - 1 >>
  BY <1>1, EventsType
<1>3. \A i \in 1..v : 1 + i - 1 = i
  OBVIOUS
<1> HIDE DEF e
<1>4. e \in Seq(Event) /\ Len(e) = v /\ \A i \in 1..v : e[i] = << s, i >>
  BY <1>1, <1>2, <1>3
<1>5. QED
  BY <1>4 DEF e

LEMMA EventsConcat ==
  ASSUME NEW s \in Streams, NEW v \in 0..MaxVersion, NEW b \in 0..v
  PROVE  Events(s, 1, b) \o Events(s, b + 1, v) = Events(s, 1, v)
<1> USE VersionAssumption
<1> DEFINE e1 == Events(s, 1, b)
           e2 == Events(s, b + 1, v)
           e == Events(s, 1, v)
<1>1. /\ e1 \in Seq(Event) /\ Len(e1) = b
      /\ \A i \in 1..b : e1[i] = << s, i >>
  <2>1. b \in 0..MaxVersion
    OBVIOUS
  <2>2. QED
    BY <2>1, FirstEventsType
<1>2. /\ e2 \in Seq(Event) /\ Len(e2) = v - b
      /\ \A i \in 1..(v - b) : e2[i] = << s, b + i >>
  <2>1. b + 1 \in Nat \ {0} /\ b + 1 <= v + 1 /\ v - (b + 1) + 1 = v - b
    OBVIOUS
  <2>2. /\ e2 \in Seq(Event) /\ Len(e2) = v - (b + 1) + 1
        /\ \A i \in 1..(v - (b + 1) + 1) : e2[i] = << s, (b + 1) + i - 1 >>
    BY <2>1, EventsType
  <2>3. \A i \in 1..(v - b) : (b + 1) + i - 1 = b + i
    OBVIOUS
  <2> HIDE DEF e2
  <2>4. QED
    BY <2>1, <2>2, <2>3
<1>3. /\ e \in Seq(Event) /\ Len(e) = v
      /\ \A i \in 1..v : e[i] = << s, i >>
  BY FirstEventsType
<1>4. v \in Nat /\ b \in Nat /\ v - b \in Nat
  OBVIOUS
<1> HIDE DEF e1, e2, e
<1>5. /\ e1 \o e2 \in Seq(Event) /\ Len(e1 \o e2) = v
      /\ \A i \in 1..v : (e1 \o e2)[i] = IF i <= b THEN e1[i] ELSE e2[i - b]
  <2>1. /\ e1 \o e2 \in Seq(Event) /\ Len(e1 \o e2) = Len(e1) + Len(e2)
        /\ \A i \in 1..(Len(e1) + Len(e2)) :
             (e1 \o e2)[i] = IF i <= Len(e1) THEN e1[i] ELSE e2[i - Len(e1)]
    <3>1. e1 \in Seq(Event) /\ e2 \in Seq(Event)
      BY <1>1, <1>2
    <3>2. QED
      BY <3>1, ConcatProperties
  <2>2. Len(e1) = b /\ Len(e1) + Len(e2) = v
    BY <1>1, <1>2, <1>4
  <2>3. QED
    BY Zenon, <2>1, <2>2
<1>6. ASSUME NEW i \in 1..v
      PROVE  (e1 \o e2)[i] = e[i]
  <2>1. CASE i <= b
    <3>1. (e1 \o e2)[i] = e1[i]
      BY <2>1, <1>5
    <3>2. i \in 1..b
      BY <2>1, <1>4
    <3>3. QED
      BY <3>1, <3>2, <1>1, <1>3
  <2>2. CASE ~(i <= b)
    <3>1. i - b \in 1..(v - b) /\ b + (i - b) = i
      BY <2>2
    <3>2. (e1 \o e2)[i] = e2[i - b]
      BY <2>2, <1>5
    <3>3. QED
      BY <3>1, <3>2, <1>2, <1>3
  <2>3. QED
    BY <2>1, <2>2
<1>7. QED
  <2>1. e1 \o e2 = e
    BY <1>3, <1>5, <1>6, SeqEqual
  <2>2. QED
    BY <2>1 DEF e1, e2, e

LEMMA StartsWithConcat ==
  ASSUME NEW a \in Seq(Event), NEW b \in Seq(Event), NEW e \in Seq(Event), StartsWith(b, a)
  PROVE  /\ b \o e \in Seq(Event)
         /\ StartsWith(b \o e, a)
         /\ StartsWith(b \o e, b)
  BY DEF StartsWith

LEMMA StartsWithSubSeq ==
  ASSUME NEW a \in Seq(Event), NEW b \in Seq(Event), StartsWith(b, a)
  PROVE  a = SubSeq(b, 1, Len(a))
<1>1. /\ SubSeq(b, 1, Len(a)) \in Seq(Event) /\ Len(SubSeq(b, 1, Len(a))) = Len(a)
      /\ \A i \in 1..Len(a) : SubSeq(b, 1, Len(a))[i] = b[i]
  BY DEF StartsWith
<1>2. QED
  BY <1>1, SeqEqual DEF StartsWith

LEMMA ConcatAssociates ==
  ASSUME NEW a \in Seq(Event), NEW b \in Seq(Event), NEW e \in Seq(Event)
  PROVE  (a \o b) \o e = a \o (b \o e)
  BY ConcatAssociative
-------------------------------------------------------------------------------
(***************************************************************************)
(* Chains of checkpoints.                                                  *)
(***************************************************************************)
LEMMA AfterType ==
  ASSUME NEW cps, Chain(cps)
  PROVE  /\ StateAfter(cps) \in Seq(Event)
         /\ DOMAIN VersionsAfter(cps) = Visited(cps, Len(cps))
         /\ Visited(cps, Len(cps)) \subseteq Streams
         /\ \A s \in DOMAIN VersionsAfter(cps) : VersionsAfter(cps)[s] \in 0..MaxVersion
         /\ \A i \in 1..Len(cps) :
              /\ StartsWith(StateAfter(cps), cps[i].state)
              /\ DOMAIN cps[i].versions \subseteq DOMAIN VersionsAfter(cps)
              /\ \A s \in DOMAIN cps[i].versions : VersionsAfter(cps)[s] = cps[i].versions[s]
<1>1. cps \in Seq(CheckpointSet) /\ Len(cps) \in Nat /\ DOMAIN cps = 1..Len(cps)
  BY DEF Chain
<1>2. CASE cps = << >>
  BY <1>2, VisitedStep DEF StateAfter, VersionsAfter, NoVersions
<1>3. CASE cps # << >>
  <2> DEFINE n == Len(cps)
  <2>1. n \in 1..Len(cps)
    BY <1>1, <1>3
  <2>2. StateAfter(cps) = cps[n].state /\ VersionsAfter(cps) = cps[n].versions
    BY <1>3 DEF StateAfter, VersionsAfter
  <2>3. /\ cps[n].state \in Seq(Event)
        /\ DOMAIN cps[n].versions \subseteq Streams
        /\ \A s \in DOMAIN cps[n].versions : cps[n].versions[s] \in 0..MaxVersion
    BY <1>1, <2>1, CheckpointType
  <2>4. DOMAIN cps[n].versions = Visited(cps, n)
    BY <1>1, <2>1 DEF Chain
  <2>5. ASSUME NEW i \in 1..Len(cps)
        PROVE  /\ StartsWith(cps[n].state, cps[i].state)
               /\ DOMAIN cps[i].versions \subseteq DOMAIN cps[n].versions
               /\ \A s \in DOMAIN cps[i].versions : cps[n].versions[s] = cps[i].versions[s]
    <3>1. DOMAIN cps[i].versions = Visited(cps, i)
      BY <1>1 DEF Chain
    <3>2. Visited(cps, i) \subseteq Visited(cps, n)
      BY <1>1 DEF Visited
    <3>3. i <= n
      BY <1>1
    <3>4. QED
      BY <1>1, <2>1, <2>4, <3>1, <3>2, <3>3 DEF Chain
  <2>6. QED
    BY <2>2, <2>3, <2>4, <2>5
<1>4. QED
  BY <1>2, <1>3

LEMMA ChainPrefix ==
  ASSUME NEW cps, Chain(cps), NEW other \in Seq(CheckpointSet), Len(other) <= Len(cps),
         \A i \in 1..Len(other) : other[i] = cps[i]
  PROVE  Chain(other)
<1>1. /\ cps \in Seq(CheckpointSet) /\ DOMAIN cps = 1..Len(cps) /\ Len(cps) \in Nat
      /\ DOMAIN other = 1..Len(other) /\ Len(other) \in Nat
      /\ DOMAIN other \subseteq DOMAIN cps
  BY DEF Chain
<1>2. \A i, j \in DOMAIN other : other[i].stream = other[j].stream => i = j
  BY <1>1 DEF Chain
<1>3. ASSUME NEW i \in DOMAIN other
      PROVE  /\ DOMAIN other[i].versions = Visited(other, i)
             /\ other[i].state = (IF i = 1 THEN << >> ELSE other[i - 1].state)
                         \o Events(other[i].stream, 1, other[i].versions[other[i].stream])
  <2>1. Visited(other, i) = Visited(cps, i)
    <3>1. \A j \in 1..i : cps[j].stream = other[j].stream
      BY <1>1
    <3>2. QED
      BY <3>1 DEF Visited
  <2>2. other[i] = cps[i] /\ i \in DOMAIN cps
    BY <1>1
  <2>3. i # 1 => other[i - 1] = cps[i - 1]
    BY <1>1
  <2>4. QED
    BY <2>1, <2>2, <2>3 DEF Chain
<1>4. \A i, j \in DOMAIN other : i <= j =>
        /\ \A s \in DOMAIN other[i].versions : other[j].versions[s] = other[i].versions[s]
        /\ StartsWith(other[j].state, other[i].state)
  BY <1>1 DEF Chain
<1>5. QED
  BY <1>2, <1>3, <1>4 DEF Chain

LEMMA FollowsPrefix ==
  ASSUME NEW c \in Commands, NEW cps \in Seq(CheckpointSet), Follows(c, cps),
         NEW other \in Seq(CheckpointSet), Len(other) <= Len(cps),
         \A i \in 1..Len(other) : other[i] = cps[i]
  PROVE  /\ Follows(c, other)
         /\ Queues(c, other)[Len(other)] = Queues(c, cps)[Len(other)]
<1> DEFINE n == Len(other)
<1>1. n \in Nat /\ Len(cps) \in Nat /\ DOMAIN other = 1..n /\ DOMAIN cps = 1..Len(cps)
  OBVIOUS
<1>2. \A i \in 0..n : Queues(c, other)[i] = Queues(c, cps)[i]
  BY <1>1, QueuesAgree
<1>3. ASSUME NEW i \in DOMAIN other
      PROVE  /\ Queues(c, other)[i - 1] # << >>
             /\ Head(Queues(c, other)[i - 1]) = other[i].stream
  <2>1. i - 1 \in 0..n /\ i \in DOMAIN cps /\ other[i] = cps[i]
    BY <1>1
  <2>2. QED
    BY <1>2, <2>1 DEF Follows
<1>4. QED
  BY <1>1, <1>2, <1>3 DEF Follows

(***************************************************************************)
(* The next stream of the queue, read from its beginning, extends a chain. *)
(***************************************************************************)
Extension(cps, s, v) ==
  [stream |-> s,
   state |-> StateAfter(cps) \o Events(s, 1, v),
   versions |-> Insert(VersionsAfter(cps), s, v)]

LEMMA ExtensionType ==
  ASSUME NEW cps, Chain(cps), NEW s \in Streams, NEW v \in 0..MaxVersion
  PROVE  /\ Extension(cps, s, v) \in CheckpointSet
         /\ Append(cps, Extension(cps, s, v)) \in Seq(CheckpointSet)
<1>1. StateAfter(cps) \o Events(s, 1, v) \in Seq(Event)
  BY AfterType, FirstEventsType
<1> DEFINE versions == Insert(VersionsAfter(cps), s, v)
           D == DOMAIN VersionsAfter(cps) \cup {s}
<1>2. versions \in [D -> 0..MaxVersion] /\ D \in SUBSET Streams
  BY AfterType DEF Insert
<1>3. versions \in UNION { [E -> 0..MaxVersion] : E \in SUBSET Streams }
  BY <1>2
<1> HIDE DEF versions
<1>4. [stream |-> s, state |-> StateAfter(cps) \o Events(s, 1, v), versions |-> versions]
        \in CheckpointSet
  BY <1>1, <1>3 DEF CheckpointSet
<1>5. Extension(cps, s, v) \in CheckpointSet
  BY <1>4 DEF Extension, versions
<1>6. QED
  BY <1>5 DEF Chain

LEMMA ChainExtends ==
  ASSUME NEW cps, Chain(cps), NEW s \in Streams, s \notin Visited(cps, Len(cps)),
         NEW v \in 0..MaxVersion, NEW new, new = Extension(cps, s, v)
  PROVE  Chain(Append(cps, new))
<1> DEFINE n == Len(cps)
           longer == Append(cps, new)
<1>1. /\ cps \in Seq(CheckpointSet) /\ n \in Nat /\ DOMAIN cps = 1..n
      /\ new \in CheckpointSet
      /\ longer \in Seq(CheckpointSet) /\ DOMAIN longer = 1..(n + 1)
      /\ longer[n + 1] = new
      /\ \A i \in 1..n : longer[i] = cps[i]
  <2>1. cps \in Seq(CheckpointSet) /\ new \in CheckpointSet
    BY ExtensionType DEF Chain
  <2>2. QED
    BY <2>1
<1>2. /\ new.stream = s
      /\ new.state = StateAfter(cps) \o Events(s, 1, v)
      /\ new.versions = Insert(VersionsAfter(cps), s, v)
  BY DEF Extension
<1> HIDE DEF longer, n
<1>3. DOMAIN VersionsAfter(cps) = Visited(cps, n) /\ s \notin Visited(cps, n)
  BY AfterType DEF n
<1>4. /\ DOMAIN new.versions = Visited(cps, n) \cup {s}
      /\ new.versions[s] = v
      /\ \A t \in Visited(cps, n) : new.versions[t] = VersionsAfter(cps)[t]
  BY <1>2, <1>3 DEF Insert
<1>5. \A i \in 1..n : cps[i].stream # s
  BY <1>3 DEF Visited
<1>6. \A i \in 0..n : Visited(longer, i) = Visited(cps, i)
  <2>1. ASSUME NEW i \in 0..n
        PROVE  Visited(longer, i) = Visited(cps, i)
    <3>1. \A j \in 1..i : longer[j].stream = cps[j].stream
      BY <1>1
    <3>2. QED
      BY <3>1 DEF Visited
  <2>2. QED
    BY <2>1
<1>7. Visited(longer, n + 1) = Visited(cps, n) \cup {s}
  <2>1. n + 1 \in Nat \ {0} /\ n + 1 - 1 = n /\ n \in 0..n
    BY <1>1
  <2>2. Visited(longer, n + 1) = Visited(longer, n + 1 - 1) \cup {longer[n + 1].stream}
    BY <2>1, VisitedStep
  <2>3. QED
    BY <1>1, <1>2, <1>6, <2>1, <2>2
<1>8. \A i, j \in DOMAIN longer : longer[i].stream = longer[j].stream => i = j
  <2>1. \A i, j \in 1..n : cps[i].stream = cps[j].stream => i = j
    BY <1>1 DEF Chain
  <2>2. \A i \in 1..(n + 1) : i = n + 1 \/ i \in 1..n
    BY <1>1
  <2>3. QED
    BY <1>1, <1>2, <1>5, <2>1, <2>2
<1>9. ASSUME NEW i \in DOMAIN longer
      PROVE  /\ DOMAIN longer[i].versions = Visited(longer, i)
             /\ longer[i].state = (IF i = 1 THEN << >> ELSE longer[i - 1].state)
                         \o Events(longer[i].stream, 1, longer[i].versions[longer[i].stream])
  <2>1. CASE i \in 1..n
    <3>1. longer[i] = cps[i] /\ Visited(longer, i) = Visited(cps, i) /\ i \in DOMAIN cps
      BY <1>1, <1>6, <2>1
    <3>2. i # 1 => longer[i - 1] = cps[i - 1]
      BY <1>1, <2>1
    <3>3. QED
      BY <3>1, <3>2 DEF Chain
  <2>2. CASE i = n + 1
    <3>1. StateAfter(cps) = IF i = 1 THEN << >> ELSE longer[i - 1].state
      <4>1. cps = << >> <=> n = 0
        BY <1>1 DEF n
      <4>2. i = 1 <=> n = 0
        BY <1>1, <2>2
      <4>3. n # 0 => longer[i - 1] = cps[n]
        BY <1>1, <2>2
      <4>4. QED
        BY <4>1, <4>2, <4>3 DEF StateAfter, n
    <3>2. QED
      BY <1>1, <1>2, <1>4, <1>7, <2>2, <3>1
  <2>3. i \in 1..n \/ i = n + 1
    BY <1>1
  <2>4. QED
    BY <2>1, <2>2, <2>3
<1>10. ASSUME NEW i \in DOMAIN longer, NEW j \in DOMAIN longer, i <= j
       PROVE  /\ \A t \in DOMAIN longer[i].versions :
                   longer[j].versions[t] = longer[i].versions[t]
              /\ StartsWith(longer[j].state, longer[i].state)
  <2>1. CASE j \in 1..n
    <3>1. i \in 1..n
      BY <1>1, <1>10, <2>1
    <3>2. longer[i] = cps[i] /\ longer[j] = cps[j]
      BY <1>1, <2>1, <3>1
    <3>3. QED
      BY <1>1, <1>10, <2>1, <3>1, <3>2 DEF Chain
  <2>2. CASE j = n + 1 /\ i = n + 1
    BY <2>2, <1>1, <1>2, AfterType, FirstEventsType DEF StartsWith
  <2>3. CASE j = n + 1 /\ i \in 1..n
    <3>1. longer[j] = new /\ longer[i] = cps[i]
      BY <1>1, <2>3
    <3>2. /\ StartsWith(StateAfter(cps), cps[i].state)
          /\ DOMAIN cps[i].versions \subseteq DOMAIN VersionsAfter(cps)
          /\ \A t \in DOMAIN cps[i].versions : VersionsAfter(cps)[t] = cps[i].versions[t]
      BY <2>3, AfterType DEF n
    <3>3. /\ cps[i].state \in Seq(Event) /\ StateAfter(cps) \in Seq(Event)
          /\ Events(s, 1, v) \in Seq(Event)
      BY <1>1, <2>3, CheckpointType, AfterType, FirstEventsType DEF n
    <3>4. StartsWith(new.state, cps[i].state)
      BY <1>2, <3>2, <3>3, StartsWithConcat
    <3>5. \A t \in DOMAIN cps[i].versions : new.versions[t] = cps[i].versions[t]
      BY <1>3, <1>4, <3>2
    <3>6. QED
      BY <3>1, <3>4, <3>5
  <2>4. QED
    BY <1>1, <2>1, <2>2, <2>3
<1>11. QED
  BY <1>1, <1>8, <1>9, <1>10 DEF Chain, longer

NextIs(c, cps, s) ==
  /\ Remaining(c, cps) # << >>
  /\ Head(Remaining(c, cps)) = s

Longer(cps, s, v) == Append(cps, Extension(cps, s, v))

LEMMA FollowsExtends ==
  ASSUME NEW c \in Commands, NEW cps, Chain(cps), Follows(c, cps),
         NEW s, NextIs(c, cps, s), NEW v \in 0..MaxVersion
  PROVE  /\ s \in Streams /\ s \notin Visited(cps, Len(cps))
         /\ Extension(cps, s, v) \in CheckpointSet
         /\ Longer(cps, s, v) \in Seq(CheckpointSet)
         /\ Partial(c, Longer(cps, s, v), Extension(cps, s, v).state,
                     Extension(cps, s, v).versions)
         /\ Remaining(c, Longer(cps, s, v)) \in Seq(Streams)
         /\ Remaining(c, Longer(cps, s, v))
              = Discover(Tail(Remaining(c, cps)), Visited(cps, Len(cps)) \cup {s},
                         Extension(cps, s, v).state)
<1> DEFINE q == Remaining(c, cps)
           new == Extension(cps, s, v)
<1>0. q = Queues(c, cps)[Len(cps)] /\ q # << >> /\ s = Head(q)
  BY DEF NextIs, Remaining
<1> HIDE DEF q
<1> DEFINE n == Len(cps)
           longer == Append(cps, new)
<1>1. cps \in Seq(CheckpointSet) /\ n \in Nat /\ DOMAIN cps = 1..n
  BY DEF Chain
<1>2. Fresh(q, Visited(cps, n))
  BY <1>0, <1>1, QueuesFresh
<1>3. s \in Streams /\ s \notin Visited(cps, n)
  BY <1>0, <1>2, TailFresh
<1>4. new \in CheckpointSet /\ longer \in Seq(CheckpointSet)
  BY <1>3, ExtensionType
<1>5. Chain(longer)
  BY <1>3, ChainExtends
<1>6. /\ Len(longer) = n + 1 /\ DOMAIN longer = 1..(n + 1)
      /\ longer[n + 1] = new /\ longer # << >>
      /\ \A i \in 1..n : longer[i] = cps[i]
  BY <1>1, <1>4
<1>7. new.stream = s
  BY DEF Extension
<1> HIDE DEF longer, n, new
<1>8. /\ \A i \in 0..n : Queues(c, longer)[i] = Queues(c, cps)[i]
      /\ \A i \in 0..n : Visited(longer, i) = Visited(cps, i)
  <2>1. n <= Len(cps) /\ n <= Len(longer) /\ \A i \in 1..n : longer[i] = cps[i]
    BY <1>1, <1>6 DEF n
  <2>2. QED
    BY <1>1, <1>4, <2>1, QueuesAgree
<1>9. n + 1 \in Nat \ {0} /\ n + 1 - 1 = n /\ n \in 0..n /\ n + 1 \in 1..(n + 1)
  BY <1>1
<1>10. Visited(longer, n + 1) = Visited(cps, n) \cup {s}
  <2>1. Visited(longer, n + 1) = Visited(longer, n + 1 - 1) \cup {longer[n + 1].stream}
    BY <1>9, VisitedStep
  <2>2. QED
    BY <2>1, <1>6, <1>7, <1>8, <1>9
<1>11. Queues(c, longer)[n] = q
  BY <1>0, <1>8, <1>9 DEF n
<1>12. Queues(c, longer)[n + 1] = Advance(q, Visited(longer, n + 1), new.state)
  <2>1. PICK m \in 1..Len(longer) : m = n + 1 /\ m - 1 = n
    BY <1>6, <1>9
  <2>2. Queues(c, longer)[m]
          = Advance(Queues(c, longer)[m - 1], Visited(longer, m), longer[m].state)
    BY <1>4, QueuesDef
  <2>3. QED
    BY <2>1, <2>2, <1>6, <1>11
<1>13. ASSUME NEW i \in DOMAIN longer
       PROVE  /\ Queues(c, longer)[i - 1] # << >>
              /\ Head(Queues(c, longer)[i - 1]) = longer[i].stream
  <2>1. CASE i = n + 1
    BY <2>1, <1>0, <1>6, <1>7, <1>9, <1>11
  <2>2. CASE i # n + 1
    <3>1. i \in 1..n /\ i - 1 \in 0..n
      BY <1>1, <1>6, <2>2
    <3>2. Queues(c, longer)[i - 1] = Queues(c, cps)[i - 1] /\ longer[i] = cps[i]
      BY <3>1, <1>6, <1>8
    <3>3. QED
      BY <1>1, <3>1, <3>2 DEF Follows
  <2>3. QED
    BY <2>1, <2>2
<1>14. Chain(longer) /\ Follows(c, longer)
  BY <1>5, <1>13 DEF Follows
<1>15. StateAfter(longer) = new.state /\ VersionsAfter(longer) = new.versions
  BY <1>6 DEF StateAfter, VersionsAfter
<1>16. Remaining(c, longer) = Discover(Tail(q), Visited(cps, n) \cup {s}, new.state)
  BY <1>0, <1>6, <1>10, <1>12 DEF Remaining, Advance
<1>17. Remaining(c, longer) \in Seq(Streams)
  <2>1. n + 1 \in 0..Len(longer)
    BY <1>1, <1>6
  <2>2. QED
    BY <1>4, <1>6, <2>1, QueuesDef DEF Remaining
<1>18. Longer(cps, s, v) = longer
  BY DEF Longer, longer, new
<1>19. QED
  BY <1>3, <1>4, <1>14, <1>15, <1>16, <1>17, <1>18 DEF Partial, q, n, new

-------------------------------------------------------------------------------
(***************************************************************************)
(* A chain visits as many streams as it has checkpoints.                   *)
(***************************************************************************)
LEMMA VisitedCardinality ==
  ASSUME NEW cps, Chain(cps)
  PROVE  /\ Cardinality(Visited(cps, Len(cps))) = Len(cps)
         /\ Cardinality(Streams) \in Nat
         /\ Len(cps) <= Cardinality(Streams)
<1> DEFINE n == Len(cps)
           order == [i \in 1..n |-> cps[i].stream]
           V == Visited(cps, n)
<1>1. n \in Nat /\ DOMAIN cps = 1..n
  BY DEF Chain
<1>2. IsFiniteSet(1..n) /\ Cardinality(1..n) = n
  <2>1. 1 \in Int /\ n \in Int
    BY <1>1
  <2> HIDE DEF n
  <2>2. IsFiniteSet(1..n) /\ Cardinality(1..n) = IF 1 > n THEN 0 ELSE n - 1 + 1
    BY <2>1, FS_Interval
  <2>3. (IF 1 > n THEN 0 ELSE n - 1 + 1) = n
    BY <1>1
  <2>4. QED
    BY <2>2, <2>3
<1>3. order \in Injection(1..n, V) /\ order \in Surjection(1..n, V)
  BY <1>1 DEF Chain, Visited, Injection, Surjection, IsInjective
<1>4. IsFiniteSet(V) /\ Cardinality(V) = n
  <2> HIDE DEF order, V, n
  <2>1. QED
    BY <1>2, <1>3, FS_Surjection
<1>5. V \subseteq Streams
  BY AfterType
<1>6. Cardinality(V) <= Cardinality(Streams) /\ Cardinality(Streams) \in Nat
  BY <1>5, StreamsAssumption, FS_Subset, FS_CardinalityType
<1>7. QED
  BY <1>4, <1>6

(***************************************************************************)
(* snapshot_replay_order_is_valid decides exactly whether the command      *)
(* would have visited the streams of a chain in their order.               *)
(***************************************************************************)
LEMMA ValidityIsExact ==
  ASSUME NEW c \in Commands, NEW snap, Chain(snap.checkpoints),
         snap.state = StateAfter(snap.checkpoints),
         snap.versions = VersionsAfter(snap.checkpoints)
  PROVE  ReplayOrderIsValid(c, snap)
           <=> Complete(c, snap.checkpoints, snap.state, snap.versions)
<1> DEFINE cps == snap.checkpoints
           n == Len(cps)
<1>1. /\ cps \in Seq(CheckpointSet) /\ n \in Nat /\ DOMAIN cps = 1..n
      /\ (cps = << >> <=> n = 0)
  BY DEF Chain
<1>2. ASSUME ReplayOrderIsValid(c, snap)
      PROVE  Complete(c, cps, snap.state, snap.versions)
  BY <1>2 DEF ReplayOrderIsValid, Complete, Partial, Follows, Remaining
<1>3. ASSUME Complete(c, cps, snap.state, snap.versions)
      PROVE  ReplayOrderIsValid(c, snap)
  <2>1. Cardinality(DOMAIN snap.versions) = Len(cps)
    BY VisitedCardinality, AfterType
  <2>2. ASSUME NEW i \in DOMAIN cps
        PROVE  /\ Queues(c, cps)[i - 1] # << >>
               /\ Head(Queues(c, cps)[i - 1]) = cps[i].stream
               /\ cps[i].stream \notin Visited(cps, i - 1)
               /\ cps[i].stream \in DOMAIN cps[i].versions
    <3>1. Queues(c, cps)[i - 1] # << >> /\ Head(Queues(c, cps)[i - 1]) = cps[i].stream
      BY <1>3 DEF Complete, Partial, Follows
    <3>2. cps[i].stream \notin Visited(cps, i - 1)
      <4>1. \A j \in 1..(i - 1) : j \in DOMAIN cps /\ j # i
        BY <1>1
      <4>2. \A j \in 1..(i - 1) : cps[j].stream # cps[i].stream
        BY <4>1 DEF Chain
      <4>3. QED
        BY <4>2 DEF Visited
    <3>3. i \in 1..i /\ DOMAIN cps[i].versions = Visited(cps, i)
      <4>1. DOMAIN cps[i].versions = Visited(cps, i)
        BY DEF Chain
      <4>2. QED
        BY <1>1, <4>1
    <3>4. QED
      BY <3>1, <3>2, <3>3 DEF Visited
  <2>3. Queues(c, cps)[Len(cps)] = << >>
    BY <1>3 DEF Complete, Remaining
  <2>4. ASSUME NEW s \in DOMAIN snap.versions
        PROVE  /\ cps # << >> /\ s \in DOMAIN Last(cps).versions
               /\ Last(cps).versions[s] = snap.versions[s]
    <3>1. cps # << >>
      BY DEF VersionsAfter, NoVersions
    <3>2. Last(cps) = cps[n]
      BY DEF Last
    <3>3. QED
      BY <3>1, <3>2 DEF VersionsAfter
  <2>5. QED
    BY <2>1, <2>2, <2>3, <2>4 DEF ReplayOrderIsValid
<1>4. QED
  BY <1>2, <1>3

(***************************************************************************)
(* The operators of SerialReplay are those of SnapshotReplay.              *)
(***************************************************************************)
LEMMA SameOperators ==
  /\ \A S : Promise!Cardinality(S) = Cardinality(S)
  /\ \A s : Promise!ToSet(s) = ToSet(s)
  /\ \A s, first, last : Promise!Events(s, first, last) = Events(s, first, last)
  /\ \A q, visited, st : Promise!Discover(q, visited, st) = Discover(q, visited, st)
<1>1. \A S : Promise!Cardinality(S) = Cardinality(S)
  BY Zenon DEF Promise!Cardinality, Cardinality, Promise!IsFiniteSet, IsFiniteSet
<1>2. \A s : Promise!ToSet(s) = ToSet(s)
  BY Zenon DEF Promise!ToSet, ToSet
<1>3. \A s, first, last : Promise!Events(s, first, last) = Events(s, first, last)
  BY Zenon DEF Promise!Events, Events
<1>4. \A q, visited, st : Promise!Discover(q, visited, st) = Discover(q, visited, st)
  BY Zenon DEF Promise!Discover, Discover, Promise!Schedule, Schedule, Promise!ToSet, ToSet
<1>5. QED
  BY <1>1, <1>2, <1>3, <1>4

(***************************************************************************)
(* A chain without a remaining queue is what a full replay of its versions *)
(* computes.                                                               *)
(***************************************************************************)
LEMMA ReplayOfChain ==
  ASSUME NEW c \in Commands, NEW cps, NEW st, NEW versions,
         Complete(c, cps, st, versions),
         NEW lengths, \A s \in DOMAIN versions : lengths[s] = versions[s]
  PROVE  LET replay == Promise!FullReplay(Declared[c], lengths)
         IN /\ replay.queue = << >>
            /\ replay.state = st
            /\ ToSet(replay.order) = DOMAIN versions
<1> DEFINE n == Len(cps)
           N == Cardinality(Streams)
           m(k) == IF k <= n THEN k ELSE n
           Done(k) == [queue |-> Queues(c, cps)[k],
                       order |-> [i \in 1..k |-> cps[i].stream],
                       state |-> IF k = 0 THEN << >> ELSE cps[k].state]
           g == [k \in 0..N |-> Done(m(k))]
           F(h) == [k \in 0..Cardinality(Streams) |->
                      IF k = 0
                      THEN [queue |-> Declared[c], order |-> << >>, state |-> << >>]
                      ELSE Promise!Visit(h[k - 1], lengths)]
           replay == CHOOSE h : h = F(h)
<1>1. /\ Chain(cps) /\ cps \in Seq(CheckpointSet) /\ n \in Nat /\ DOMAIN cps = 1..n
      /\ Follows(c, cps) /\ Queues(c, cps)[n] = << >>
      /\ st = StateAfter(cps) /\ versions = VersionsAfter(cps)
  <2>1. /\ Chain(cps) /\ Follows(c, cps) /\ Queues(c, cps)[Len(cps)] = << >>
        /\ st = StateAfter(cps) /\ versions = VersionsAfter(cps)
    BY DEF Complete, Partial, Remaining
  <2>2. cps \in Seq(CheckpointSet)
    BY <2>1 DEF Chain
  <2>3. QED
    BY <2>1, <2>2
<1>2. N \in Nat /\ n <= N
  BY <1>1, VisitedCardinality
<1>3. Done(0) = [queue |-> Declared[c], order |-> << >>, state |-> << >>]
  <2>1. Queues(c, cps)[0] = Declared[c]
    BY <1>1, QueuesDef
  <2>2. [i \in 1..0 |-> cps[i].stream] = << >>
    OBVIOUS
  <2>3. QED
    BY <2>1, <2>2
<1>4. ASSUME NEW k \in 1..n
      PROVE  Promise!Visit(Done(k - 1), lengths) = Done(k)
  <2> DEFINE q == Queues(c, cps)[k - 1]
             s == cps[k].stream
             before == [i \in 1..(k - 1) |-> cps[i].stream]
             order == [i \in 1..k |-> cps[i].stream]
             prior == IF k - 1 = 0 THEN << >> ELSE cps[k - 1].state
  <2>1. q # << >> /\ Head(q) = s
    BY <1>1 DEF Follows
  <2>2. Append(before, s) = order
    <3>1. before \in Seq(Streams) /\ Len(before) = k - 1
      <4>1. \A i \in 1..(k - 1) : cps[i].stream \in Streams
        BY <1>1, CheckpointType
      <4>2. QED
        BY <4>1
    <3>2. s \in Streams
      BY <1>1, CheckpointType
    <3>3. order \in Seq(Streams) /\ Len(order) = k
      <4>1. \A i \in 1..k : cps[i].stream \in Streams
        BY <1>1, CheckpointType
      <4>2. QED
        BY <4>1
    <3> DEFINE a == Append(before, s)
    <3>4. /\ a \in Seq(Streams) /\ Len(a) = k /\ a[k] = s
          /\ \A i \in 1..(k - 1) : a[i] = before[i]
      BY <3>1, <3>2
    <3>5. \A i \in 1..(k - 1) : before[i] = order[i]
      OBVIOUS
    <3>6. order[k] = s
      OBVIOUS
    <3> HIDE DEF a, before, order, s
    <3>7. \A i \in 1..k : a[i] = order[i]
      BY <3>4, <3>5, <3>6
    <3>8. QED
      BY <3>3, <3>4, <3>7, SeqEqual DEF a
  <2>3. lengths[s] = cps[k].versions[s]
    <3>1. s \in DOMAIN cps[k].versions
      <4>1. DOMAIN cps[k].versions = Visited(cps, k)
        BY <1>1 DEF Chain
      <4>2. k \in 1..k
        OBVIOUS
      <4>3. QED
        BY <4>1, <4>2 DEF Visited
    <3>2. s \in DOMAIN versions /\ versions[s] = cps[k].versions[s]
      BY <1>1, <3>1, AfterType
    <3>3. QED
      BY <3>2
  <2>4. cps[k].state = prior \o Events(s, 1, lengths[s])
    <3>1. k = 1 <=> k - 1 = 0
      OBVIOUS
    <3>2. QED
      BY <1>1, <2>3, <3>1 DEF Chain
  <2>5. ToSet(order) = Visited(cps, k)
    BY DEF ToSet, Visited
  <2>6. Queues(c, cps)[k] = Discover(Tail(q), Visited(cps, k), cps[k].state)
    <3>1. Queues(c, cps)[k] = Advance(q, Visited(cps, k), cps[k].state)
      BY <1>1, QueuesDef
    <3>2. QED
      BY <2>1, <3>1 DEF Advance
  <2>7. Promise!Events(s, 1, lengths[s]) = Events(s, 1, lengths[s])
    BY SameOperators
  <2>8. Done(k - 1) = [queue |-> q, order |-> before, state |-> prior]
    OBVIOUS
  <2>9. Done(k) = [queue |-> Queues(c, cps)[k], order |-> order, state |-> cps[k].state]
    OBVIOUS
  <2> HIDE DEF q, s, before, order, prior, Done
  <2>10. Promise!Visit([queue |-> q, order |-> before, state |-> prior], lengths)
           = [queue |-> Discover(Tail(q), ToSet(order), cps[k].state),
              order |-> order, state |-> cps[k].state]
    BY <2>1, <2>2, <2>4, <2>7, SameOperators, Zenon DEF Promise!Visit
  <2>11. QED
    BY <2>5, <2>6, <2>8, <2>9, <2>10
<1>5. Promise!Visit(Done(n), lengths) = Done(n)
  BY <1>1 DEF Promise!Visit
<1>6. g = F(g)
  <2>1. g[0] = [queue |-> Declared[c], order |-> << >>, state |-> << >>]
    BY <1>1, <1>2, <1>3
  <2>2. ASSUME NEW k \in 1..N
        PROVE  g[k] = Promise!Visit(g[k - 1], lengths)
    <3>1. k - 1 \in 0..N /\ g[k - 1] = Done(m(k - 1)) /\ g[k] = Done(m(k))
      BY <1>2
    <3> HIDE DEF Done, g
    <3>2. CASE k <= n
      <4>1. k \in 1..n /\ m(k) = k /\ m(k - 1) = k - 1
        BY <1>1, <3>2
      <4>2. QED
        BY <1>4, <3>1, <4>1
    <3>3. CASE ~(k <= n)
      <4>1. m(k) = n /\ m(k - 1) = n
        BY <1>1, <3>3
      <4>2. QED
        BY <1>5, <3>1, <4>1
    <3>4. QED
      BY <3>2, <3>3
  <2>3. \A k \in 0..N : g[k] = IF k = 0
                      THEN [queue |-> Declared[c], order |-> << >>, state |-> << >>]
                      ELSE Promise!Visit(g[k - 1], lengths)
    <3> HIDE DEF g
    <3>1. QED
      BY <1>2, <2>1, <2>2
  <2>4. g = [k \in 0..N |-> g[k]]
    OBVIOUS
  <2> HIDE DEF g
  <2>5. QED
    BY <2>3, <2>4
<1>7. replay = F(replay)
  BY <1>6
<1>8. Promise!FullReplay(Declared[c], lengths) = replay[N]
  <2> DEFINE M == Promise!Cardinality(Streams)
             G(h) == [k \in 0..M |->
                        IF k = 0
                        THEN [queue |-> Declared[c], order |-> << >>, state |-> << >>]
                        ELSE Promise!Visit(h[k - 1], lengths)]
  <2>1. Promise!FullReplay(Declared[c], lengths) = (CHOOSE h : h = G(h))[M]
    BY Zenon DEF Promise!FullReplay
  <2>2. M = N
    BY SameOperators
  <2>3. QED
    BY Zenon, <2>1, <2>2
<1> HIDE DEF replay, g
<1>9. \A k \in 0..N : replay[k] = g[k]
  <2> DEFINE Good == { k \in 0..N : replay[k] = g[k] }
  <2>1. 0 \in Good
    BY <1>2, <1>6, <1>7
  <2>2. ASSUME NEW k \in 1..N, k - 1 \in Good
        PROVE  k \in Good
    <3>1. k \in 0..N /\ k # 0
      BY <1>2
    <3>2. replay[k] = Promise!Visit(replay[k - 1], lengths)
      BY <1>7, <3>1, Zenon
    <3>3. g[k] = Promise!Visit(g[k - 1], lengths)
      BY <1>6, <3>1, Zenon
    <3>4. QED
      BY <2>2, <3>1, <3>2, <3>3
  <2>3. \A k \in 0..N : k \in Good
    <3> HIDE DEF Good, N
    <3>1. QED
      BY <1>2, <2>1, <2>2, Interval
  <2>4. QED
    BY <2>3
<1>10. replay[N] = Done(n)
  BY <1>1, <1>2, <1>9 DEF g
<1>11. Done(n).state = st
  BY <1>1 DEF StateAfter
<1>12. ToSet(Done(n).order) = DOMAIN versions
  <2>1. ToSet([i \in 1..n |-> cps[i].stream]) = Visited(cps, n)
    BY DEF ToSet, Visited
  <2>2. QED
    BY <1>1, <2>1, AfterType
<1>13. QED
  BY <1>1, <1>8, <1>10, <1>11, <1>12

-------------------------------------------------------------------------------
(***************************************************************************)
(* A step of one call: what it leaves alone.                               *)
(***************************************************************************)
Untouched(d) ==
  /\ phase'[d] = phase[d] /\ attempt'[d] = attempt[d]
  /\ snapshot'[d] = snapshot[d] /\ index'[d] = index[d] /\ queue'[d] = queue[d]
  /\ state'[d] = state[d] /\ expected'[d] = expected[d]
  /\ checkpoints'[d] = checkpoints[d] /\ replaces'[d] = replaces[d]
  /\ decided'[d] = decided[d] /\ outcome'[d] = outcome[d]

Grows ==
  /\ log \in [Streams -> 0..MaxVersion]
  /\ log' \in [Streams -> 0..MaxVersion]
  /\ \A s \in Streams : log[s] <= log'[s]

LEMMA AtMostGrows ==
  ASSUME Grows, NEW versions, AtMost(versions, log)
  PROVE  AtMost(versions, log')
  BY VersionAssumption DEF Grows, AtMost

LEMMA SnapshotGrows ==
  ASSUME Grows, NEW snap, IsSnapshot(snap, log)
  PROVE  IsSnapshot(snap, log')
  BY AtMostGrows DEF IsSnapshot, IsCheckpoint

LEMMA UntouchedStaysOK ==
  ASSUME Grows, NEW d \in Commands, Untouched(d), CallTyped(d), CallOK(d)
  PROVE  CallTyped(d)' /\ CallOK(d)'
<1>1. CallTyped(d)'
  <2>1. IsSnapshot(snapshot[d], log') /\ AtMost(expected[d], log')
    BY SnapshotGrows, AtMostGrows DEF CallTyped
  <2>2. \A i \in DOMAIN checkpoints[d] : IsCheckpoint(checkpoints[d][i], log')
    BY AtMostGrows DEF CallTyped, IsCheckpoint
  <2>3. QED
    BY <2>1, <2>2 DEF CallTyped, Untouched
<1>2. CallOK(d)'
  BY DEF CallOK, Blank, Untouched
<1>3. QED
  BY <1>1, <1>2

LEMMA StepOf ==
  ASSUME IInv, Grows, NEW c \in Commands,
         \A d \in Commands \ {c} : Untouched(d),
         Typed', StoredOK', CallTyped(c)', CallOK(c)'
  PROVE  IInv'
<1>1. ASSUME NEW d \in Commands
      PROVE  CallTyped(d)' /\ CallOK(d)'
  <2>1. CASE d = c
    BY <2>1
  <2>2. CASE d # c
    BY <2>2, UntouchedStaysOK DEF IInv
  <2>3. QED
    BY <2>1, <2>2
<1>2. QED
  BY <1>1 DEF IInv

LEMMA StoredStaysOK ==
  ASSUME IInv, Grows, UNCHANGED stored
  PROVE  StoredOK'
<1>1. IsSnapshot(stored, log')
  BY SnapshotGrows DEF IInv, StoredOK
<1>2. QED
  BY <1>1 DEF IInv, StoredOK

LEMMA GrowsSame ==
  ASSUME IInv, UNCHANGED log
  PROVE  Grows
  BY VersionAssumption DEF IInv, Typed, Grows

(***************************************************************************)
(* A call that returns forgets what it reconstructed.                      *)
(***************************************************************************)
LEMMA ReturnStep ==
  ASSUME IInv, Grows, StoredOK', NEW c \in Commands, NEW answer \in Outcomes,
         Return(c, answer), UNCHANGED attempt,
         DOMAIN decided' = Commands, \A d \in Commands \ {c} : decided'[d] = decided[d]
  PROVE  IInv'
<1> USE DEF Return, Goto, Forget
<1>1. \A d \in Commands \ {c} : Untouched(d)
  BY DEF IInv, Typed, Untouched
<1>2. Typed'
  BY DEF IInv, Typed, Grows, Phases
<1>3. /\ phase'[c] = "Done" /\ snapshot'[c] = NoSnapshot /\ index'[c] = 1
      /\ queue'[c] = << >> /\ state'[c] = << >> /\ expected'[c] = NoVersions
      /\ checkpoints'[c] = << >>
  BY DEF IInv, Typed
<1>4. CallTyped(c)'
  <2>1. IsSnapshot(NoSnapshot, log')
    BY DEF IsSnapshot
  <2>2. NoSnapshot.checkpoints = << >> /\ Len(<< >>) = 0 /\ DOMAIN << >> = {}
    BY DEF NoSnapshot
  <2>3. AtMost(NoVersions, log')
    BY DEF AtMost, NoVersions
  <2>4. << >> \in Seq(Streams) /\ << >> \in Seq(Event)
    OBVIOUS
  <2>5. 1 \in 1..(Len(NoSnapshot.checkpoints) + 1)
    BY <2>2
  <2>6. QED
    BY <1>3, <2>1, <2>2, <2>3, <2>4, <2>5 DEF CallTyped
<1>5. CallOK(c)'
  BY <1>3 DEF CallOK, Blank
<1>6. QED
  BY <1>1, <1>2, <1>4, <1>5, StepOf

LEMMA LoadStep ==
  ASSUME IInv, NEW c \in Commands, Load(c)
  PROVE  IInv'
<1> USE DEF Load, Goto
<1>1. Grows /\ StoredOK'
  BY GrowsSame, StoredStaysOK
<1>2. CASE stored # NoSnapshot /\ ReplayOrderIsValid(c, stored)
  <2>1. \A d \in Commands \ {c} : Untouched(d)
    BY <1>2 DEF IInv, Typed, Untouched
  <2>2. Typed'
    BY <1>2 DEF IInv, Typed, Phases
  <2>3. /\ phase[c] = "Loading" /\ phase'[c] = "Checking" /\ snapshot'[c] = stored
        /\ index'[c] = index[c]
        /\ queue'[c] = queue[c] /\ state'[c] = state[c] /\ expected'[c] = expected[c]
        /\ checkpoints'[c] = checkpoints[c] /\ log' = log /\ decided'[c] = decided[c]
    BY <1>2 DEF IInv, Typed
  <2>4. Chain(stored.checkpoints) /\ Complete(c, stored.checkpoints, stored.state, stored.versions)
    <3>1. /\ Chain(stored.checkpoints) /\ stored.state = StateAfter(stored.checkpoints)
          /\ stored.versions = VersionsAfter(stored.checkpoints)
      BY <1>2 DEF IInv, StoredOK, Complete, Partial
    <3>2. QED
      BY <1>2, <3>1, ValidityIsExact
  <2>5. CallTyped(c)'
    <3>1. index[c] = 1
      BY <2>3 DEF IInv, CallTyped, CallOK, NoSnapshot
    <3>2. Len(stored.checkpoints) \in Nat
      BY <2>4 DEF Chain
    <3>3. 1 \in 1..(Len(stored.checkpoints) + 1)
      BY <3>2
    <3>4. CallTyped(c) /\ IsSnapshot(stored, log)
      BY DEF IInv, StoredOK
    <3>5. QED
      BY <2>3, <3>1, <3>3, <3>4 DEF CallTyped
  <2>6. CallOK(c)'
    <3>1. Blank(c) /\ decided[c] = {}
      BY <2>3 DEF IInv, CallOK
    <3>2. QED
      BY <2>3, <2>4, <3>1 DEF CallOK, Blank
  <2>7. QED
    BY <1>1, <2>1, <2>2, <2>5, <2>6, StepOf
<1>3. CASE ~(stored # NoSnapshot /\ ReplayOrderIsValid(c, stored))
  <2> USE DEF ReplayAll
  <2>1. \A d \in Commands \ {c} : Untouched(d)
    BY <1>3 DEF IInv, Typed, Untouched
  <2>2. Typed'
    BY <1>3 DEF IInv, Typed, Phases
  <2>3. /\ phase[c] = "Loading" /\ phase'[c] = "Replaying" /\ queue'[c] = Declared[c]
        /\ snapshot'[c] = snapshot[c] /\ index'[c] = index[c]
        /\ state'[c] = state[c] /\ expected'[c] = expected[c]
        /\ checkpoints'[c] = checkpoints[c] /\ log' = log /\ decided'[c] = decided[c]
    BY <1>3 DEF IInv, Typed
  <2>4. Declared[c] \in Seq(Streams)
    BY DeclaredAssumption
  <2>5. CallTyped(c)'
    BY <2>3, <2>4 DEF IInv, CallTyped
  <2>6. Blank(c) /\ decided[c] = {}
    BY <2>3 DEF IInv, CallOK
  <2>7. Partial(c, << >>, << >>, NoVersions) /\ Queues(c, << >>)[0] = Declared[c]
    <3>1. << >> \in Seq(CheckpointSet) /\ DOMAIN << >> = {} /\ Len(<< >>) = 0
      OBVIOUS
    <3>2. Chain(<< >>)
      BY <3>1 DEF Chain
    <3>3. Follows(c, << >>)
      BY <3>1 DEF Follows
    <3>4. QED
      BY <3>1, <3>2, <3>3, QueuesDef DEF Partial, StateAfter, VersionsAfter
  <2>8. CallOK(c)'
    BY <2>3, <2>6, <2>7 DEF CallOK, Blank, Remaining
  <2>9. QED
    BY <1>1, <2>1, <2>2, <2>5, <2>8, StepOf
<1>4. QED
  BY <1>2, <1>3

LEMMA NoTailStep ==
  ASSUME IInv, NEW c \in Commands, NoTail(c)
  PROVE  IInv'
<1> USE DEF NoTail
<1>1. Grows /\ StoredOK'
  BY GrowsSame, StoredStaysOK
<1>2. \A d \in Commands \ {c} : Untouched(d)
  BY DEF IInv, Typed, Untouched
<1>3. Typed'
  BY DEF IInv, Typed
<1>4. /\ phase'[c] = phase[c] /\ index'[c] = index[c] + 1 /\ snapshot'[c] = snapshot[c]
      /\ queue'[c] = queue[c] /\ state'[c] = state[c] /\ expected'[c] = expected[c]
      /\ checkpoints'[c] = checkpoints[c] /\ log' = log /\ decided'[c] = decided[c]
  BY DEF IInv, Typed
<1>5. CallTyped(c)'
  <2>1. Chain(snapshot[c].checkpoints)
    BY DEF IInv, CallOK, Complete, Partial
  <2>2. Len(snapshot[c].checkpoints) \in Nat
    BY <2>1 DEF Chain
  <2>3. CallTyped(c) /\ ~(index[c] > Len(snapshot[c].checkpoints))
    BY DEF IInv, IsLastCheckpoint
  <2>4. index[c] + 1 \in 1..(Len(snapshot[c].checkpoints) + 1)
    BY <2>2, <2>3 DEF CallTyped
  <2>5. QED
    BY <1>4, <2>3, <2>4 DEF CallTyped
<1>6. CallOK(c)'
  BY <1>4 DEF IInv, CallOK, Blank
<1>7. QED
  BY <1>1, <1>2, <1>3, <1>5, <1>6, StepOf

(***************************************************************************)
(* Folding the tail of a stream into its checkpoint yields the checkpoint  *)
(* a replay of the whole stream would have made.                           *)
(***************************************************************************)
Earlier(cps, k) == SubSeq(cps, 1, k - 1)

Folded(cps, k, v) ==
  [stream |-> cps[k].stream,
   state |-> cps[k].state
             \o Events(cps[k].stream, cps[k].versions[cps[k].stream] + 1, v),
   versions |-> Insert(cps[k].versions, cps[k].stream, v)]

LEMMA FoldedTail ==
  ASSUME NEW cps, Chain(cps), NEW k \in 1..Len(cps), NEW v \in 0..MaxVersion,
         cps[k].versions[cps[k].stream] < v
  PROVE  Folded(cps, k, v) = Extension(Earlier(cps, k), cps[k].stream, v)
<1> DEFINE earlier == Earlier(cps, k)
           s == cps[k].stream
           b == cps[k].versions[s]
<1> USE DEF Earlier
<1> USE VersionAssumption
<1>1. /\ cps \in Seq(CheckpointSet) /\ Len(cps) \in Nat /\ DOMAIN cps = 1..Len(cps)
      /\ earlier \in Seq(CheckpointSet) /\ Len(earlier) = k - 1
      /\ \A i \in 1..(k - 1) : earlier[i] = cps[i]
  BY DEF Chain
<1>2. s \in Streams /\ cps[k].state \in Seq(Event)
  BY <1>1, CheckpointType
<1>3. DOMAIN cps[k].versions = Visited(cps, k - 1) \cup {s}
  <2>1. DOMAIN cps[k].versions = Visited(cps, k)
    BY <1>1 DEF Chain
  <2>2. QED
    BY <1>1, <2>1, VisitedStep
<1>4. b \in 0..v
  <2>1. b \in 0..MaxVersion
    BY <1>1, <1>3, CheckpointType
  <2>2. QED
    BY <2>1
<1>5. Chain(earlier)
  <2>1. Len(earlier) <= Len(cps) /\ \A i \in 1..Len(earlier) : earlier[i] = cps[i]
    BY <1>1
  <2>2. QED
    BY <1>1, <2>1, ChainPrefix
<1>6. StateAfter(earlier) = IF k = 1 THEN << >> ELSE cps[k - 1].state
  <2>1. earlier = << >> <=> k = 1
    BY <1>1
  <2>2. k # 1 => earlier[Len(earlier)] = cps[k - 1]
    BY <1>1
  <2>3. QED
    BY <2>1, <2>2 DEF StateAfter
<1>7. cps[k].state \o Events(s, b + 1, v) = StateAfter(earlier) \o Events(s, 1, v)
  <2>1. cps[k].state = StateAfter(earlier) \o Events(s, 1, b)
    BY <1>1, <1>6 DEF Chain
  <2>2. StateAfter(earlier) \in Seq(Event)
    BY <1>5, AfterType
  <2>3. b \in 0..MaxVersion /\ b + 1 \in Nat \ {0} /\ b + 1 <= v + 1
    BY <1>4
  <2>4. Events(s, 1, b) \in Seq(Event)
    BY <1>2, <2>3, FirstEventsType
  <2>5. Events(s, b + 1, v) \in Seq(Event)
    BY <1>2, <2>3, EventsType
  <2>6. Events(s, 1, b) \o Events(s, b + 1, v) = Events(s, 1, v)
    BY <1>2, <1>4, EventsConcat
  <2>7. \E st, e1, e2 \in Seq(Event) :
          st = StateAfter(earlier) /\ e1 = Events(s, 1, b) /\ e2 = Events(s, b + 1, v)
    BY <2>2, <2>4, <2>5
  <2>8. PICK st, e1, e2 \in Seq(Event) :
          st = StateAfter(earlier) /\ e1 = Events(s, 1, b) /\ e2 = Events(s, b + 1, v)
    BY <2>7
  <2>9. (st \o e1) \o e2 = st \o (e1 \o e2)
    BY ConcatAssociates
  <2>10. cps[k].state \o e2 = st \o (e1 \o e2)
    BY <2>1, <2>8, <2>9
  <2>11. QED
    BY <2>6, <2>8, <2>10
<1>8. Visited(earlier, k - 1) = Visited(cps, k - 1)
  <2>1. \A i \in 1..(k - 1) : earlier[i].stream = cps[i].stream
    BY <1>1
  <2>2. QED
    BY <2>1 DEF Visited
<1>9. DOMAIN VersionsAfter(earlier) = Visited(cps, k - 1)
  BY <1>1, <1>5, <1>8, AfterType
<1>10. \A t \in Visited(cps, k - 1) : VersionsAfter(earlier)[t] = cps[k].versions[t]
  <2>1. CASE k = 1
    BY <2>1 DEF Visited
  <2>2. CASE k # 1
    <3>1. k - 1 \in DOMAIN cps /\ k \in DOMAIN cps /\ k - 1 <= k
      BY <1>1, <2>2
    <3>2. VersionsAfter(earlier) = cps[k - 1].versions
      BY <1>1, <2>2 DEF VersionsAfter
    <3>3. DOMAIN cps[k - 1].versions = Visited(cps, k - 1)
      BY <3>1 DEF Chain
    <3>4. QED
      BY <3>1, <3>2, <3>3 DEF Chain
  <2>3. QED
    BY <2>1, <2>2
<1>11. Insert(cps[k].versions, s, v) = Insert(VersionsAfter(earlier), s, v)
  BY <1>3, <1>9, <1>10 DEF Insert
<1>12. QED
  BY <1>7, <1>11 DEF Folded, Extension

LEMMA TailFolds ==
  ASSUME NEW c \in Commands, NEW cps, Chain(cps), Follows(c, cps),
         NEW k \in 1..Len(cps), NEW v \in 0..MaxVersion,
         cps[k].versions[cps[k].stream] < v,
         NEW earlier, earlier = Earlier(cps, k), NEW new, new = Folded(cps, k, v)
  PROVE  /\ new \in CheckpointSet
         /\ Partial(c, Append(earlier, new), new.state, new.versions)
         /\ Remaining(c, Append(earlier, new)) \in Seq(Streams)
         /\ Remaining(c, Append(earlier, new))
              = Discover(Tail(Queues(c, earlier)[k - 1]), Visited(cps, k), new.state)
         /\ \A i \in DOMAIN Append(earlier, new) :
              \/ Append(earlier, new)[i] = new
              \/ i \in DOMAIN cps /\ Append(earlier, new)[i] = cps[i]
<1> DEFINE s == cps[k].stream
<1>1. cps \in Seq(CheckpointSet) /\ Len(cps) \in Nat /\ DOMAIN cps = 1..Len(cps)
  BY DEF Chain
<1>2. /\ earlier \in Seq(CheckpointSet) /\ Len(earlier) = k - 1
      /\ \A i \in 1..Len(earlier) : earlier[i] = cps[i]
      /\ Len(earlier) <= Len(cps)
  BY <1>1 DEF Earlier
<1>3. Chain(earlier)
  BY <1>2, ChainPrefix
<1>4. Follows(c, earlier) /\ Queues(c, earlier)[Len(earlier)] = Queues(c, cps)[Len(earlier)]
  BY <1>1, <1>2, FollowsPrefix
<1>5. Remaining(c, earlier) = Queues(c, earlier)[k - 1]
  BY <1>2 DEF Remaining
<1>6. NextIs(c, earlier, s)
  BY <1>1, <1>2, <1>4, <1>5 DEF Follows, NextIs
<1>7. Visited(cps, k) = Visited(earlier, Len(earlier)) \cup {s}
  <2>1. Visited(cps, k) = Visited(cps, k - 1) \cup {s}
    BY <1>1, VisitedStep
  <2>2. \A i \in 1..(k - 1) : earlier[i].stream = cps[i].stream
    BY <1>2
  <2>3. Visited(cps, k - 1) = Visited(earlier, k - 1)
    BY <2>2 DEF Visited
  <2>4. QED
    BY <1>2, <2>1, <2>3
<1>8. new = Extension(earlier, s, v)
  BY FoldedTail
<1> HIDE DEF s
<1>9. /\ new \in CheckpointSet
      /\ Append(earlier, new) \in Seq(CheckpointSet)
      /\ Partial(c, Append(earlier, new), new.state, new.versions)
      /\ Remaining(c, Append(earlier, new)) \in Seq(Streams)
      /\ Remaining(c, Append(earlier, new))
           = Discover(Tail(Remaining(c, earlier)), Visited(earlier, Len(earlier)) \cup {s},
                      new.state)
  <2>1. Append(earlier, new) = Longer(earlier, s, v)
    BY <1>8 DEF Longer
  <2>2. /\ Extension(earlier, s, v) \in CheckpointSet
        /\ Longer(earlier, s, v) \in Seq(CheckpointSet)
        /\ Partial(c, Longer(earlier, s, v), Extension(earlier, s, v).state,
                    Extension(earlier, s, v).versions)
        /\ Remaining(c, Longer(earlier, s, v)) \in Seq(Streams)
        /\ Remaining(c, Longer(earlier, s, v))
             = Discover(Tail(Remaining(c, earlier)), Visited(earlier, Len(earlier)) \cup {s},
                        Extension(earlier, s, v).state)
    BY <1>3, <1>4, <1>6, FollowsExtends
  <2>3. QED
    BY <1>8, <2>1, <2>2
<1>10. ASSUME NEW i \in DOMAIN Append(earlier, new)
       PROVE  \/ Append(earlier, new)[i] = new
              \/ i \in DOMAIN cps /\ Append(earlier, new)[i] = cps[i]
  BY <1>1, <1>2, <1>9
<1>11. QED
  BY <1>5, <1>7, <1>9, <1>10

LEMMA FoldTailStep ==
  ASSUME IInv, NEW c \in Commands, FoldTail(c)
  PROVE  IInv'
<1> DEFINE cps == snapshot[c].checkpoints
           k == index[c]
           v == log[cps[k].stream]
           earlier == Earlier(cps, k)
           new == Folded(cps, k, v)
<1>1. Grows /\ StoredOK'
  BY GrowsSame, StoredStaysOK DEF FoldTail
<1>2. \A d \in Commands \ {c} : Untouched(d)
  BY DEF FoldTail, Goto, IInv, Typed, Untouched
<1>3. Typed'
  BY DEF FoldTail, Goto, IInv, Typed, Phases
<1>4. /\ phase[c] = "Checking" /\ phase'[c] = "Replaying"
      /\ index'[c] = k /\ snapshot'[c] = snapshot[c]
      /\ state'[c] = new.state /\ expected'[c] = new.versions
      /\ checkpoints'[c] = Append(earlier, new)
      /\ queue'[c] = Discover(Tail(Queues(c, earlier)[k - 1]), Visited(cps, k), new.state)
      /\ log' = log /\ decided'[c] = decided[c]
      /\ cps[k].versions[cps[k].stream] < v /\ ~(k > Len(cps))
  <2>1. Checkpoint(c) = cps[k] /\ BaseVersion(c) = cps[k].versions[cps[k].stream]
    BY DEF Checkpoint, BaseVersion
  <2>2. QED
    BY <2>1 DEF FoldTail, Goto, IInv, Typed, IsLastCheckpoint, Earlier, Folded
<1>5. CallTyped(c) /\ CallOK(c) /\ Typed
  BY DEF IInv
<1>6. Chain(cps) /\ Follows(c, cps)
  BY <1>4, <1>5 DEF CallOK, Complete, Partial
<1>7. /\ cps \in Seq(CheckpointSet) /\ Len(cps) \in Nat /\ DOMAIN cps = 1..Len(cps)
      /\ k \in 1..Len(cps)
  <2>1. cps \in Seq(CheckpointSet)
    BY <1>6 DEF Chain
  <2>2. k \in 1..(Len(cps) + 1)
    BY <1>5 DEF CallTyped
  <2> HIDE DEF cps, k
  <2>3. QED
    BY <1>4, <2>1, <2>2
<1>8. cps[k].stream \in Streams /\ v \in 0..MaxVersion
  BY <1>5, <1>7, CheckpointType DEF Typed
<1>9. /\ new \in CheckpointSet
      /\ Partial(c, Append(earlier, new), new.state, new.versions)
      /\ Remaining(c, Append(earlier, new)) \in Seq(Streams)
      /\ Remaining(c, Append(earlier, new))
           = Discover(Tail(Queues(c, earlier)[k - 1]), Visited(cps, k), new.state)
      /\ \A i \in DOMAIN Append(earlier, new) :
           \/ Append(earlier, new)[i] = new
           \/ i \in DOMAIN cps /\ Append(earlier, new)[i] = cps[i]
  <2>1. cps[k].versions[cps[k].stream] < v
    BY <1>4
  <2>2. earlier = Earlier(cps, k) /\ new = Folded(cps, k, v)
    OBVIOUS
  <2> HIDE DEF cps, k, v, earlier, new
  <2>3. QED
    BY <1>6, <1>7, <1>8, <2>1, <2>2, TailFolds
<1> HIDE DEF earlier, new
<1>10. CallOK(c)'
  BY <1>4, <1>5, <1>9 DEF CallOK
<1>11. CallTyped(c)'
  <2>1. new.state \in Seq(Event)
    BY <1>9 DEF CheckpointSet
  <2>2. \A i \in DOMAIN cps : IsCheckpoint(cps[i], log)
    BY <1>5, <1>7 DEF CallTyped, IsSnapshot, NoSnapshot
  <2>3. AtMost(new.versions, log)
    <3>1. AtMost(cps[k].versions, log)
      BY <1>7, <2>2 DEF IsCheckpoint
    <3>2. new.versions = Insert(cps[k].versions, cps[k].stream, v)
      BY DEF new, Folded
    <3>3. v \in 0..v
      BY <1>8
    <3>4. QED
      BY <1>8, <3>1, <3>2, <3>3 DEF AtMost, Insert
  <2>4. IsCheckpoint(new, log)
    <3>1. new.stream = cps[k].stream
      BY DEF new, Folded
    <3>2. QED
      BY <1>8, <2>1, <2>3, <3>1 DEF IsCheckpoint
  <2>5. \A i \in DOMAIN Append(earlier, new) : IsCheckpoint(Append(earlier, new)[i], log)
    BY <1>9, <2>2, <2>4
  <2>6. QED
    BY <1>4, <1>5, <1>9, <2>1, <2>3, <2>5 DEF CallTyped
<1>12. QED
  BY <1>1, <1>2, <1>3, <1>10, <1>11, StepOf

LEMMA ReuseStep ==
  ASSUME IInv, NEW c \in Commands, Reuse(c)
  PROVE  IInv'
<1> DEFINE snap == snapshot[c]
<1>1. Grows /\ StoredOK'
  BY GrowsSame, StoredStaysOK DEF Reuse
<1>2. \A d \in Commands \ {c} : Untouched(d)
  BY DEF Reuse, Goto, IInv, Typed, Untouched
<1>3. Typed'
  BY DEF Reuse, Goto, IInv, Typed, Phases
<1>4. /\ phase[c] = "Checking" /\ phase'[c] = "Handling"
      /\ index'[c] = index[c] /\ snapshot'[c] = snap /\ queue'[c] = queue[c]
      /\ state'[c] = snap.state /\ expected'[c] = snap.versions
      /\ checkpoints'[c] = checkpoints[c]
      /\ log' = log /\ decided'[c] = decided[c]
  BY DEF Reuse, Goto, IInv, Typed
<1>5. CallTyped(c) /\ CallOK(c)
  BY DEF IInv
<1>6. Complete(c, snap.checkpoints, snap.state, snap.versions) /\ decided[c] = {}
  BY <1>4, <1>5 DEF CallOK
<1>7. snap.state \in Seq(Event)
  BY <1>6, AfterType DEF Complete, Partial
<1>8. AtMost(snap.versions, log)
  BY <1>5 DEF CallTyped, IsSnapshot, NoSnapshot, NoVersions, AtMost
<1>9. CallTyped(c)'
  BY <1>4, <1>5, <1>7, <1>8 DEF CallTyped
<1>10. CallOK(c)'
  BY <1>4, <1>6 DEF CallOK
<1>11. QED
  BY <1>1, <1>2, <1>3, <1>9, <1>10, StepOf

LEMMA ReplayStreamStep ==
  ASSUME IInv, NEW c \in Commands, ReplayStream(c)
  PROVE  IInv'
<1> DEFINE cps == checkpoints[c]
           s == Head(queue[c])
           v == log[s]
           new == Extension(cps, s, v)
<1>1. Grows /\ StoredOK'
  BY GrowsSame, StoredStaysOK DEF ReplayStream
<1>2. CallTyped(c) /\ CallOK(c) /\ Typed
  BY DEF IInv
<1>3. /\ phase[c] = "Replaying" /\ queue[c] # << >>
      /\ Chain(cps) /\ Follows(c, cps)
      /\ state[c] = StateAfter(cps) /\ expected[c] = VersionsAfter(cps)
      /\ queue[c] = Remaining(c, cps)
      /\ decided[c] = {}
  BY <1>2 DEF ReplayStream, CallOK, Partial
<1>4. NextIs(c, cps, s)
  BY <1>3 DEF NextIs
<1>5. DOMAIN expected[c] = Visited(cps, Len(cps))
  BY <1>3, AfterType
<1>6. s \in Streams /\ s \notin Visited(cps, Len(cps))
  <2>1. cps \in Seq(CheckpointSet) /\ Len(cps) \in Nat
    BY <1>3 DEF Chain
  <2>2. Fresh(Remaining(c, cps), Visited(cps, Len(cps)))
    BY <1>3, <2>1, QueuesFresh DEF Remaining
  <2>3. QED
    BY <1>3, <2>2, TailFresh
<1>7. v \in 0..MaxVersion
  BY <1>2, <1>6 DEF Typed
<1>8. /\ new \in CheckpointSet
      /\ Longer(cps, s, v) \in Seq(CheckpointSet)
      /\ Partial(c, Longer(cps, s, v), new.state, new.versions)
      /\ Remaining(c, Longer(cps, s, v)) \in Seq(Streams)
      /\ Remaining(c, Longer(cps, s, v))
           = Discover(Tail(Remaining(c, cps)), Visited(cps, Len(cps)) \cup {s}, new.state)
  <2> HIDE DEF cps, s, v
  <2>1. QED
    BY <1>3, <1>4, <1>7, FollowsExtends
<1>9. new = [stream |-> s, state |-> state[c] \o Events(s, 1, v),
             versions |-> Insert(expected[c], s, v)]
  BY <1>3 DEF Extension
<1> HIDE DEF new
<1>10. /\ state' = [state EXCEPT ![c] = new.state]
       /\ expected' = [expected EXCEPT ![c] = new.versions]
       /\ checkpoints' = [checkpoints EXCEPT ![c] = Append(@, new)]
       /\ queue' = [queue EXCEPT ![c] =
                      Discover(Tail(@), DOMAIN expected[c] \cup {s}, new.state)]
       /\ UNCHANGED << log, stored, phase, attempt, snapshot, index, replaces, decided,
                       outcome >>
  BY <1>5, <1>6, <1>9 DEF ReplayStream
<1>11. \A d \in Commands \ {c} : Untouched(d)
  BY <1>2, <1>10 DEF Typed, Untouched
<1>12. Typed'
  BY <1>2, <1>10 DEF Typed
<1>13. /\ phase'[c] = "Replaying" /\ index'[c] = index[c] /\ snapshot'[c] = snapshot[c]
       /\ state'[c] = new.state /\ expected'[c] = new.versions
       /\ checkpoints'[c] = Longer(cps, s, v)
       /\ queue'[c] = Remaining(c, Longer(cps, s, v))
       /\ log' = log /\ decided'[c] = {}
  <2>1. /\ phase'[c] = "Replaying" /\ index'[c] = index[c] /\ snapshot'[c] = snapshot[c]
        /\ state'[c] = new.state /\ expected'[c] = new.versions
        /\ checkpoints'[c] = Append(cps, new)
        /\ queue'[c] = Discover(Tail(queue[c]), DOMAIN expected[c] \cup {s}, new.state)
        /\ log' = log /\ decided'[c] = {}
    BY <1>2, <1>3, <1>10 DEF Typed
  <2>2. Append(cps, new) = Longer(cps, s, v)
    BY DEF Longer, new
  <2>3. QED
    BY <1>3, <1>5, <1>8, <2>1, <2>2
<1>14. CallOK(c)'
  BY <1>8, <1>13 DEF CallOK
<1>15. CallTyped(c)'
  <2>1. new.state \in Seq(Event)
    BY <1>8 DEF CheckpointSet
  <2>2. AtMost(new.versions, log)
    <3>1. AtMost(expected[c], log) /\ v \in 0..v
      BY <1>2, <1>7 DEF CallTyped
    <3>2. new.versions = Insert(expected[c], s, v)
      BY <1>9
    <3>3. QED
      BY <1>6, <3>1, <3>2 DEF AtMost, Insert
  <2>3. IsCheckpoint(new, log)
    BY <1>6, <1>9, <2>1, <2>2 DEF IsCheckpoint
  <2>4. \A i \in DOMAIN Longer(cps, s, v) : IsCheckpoint(Longer(cps, s, v)[i], log)
    <3>1. \A i \in DOMAIN cps : IsCheckpoint(cps[i], log)
      BY <1>2 DEF CallTyped
    <3>2. cps \in Seq(CheckpointSet)
      BY <1>3 DEF Chain
    <3>3. ASSUME NEW i \in DOMAIN Append(cps, new)
          PROVE  Append(cps, new)[i] = new \/ (i \in DOMAIN cps /\ Append(cps, new)[i] = cps[i])
      BY <1>8, <3>2
    <3>4. QED
      BY <2>3, <3>1, <3>3 DEF Longer, new
  <2>5. QED
    BY <1>2, <1>8, <1>13, <2>1, <2>2, <2>4 DEF CallTyped
<1>16. QED
  BY <1>1, <1>11, <1>12, <1>14, <1>15, StepOf

LEMMA ReplayDoneStep ==
  ASSUME IInv, NEW c \in Commands, ReplayDone(c)
  PROVE  IInv'
<1>1. Grows /\ StoredOK'
  BY GrowsSame, StoredStaysOK DEF ReplayDone
<1>2. \A d \in Commands \ {c} : Untouched(d)
  BY DEF ReplayDone, Goto, IInv, Typed, Untouched, locals
<1>3. Typed'
  BY DEF ReplayDone, Goto, IInv, Typed, Phases, locals
<1>4. /\ phase[c] = "Replaying" /\ phase'[c] \in {"Saving", "Handling"}
      /\ index'[c] = index[c] /\ snapshot'[c] = snapshot[c] /\ queue'[c] = queue[c]
      /\ state'[c] = state[c] /\ expected'[c] = expected[c]
      /\ checkpoints'[c] = checkpoints[c]
      /\ log' = log /\ decided'[c] = decided[c] /\ queue[c] = << >>
  BY DEF ReplayDone, Goto, IInv, Typed, locals
<1>5. CallTyped(c) /\ CallOK(c)
  BY DEF IInv
<1>6. Complete(c, checkpoints[c], state[c], expected[c]) /\ decided[c] = {}
  BY <1>4, <1>5 DEF CallOK, Complete
<1>7. CallTyped(c)'
  BY <1>4, <1>5 DEF CallTyped
<1>8. CallOK(c)'
  BY <1>4, <1>6 DEF CallOK
<1>9. QED
  BY <1>1, <1>2, <1>3, <1>7, <1>8, StepOf

(***************************************************************************)
(* What is saved is complete, and no later than the streams are.           *)
(***************************************************************************)
LEMMA SavedOK ==
  ASSUME IInv, NEW c \in Commands, phase[c] = "Saving", Saved(c), UNCHANGED log
  PROVE  StoredOK'
<1>1. CallTyped(c) /\ CallOK(c) /\ StoredOK
  BY DEF IInv
<1> DEFINE new == Replacement(c)
<1>2. Complete(c, new.checkpoints, new.state, new.versions)
  BY <1>1 DEF CallOK, Replacement
<1>3. IsSnapshot(new, log)
  BY <1>1 DEF IsSnapshot, CallTyped, Replacement
<1>4. stored' = new \/ stored' = stored
  BY DEF Saved
<1> HIDE DEF new
<1>5. CASE stored' = new
  BY <1>2, <1>3, <1>5 DEF StoredOK
<1>6. CASE stored' = stored
  BY <1>1, <1>6 DEF StoredOK
<1>7. QED
  BY <1>4, <1>5, <1>6

LEMMA SaveStep ==
  ASSUME IInv, NEW c \in Commands, Save(c)
  PROVE  IInv'
<1>1. Grows /\ StoredOK'
  BY GrowsSame, SavedOK DEF Save
<1>2. \A d \in Commands \ {c} : Untouched(d)
  BY DEF Save, Goto, IInv, Typed, Untouched, locals
<1>3. Typed'
  BY DEF Save, Goto, IInv, Typed, Phases, locals
<1>4. /\ phase[c] = "Saving" /\ phase'[c] = "Handling"
      /\ index'[c] = index[c] /\ snapshot'[c] = snapshot[c] /\ queue'[c] = queue[c]
      /\ state'[c] = state[c] /\ expected'[c] = expected[c]
      /\ checkpoints'[c] = checkpoints[c]
      /\ log' = log /\ decided'[c] = decided[c]
  BY DEF Save, Goto, IInv, Typed, locals
<1>5. CallTyped(c) /\ CallOK(c)
  BY DEF IInv
<1>6. CallTyped(c)'
  BY <1>4, <1>5 DEF CallTyped
<1>7. CallOK(c)'
  BY <1>4, <1>5 DEF CallOK
<1>8. QED
  BY <1>1, <1>2, <1>3, <1>6, <1>7, StepOf

LEMMA SaveFailsStep ==
  ASSUME IInv, NEW c \in Commands, SaveFails(c)
  PROVE  IInv'
<1>1. Grows /\ StoredOK'
  BY GrowsSame, SavedOK DEF SaveFails
<1>2. /\ Return(c, "StoreError") /\ "StoreError" \in Outcomes
      /\ UNCHANGED << attempt, decided >>
  BY DEF SaveFails, Outcomes
<1>3. DOMAIN decided' = Commands /\ \A d \in Commands \ {c} : decided'[d] = decided[d]
  BY <1>2 DEF IInv, Typed
<1>4. QED
  BY <1>1, <1>2, <1>3, ReturnStep

LEMMA ReturnsStep ==
  ASSUME IInv, NEW c \in Commands, NEW answer \in Outcomes, Return(c, answer),
         UNCHANGED << log, stored, attempt, decided >>
  PROVE  IInv'
<1>1. Grows /\ StoredOK'
  BY GrowsSame, StoredStaysOK
<1>2. DOMAIN decided' = Commands /\ \A d \in Commands \ {c} : decided'[d] = decided[d]
  BY DEF IInv, Typed
<1>3. QED
  BY <1>1, <1>2, ReturnStep

(***************************************************************************)
(* An append adds to each stream as many events as its batch has for it.   *)
(***************************************************************************)
LEMMA ExtendedGrows ==
  ASSUME Typed, NEW batch \in Seq(Streams), log' = Extended(batch),
         \A s \in Streams : Extended(batch)[s] <= MaxVersion
  PROVE  Grows
<1>1. ASSUME NEW s \in Streams
      PROVE  Cardinality({ i \in DOMAIN batch : batch[i] = s }) \in Nat
  <2>1. DOMAIN batch = 1..Len(batch) /\ Len(batch) \in Int /\ 1 \in Int
    OBVIOUS
  <2>2. IsFiniteSet(DOMAIN batch)
    BY <2>1, FS_Interval
  <2>3. IsFiniteSet({ i \in DOMAIN batch : batch[i] = s })
    BY <2>2, FS_Subset
  <2>4. QED
    BY <2>3, FS_CardinalityType
<1>2. ASSUME NEW s \in Streams
      PROVE  log'[s] \in 0..MaxVersion /\ log[s] <= log'[s]
  <2>1. log'[s] = log[s] + Cardinality({ i \in DOMAIN batch : batch[i] = s })
    BY DEF Extended
  <2>2. log[s] \in 0..MaxVersion /\ log'[s] <= MaxVersion
    BY DEF Typed
  <2>3. QED
    BY <1>1, <2>1, <2>2, VersionAssumption
<1>3. log' \in [Streams -> 0..MaxVersion]
  BY <1>2 DEF Extended
<1>4. QED
  BY <1>2, <1>3 DEF Grows, Typed

LEMMA AppendLandsStep ==
  ASSUME IInv, NEW c \in Commands, AppendLands(c)
  PROVE  IInv'
<1>1. PICK batch \in Batches[c] \ {<< >>} : MayEmit(c, batch) /\ Lands(c, batch)
  BY DEF AppendLands
<1>2. batch \in Seq(Streams)
  BY BatchesAssumption
<1>3. Typed
  BY DEF IInv
<1>4. Grows
  BY <1>1, <1>2, <1>3, ExtendedGrows DEF Lands
<1>5. StoredOK'
  BY <1>4, StoredStaysOK DEF AppendLands
<1>6. DOMAIN decided' = Commands /\ \A d \in Commands \ {c} : decided'[d] = decided[d]
  BY <1>1, <1>3 DEF Lands, Typed
<1>7. PICK answer \in {"Ok", "StoreError"} : Return(c, answer)
  BY DEF AppendLands
<1>8. answer \in Outcomes /\ UNCHANGED attempt
  BY DEF AppendLands, Outcomes
<1>9. QED
  BY <1>4, <1>5, <1>6, <1>7, <1>8, ReturnStep

LEMMA ConflictStep ==
  ASSUME IInv, NEW c \in Commands, Conflict(c)
  PROVE  IInv'
<1>1. CASE ~MayRetry(c)
  <2>1. /\ Return(c, "Concurrency") /\ "Concurrency" \in Outcomes
        /\ UNCHANGED << log, stored, attempt, decided >>
    BY <1>1 DEF Conflict, Outcomes
  <2>2. QED
    BY <2>1, ReturnsStep
<1>2. CASE MayRetry(c)
  <2>1. Grows /\ StoredOK'
    BY GrowsSame, StoredStaysOK DEF Conflict
  <2>2. \A d \in Commands \ {c} : Untouched(d)
    BY <1>2 DEF Conflict, Goto, Forget, IInv, Typed, Untouched
  <2>3. Typed'
    <3>1. attempt[c] + 1 \in 0..MaxRetries
      BY <1>2, RetryAssumption DEF MayRetry, IInv, Typed
    <3>2. attempt' \in [Commands -> 0..MaxRetries]
      BY <1>2, <3>1 DEF Conflict, IInv, Typed
    <3>3. QED
      BY <1>2, <3>2 DEF Conflict, Goto, Forget, IInv, Typed, Phases
  <2>4. /\ phase[c] = "Handling" /\ phase'[c] = "Loading"
        /\ snapshot'[c] = NoSnapshot /\ index'[c] = 1
        /\ queue'[c] = << >> /\ state'[c] = << >> /\ expected'[c] = NoVersions
        /\ checkpoints'[c] = << >> /\ decided'[c] = decided[c]
    BY <1>2 DEF Conflict, Goto, Forget, IInv, Typed
  <2>5. CallTyped(c)'
    <3>1. IsSnapshot(NoSnapshot, log')
      BY DEF IsSnapshot
    <3>2. NoSnapshot.checkpoints = << >> /\ Len(<< >>) = 0 /\ DOMAIN << >> = {}
      BY DEF NoSnapshot
    <3>3. AtMost(NoVersions, log')
      BY DEF AtMost, NoVersions
    <3>4. << >> \in Seq(Streams) /\ << >> \in Seq(Event)
      OBVIOUS
    <3>5. 1 \in 1..(Len(NoSnapshot.checkpoints) + 1)
      BY <3>2
    <3>6. QED
      BY <2>4, <3>1, <3>2, <3>3, <3>4, <3>5 DEF CallTyped
  <2>6. CallOK(c)'
    <3>1. decided[c] = {}
      BY <2>4 DEF IInv, CallOK
    <3>2. QED
      BY <2>4, <3>1 DEF CallOK, Blank
  <2>7. QED
    BY <2>1, <2>2, <2>3, <2>5, <2>6, StepOf
<1>3. QED
  BY <1>1, <1>2

LEMMA OthersStep ==
  ASSUME IInv, Grows, UNCHANGED << stored, phase, attempt, locals, decided, outcome >>
  PROVE  IInv'
<1>1. StoredOK'
  BY StoredStaysOK
<1>2. Typed'
  BY DEF IInv, Typed, Grows, locals
<1>3. ASSUME NEW d \in Commands
      PROVE  CallTyped(d)' /\ CallOK(d)'
  <2>1. Untouched(d)
    BY DEF Untouched, locals
  <2>2. QED
    BY <2>1, UntouchedStaysOK DEF IInv
<1>4. QED
  BY <1>1, <1>2, <1>3 DEF IInv

LEMMA PublishStep ==
  ASSUME IInv, NEW s \in Streams, Publish(s)
  PROVE  IInv'
<1>1. log \in [Streams -> 0..MaxVersion]
  BY DEF IInv, Typed
<1>2. log' = [log EXCEPT ![s] = @ + 1] /\ log[s] + 1 \in 0..MaxVersion
  BY <1>1, VersionAssumption DEF Publish
<1>3. Grows
  <2>1. \A t \in Streams : log[t] \in Int /\ log[t] <= log'[t]
    BY <1>1, <1>2, VersionAssumption
  <2>2. QED
    BY <1>1, <1>2, <2>1 DEF Grows
<1>4. QED
  BY <1>3, OthersStep DEF Publish

LEMMA InitOK ==
  ASSUME Init
  PROVE  IInv
<1>1. Typed
  BY VersionAssumption, RetryAssumption DEF Init, Typed, Phases, Outcomes
<1>2. StoredOK
  BY DEF Init, StoredOK, IsSnapshot
<1>3. ASSUME NEW c \in Commands
      PROVE  CallTyped(c) /\ CallOK(c)
  <2>1. /\ phase[c] = "Loading" /\ snapshot[c] = NoSnapshot /\ index[c] = 1
        /\ queue[c] = << >> /\ state[c] = << >> /\ expected[c] = NoVersions
        /\ checkpoints[c] = << >> /\ decided[c] = {}
    BY DEF Init
  <2>2. IsSnapshot(NoSnapshot, log)
    BY DEF IsSnapshot
  <2>3. NoSnapshot.checkpoints = << >> /\ Len(<< >>) = 0 /\ DOMAIN << >> = {}
    BY DEF NoSnapshot
  <2>4. AtMost(NoVersions, log)
    BY DEF AtMost, NoVersions
  <2>5. << >> \in Seq(Streams) /\ << >> \in Seq(Event)
    OBVIOUS
  <2>6. 1 \in 1..(Len(NoSnapshot.checkpoints) + 1)
    BY <2>3
  <2>7. QED
    BY <2>1, <2>2, <2>3, <2>4, <2>5, <2>6 DEF CallTyped, CallOK, Blank
<1>4. QED
  BY <1>1, <1>2, <1>3 DEF IInv

LEMMA NextOK ==
  ASSUME IInv, [Next]_vars
  PROVE  IInv'
<1>1. ASSUME NEW c \in Commands, Reconstruct(c)
      PROVE  IInv'
  BY <1>1, LoadStep, NoTailStep, FoldTailStep, ReuseStep, ReplayStreamStep, ReplayDoneStep
     DEF Reconstruct
<1>2. ASSUME NEW c \in Commands, Decide(c)
      PROVE  IInv'
  <2>1. CASE HandlerRejects(c)
    <3>1. "Rejected" \in Outcomes
      BY DEF Outcomes
    <3>2. QED
      BY <2>1, <3>1, ReturnsStep DEF HandlerRejects
  <2>2. CASE UndeclaredStream(c)
    <3>1. "StoreError" \in Outcomes
      BY DEF Outcomes
    <3>2. QED
      BY <2>2, <3>1, ReturnsStep DEF UndeclaredStream
  <2>3. CASE AppendNothing(c)
    <3>1. "Ok" \in Outcomes
      BY DEF Outcomes
    <3>2. QED
      BY <2>3, <3>1, ReturnsStep DEF AppendNothing
  <2>4. QED
    BY <1>2, <2>1, <2>2, <2>3, AppendLandsStep, ConflictStep DEF Decide
<1>3. ASSUME NEW c \in Commands, Fails(c)
      PROVE  IInv'
  <2>1. "StoreError" \in Outcomes
    BY DEF Outcomes
  <2>2. QED
    BY <1>3, <2>1, ReturnsStep DEF Fails
<1>4. CASE UNCHANGED vars
  <2>1. Grows
    BY <1>4, GrowsSame DEF vars
  <2>2. QED
    BY <1>4, <2>1, OthersStep DEF vars
<1>5. QED
  BY <1>1, <1>2, <1>3, <1>4, SaveStep, SaveFailsStep, PublishStep
     DEF Next, Progress, AllReturned

LEMMA Invariance == Spec => []IInv
  BY InitOK, NextOK, PTL DEF Spec

-------------------------------------------------------------------------------
(***************************************************************************)
(* Every variable has its type in every reachable state, no snapshot names *)
(* a version its stream has not reached, and no call retries more than     *)
(* max_retries times.                                                      *)
(***************************************************************************)
THEOREM TypeCorrect == Spec => []TypeOK
<1>1. IInv => TypeOK
  BY DEF IInv, Typed, StoredOK, CallTyped, TypeOK
<1>2. QED
  BY Invariance, <1>1, PTL

(***************************************************************************)
(* handle is given what a full replay of the versions it will append       *)
(* against computes, whichever mixture of snapshot, folded tail and        *)
(* replayed streams the state came from, and after any number of retries.  *)
(***************************************************************************)
LEMMA ReplayOfVersions ==
  ASSUME NEW c \in Commands, NEW cps, NEW st, NEW versions,
         Complete(c, cps, st, versions)
  PROVE  IsReplayFor(c, st, versions)
<1>1. DOMAIN versions \subseteq Streams
  BY AfterType DEF Complete, Partial
<1>2. \A s \in DOMAIN versions : Lengths(versions)[s] = versions[s]
  BY <1>1 DEF Lengths
<1>3. QED
  BY <1>2, ReplayOfChain DEF IsReplayFor

THEOREM DecisionsAreReplays == Spec => []DecidesOnReplay
<1>1. ASSUME IInv, NEW c \in Commands, phase[c] = "Handling"
      PROVE  IsReplayFor(c, state[c], expected[c])
  BY <1>1, ReplayOfVersions DEF IInv, CallOK
<1>2. IInv => DecidesOnReplay
  BY <1>1 DEF DecidesOnReplay
<1>3. QED
  BY Invariance, <1>2, PTL

(***************************************************************************)
(* Whatever the interleaving of partial replays, saves and retries, the    *)
(* stored snapshot is the full replay of one command at the versions it    *)
(* names, and so is each of its checkpoints, in part.                      *)
(***************************************************************************)
THEOREM StoredReplays == Spec => []StoredIsReplay
<1>1. ASSUME IInv, stored # NoSnapshot
      PROVE  StoredIsReplay
  <2> DEFINE cps == stored.checkpoints
  <2>1. PICK c \in Commands : Complete(c, cps, stored.state, stored.versions)
    BY <1>1 DEF IInv, StoredOK
  <2>2. /\ Chain(cps) /\ stored.state = StateAfter(cps)
        /\ stored.versions = VersionsAfter(cps)
    BY <2>1 DEF Complete, Partial
  <2>3. ReplayOrderIsValid(c, stored)
    BY <2>1, <2>2, ValidityIsExact
  <2>4. IsReplayFor(c, stored.state, stored.versions)
    BY <2>1, ReplayOfVersions
  <2>5. ASSUME NEW i \in DOMAIN cps
        PROVE  /\ cps[i].state = SubSeq(stored.state, 1, Len(cps[i].state))
               /\ \A s \in DOMAIN cps[i].versions :
                    cps[i].versions[s] = stored.versions[s]
    <3>1. cps \in Seq(CheckpointSet) /\ i \in 1..Len(cps)
      BY <2>2 DEF Chain
    <3>2. cps[i].state \in Seq(Event)
      BY <3>1, CheckpointType
    <3>3. /\ stored.state \in Seq(Event)
          /\ StartsWith(stored.state, cps[i].state)
          /\ \A s \in DOMAIN cps[i].versions : stored.versions[s] = cps[i].versions[s]
      BY <2>2, <3>1, AfterType
    <3>4. QED
      BY <3>2, <3>3, StartsWithSubSeq
  <2>6. QED
    BY <2>3, <2>4, <2>5 DEF StoredIsReplay
<1>2. IInv => StoredIsReplay
  BY <1>1 DEF StoredIsReplay
<1>3. QED
  BY Invariance, <1>2, PTL

LEMMA LandingIsRun ==
  ASSUME IInv, NEW c \in Commands, AppendLands(c)
  PROVE  Promise!Run(c)
<1>1. PICK batch \in Batches[c] \ {<< >>} : MayEmit(c, batch) /\ Lands(c, batch)
  BY DEF AppendLands
<1>2. phase[c] = "Handling" /\ CallOK(c)
  BY DEF AppendLands, IInv
<1>3. decided[c] = {}
  BY <1>2 DEF CallOK
<1>4. log' = Promise!Extended(batch)
  <2>1. log' = Extended(batch)
    BY <1>1 DEF Lands
  <2>2. Promise!Extended(batch) = Extended(batch)
    BY Zenon, SameOperators DEF Promise!Extended, Extended
  <2>3. QED
    BY <2>1, <2>2
<1>5. PICK cps : Complete(c, cps, state[c], expected[c])
  BY <1>2 DEF CallOK
<1>6. \A s \in DOMAIN expected[c] : log[s] = expected[c][s]
  BY <1>1 DEF Lands, VersionsMatch
<1> DEFINE replay == Promise!FullReplay(Declared[c], log)
<1>7. replay.state = state[c] /\ ToSet(replay.order) = DOMAIN expected[c]
  BY <1>5, <1>6, ReplayOfChain
<1> HIDE DEF replay
<1>8. Promise!ToSet(batch) \subseteq Promise!ToSet(replay.order)
  BY <1>1, <1>7, SameOperators DEF MayEmit
<1>9. decided' = [decided EXCEPT ![c] = {replay.state}]
  BY <1>1, <1>7 DEF Lands
<1>10. QED
  BY <1>3, <1>4, <1>8, <1>9 DEF Promise!Run, replay

(***************************************************************************)
(* A command with a snapshot implements the command without one that runs  *)
(* alone: whatever it appends was decided on the state that a full replay  *)
(* of the streams as they are at that instant computes, in the order the   *)
(* executor discovers them.                                                *)
(***************************************************************************)
THEOREM ImplementsSerialReplay == Spec => RunsSerially
<1>1. Init => Promise!Init
  BY DEF Init, Promise!Init
<1>2. ASSUME IInv, [Next]_vars
      PROVE  [Promise!Next]_(Promise!vars)
  <2>1. ASSUME NEW c \in Commands, AppendLands(c)
        PROVE  Promise!Next
    BY <1>2, <2>1, LandingIsRun DEF Promise!Next
  <2>2. ASSUME NEW s \in Streams, Publish(s)
        PROVE  Promise!Next
    <3>1. Promise!Publish(s)
      BY <2>2 DEF Publish, Promise!Publish
    <3>2. QED
      BY <3>1 DEF Promise!Next
  <2>3. \/ \E c \in Commands : AppendLands(c)
        \/ \E s \in Streams : Publish(s)
        \/ UNCHANGED << log, decided >>
    BY <1>2 DEF Next, Progress, Reconstruct, Decide, Load, ReplayAll, NoTail, FoldTail, Reuse,
                ReplayStream, ReplayDone, Save, SaveFails, Fails, HandlerRejects,
                UndeclaredStream, AppendNothing, Conflict, AllReturned, vars
  <2>4. QED
    BY <2>1, <2>2, <2>3 DEF Promise!vars
<1>3. QED
  BY Invariance, <1>1, <1>2, PTL DEF Spec, RunsSerially, Promise!Spec
===============================================================================
