------------------------------ MODULE AtomicAppend ------------------------------
(***************************************************************************)
(* What EventStore::append_events promises: the versions of all declared   *)
(* streams are compared and all events are written at one instant, or      *)
(* nothing is written at all.  PostgresAppend implements this.             *)
(***************************************************************************)
EXTENDS Integers, Sequences, FiniteSets

CONSTANTS Appends, \* calls of append_events
          Streams  \* the streams of the store

VARIABLES log,      \* log[s]: the append that wrote each version of stream s
          expected, \* expected[c]: the version c expects of each declared stream
          entries,  \* entries[c]: the streams of c's events, in order
          answer    \* what each call returned

vars == << log, expected, entries, answer >>

NoStreams == [s \in {} |-> 0]

Init ==
  /\ log = [s \in Streams |-> << >>]
  /\ expected = [c \in Appends |-> NoStreams]
  /\ entries = [c \in Appends |-> << >>]
  /\ answer = [c \in Appends |-> "none"]

Declared(c) == DOMAIN expected[c]

(***************************************************************************)
(* The versions were read earlier: they may be outdated.                   *)
(***************************************************************************)
Past(D) == { v \in [D -> UNION { 0..Len(log[s]) : s \in D }] :
               \A s \in D : v[s] <= Len(log[s]) }

Submit(c) ==
  /\ answer[c] = "none" /\ expected[c] = NoStreams
  /\ \E D \in SUBSET Streams : \E v \in Past(D) :
       expected' = [expected EXCEPT ![c] = v]
  /\ entries' = [entries EXCEPT ![c] = entries'[c]]
  /\ entries'[c] \in Seq(Streams)
  /\ UNCHANGED << log, answer >>

Current(c) == \A s \in Declared(c) : Len(log[s]) = expected[c][s]

Count(c, s) == Cardinality({ i \in DOMAIN entries[c] : entries[c][i] = s })

Extended(c) == [s \in Streams |-> log[s] \o [i \in 1..Count(c, s) |-> c]]

(***************************************************************************)
(* The one instant; its answer may be lost.                                *)
(***************************************************************************)
Land(c) ==
  /\ answer[c] = "none"
  /\ Current(c)
  /\ log' = Extended(c)
  /\ \E a \in {"ok", "failed"} : answer' = [answer EXCEPT ![c] = a]
  /\ UNCHANGED << expected, entries >>

Refuse(c) ==
  /\ answer[c] = "none"
  /\ \/ ~Current(c) /\ answer' = [answer EXCEPT ![c] = "conflict"]
     \/ answer' = [answer EXCEPT ![c] = "failed"]
     \/ entries[c] = << >> /\ answer' = [answer EXCEPT ![c] = "ok"]
  /\ UNCHANGED << log, expected, entries >>

Next == \E c \in Appends : Submit(c) \/ Land(c) \/ Refuse(c)

Spec == Init /\ [][Next]_vars
===============================================================================
