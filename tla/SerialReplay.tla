------------------------------ MODULE SerialReplay ------------------------------
(***************************************************************************)
(* What a command with a durable state snapshot promises: it behaves as if *)
(* it had no snapshot and ran alone.  It decides on the state that a full  *)
(* reconstruction of the present streams computes, in the order in which   *)
(* the executor discovers them.  SnapshotReplay implements this.           *)
(*                                                                         *)
(* A command's state is the sequence of the events folded into it: apply   *)
(* need not be commutative, and this is the finest state there is.  The    *)
(* v-th event of stream s is << s, v >>.                                   *)
(***************************************************************************)
EXTENDS Integers, Sequences, FiniteSets, SequencesExt

CONSTANTS Commands,   \* the calls of `execute`
          Streams,    \* stream identifiers
          MaxVersion, \* bound on stream versions
          Declared,   \* Declared[c]: c's stream_declarations, in order
          Resolver,   \* the streams related to a state, given as its events
          Batches     \* Batches[c]: the batches c may emit, as their streams

VARIABLES log,    \* log[s]: the version of stream s
          decided \* decided[c]: the states c's events were decided on

vars == << log, decided >>

Events(s, first, last) == [i \in 1..(last - first + 1) |-> << s, first + i - 1 >>]

(***************************************************************************)
(* A stream is queued unless it has been scheduled before, that is,        *)
(* visited or queued.                                                      *)
(***************************************************************************)
Schedule(queue, visited, s) ==
  IF s \in visited \cup ToSet(queue) THEN queue ELSE Append(queue, s)

(***************************************************************************)
(* discover_related_streams: all streams related to a state are scheduled. *)
(***************************************************************************)
Discover(queue, visited, state) ==
  LET related == Resolver[ToSet(state)]
      after[i \in 0..Len(related)] ==
        IF i = 0 THEN queue ELSE Schedule(after[i - 1], visited, related[i])
  IN after[Len(related)]

(***************************************************************************)
(* A full reconstruction of streams of the given lengths.                  *)
(***************************************************************************)
Visit(replay, lengths) ==
  LET s == Head(replay.queue)
      order == Append(replay.order, s)
      state == replay.state \o Events(s, 1, lengths[s])
  IN IF replay.queue = << >> THEN replay
     ELSE [queue |-> Discover(Tail(replay.queue), ToSet(order), state),
           order |-> order, state |-> state]

FullReplay(declared, lengths) ==
  LET replay[n \in 0..Cardinality(Streams)] ==
        IF n = 0 THEN [queue |-> declared, order |-> << >>, state |-> << >>]
        ELSE Visit(replay[n - 1], lengths)
  IN replay[Cardinality(Streams)]

Extended(batch) ==
  [s \in Streams |-> log[s] + Cardinality({ i \in DOMAIN batch : batch[i] = s })]

Init == /\ log = [s \in Streams |-> 0]
        /\ decided = [c \in Commands |-> {}]

(***************************************************************************)
(* A command reconstructs, decides and appends in one step.                *)
(***************************************************************************)
Run(c) ==
  /\ decided[c] = {}
  /\ \E batch \in Batches[c] \ {<< >>} :
       /\ log' = Extended(batch)
       /\ LET replay == FullReplay(Declared[c], log)
          IN /\ ToSet(batch) \subseteq ToSet(replay.order)
             /\ decided' = [decided EXCEPT ![c] = {replay.state}]

(***************************************************************************)
(* A command without a snapshot appends an event.                          *)
(***************************************************************************)
Publish(s) == /\ log[s] < MaxVersion
              /\ log' = [log EXCEPT ![s] = @ + 1]
              /\ UNCHANGED decided

Next == (\E s \in Streams : Publish(s)) \/ (\E c \in Commands : Run(c))

Spec == Init /\ [][Next]_vars
===============================================================================
