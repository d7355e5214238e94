----------------------------- MODULE SnapshotReplay -----------------------------
(***************************************************************************)
(* Commands with a durable state snapshot (execute_with_snapshot).  Each   *)
(* attempt loads the snapshot, validates its replay order, looks for the   *)
(* first stream that has grown, folds its tail into the checkpoint of that *)
(* stream and replays all later streams in full; without a usable snapshot *)
(* it replays everything.  The result is saved before the command decides. *)
(*                                                                         *)
(* All commands here use one snapshot identifier.  Reading a stream is one *)
(* step: a stream only grows at its end, so what is read is what it held   *)
(* when the read ended.  Of `visited` and `scheduled` the model keeps what *)
(* they always are: the streams in `expected`, and those or the queued.    *)
(***************************************************************************)
EXTENDS Integers, Sequences, FiniteSets, SequencesExt

CONSTANTS Commands, Streams, MaxVersion, Declared, Resolver, Batches,
          Threshold, \* COMMAND_STATE_SNAPSHOT_REFRESH_THRESHOLD (100 in the code)
          MaxRetries \* RetryPolicy::max_retries

Event == Streams \X (1..MaxVersion)

ASSUME StreamsAssumption == IsFiniteSet(Streams)
ASSUME VersionAssumption == MaxVersion \in Nat
ASSUME DeclaredAssumption ==
  \A c \in Commands : Declared[c] \in Seq(Streams) /\ IsInjective(Declared[c])
ASSUME ResolverAssumption ==
  DOMAIN Resolver = SUBSET Event /\ \A E \in SUBSET Event : Resolver[E] \in Seq(Streams)
ASSUME BatchesAssumption ==
  \A c \in Commands : \A b \in Batches[c] : b \in Seq(Streams)
ASSUME ThresholdAssumption == Threshold \in Nat \ {0}
ASSUME RetryAssumption == MaxRetries \in Nat

VARIABLES
  log,         \* the version of each stream
  stored,      \* the stored snapshot
  phase,       \* where each call is
  attempt,     \* attempt
  snapshot,    \* stored_snapshot
  index,       \* the checkpoint whose stream is read next
  queue,       \* streams still to be replayed
  state,       \* the state reconstructed so far
  expected,    \* expected_versions
  checkpoints, \* the replay checkpoints of this reconstruction
  replaces,    \* does the reconstruction start from a checkpoint?
  decided,     \* history: the states on which a call's events were decided
  outcome      \* what execute returned

locals == << snapshot, index, queue, state, expected, checkpoints, replaces >>
vars == << log, stored, phase, attempt, locals, decided, outcome >>

NoVersions == [s \in {} |-> 0]

NoSnapshot == [state |-> << >>, versions |-> NoVersions, checkpoints |-> << >>]

Init ==
  /\ log = [s \in Streams |-> 0]
  /\ stored = NoSnapshot
  /\ phase = [c \in Commands |-> "Loading"]
  /\ attempt = [c \in Commands |-> 0]
  /\ snapshot = [c \in Commands |-> NoSnapshot]
  /\ index = [c \in Commands |-> 1]
  /\ queue = [c \in Commands |-> << >>]
  /\ state = [c \in Commands |-> << >>]
  /\ expected = [c \in Commands |-> NoVersions]
  /\ checkpoints = [c \in Commands |-> << >>]
  /\ replaces = [c \in Commands |-> FALSE]
  /\ decided = [c \in Commands |-> {}]
  /\ outcome = [c \in Commands |-> "none"]

Goto(c, next) == phase' = [phase EXCEPT ![c] = next]

Forget(c) ==
  /\ snapshot' = [snapshot EXCEPT ![c] = NoSnapshot]
  /\ index' = [index EXCEPT ![c] = 1]
  /\ queue' = [queue EXCEPT ![c] = << >>]
  /\ state' = [state EXCEPT ![c] = << >>]
  /\ expected' = [expected EXCEPT ![c] = NoVersions]
  /\ checkpoints' = [checkpoints EXCEPT ![c] = << >>]
  /\ replaces' = [replaces EXCEPT ![c] = FALSE]

Return(c, answer) ==
  /\ Goto(c, "Done")
  /\ outcome' = [outcome EXCEPT ![c] = answer]
  /\ Forget(c)

-------------------------------------------------------------------------------
(***************************************************************************)
(* Events first..last of a stream.                                         *)
(***************************************************************************)
Events(s, first, last) == [i \in 1..(last - first + 1) |-> << s, first + i - 1 >>]

(***************************************************************************)
(* HashMap::insert.                                                        *)
(***************************************************************************)
Insert(versions, s, v) ==
  [t \in DOMAIN versions \cup {s} |-> IF t = s THEN v ELSE versions[t]]

(***************************************************************************)
(* Related streams are queued unless they were visited or are queued.      *)
(***************************************************************************)
Schedule(q, visited, s) == IF s \in visited \cup ToSet(q) THEN q ELSE Append(q, s)

Discover(q, visited, st) ==
  LET related == Resolver[ToSet(st)]
      after[i \in 0..Len(related)] ==
        IF i = 0 THEN q ELSE Schedule(after[i - 1], visited, related[i])
  IN after[Len(related)]

Visited(cps, n) == { cps[i].stream : i \in 1..n }

(***************************************************************************)
(* discovery_before_checkpoint: the queue after the first n checkpoints,   *)
(* rebuilt from their states.                                              *)
(***************************************************************************)
Advance(q, visited, st) == IF q = << >> THEN << >> ELSE Discover(Tail(q), visited, st)

Queues(c, cps) ==
  LET queues[n \in 0..Len(cps)] ==
        IF n = 0 THEN Declared[c]
        ELSE Advance(queues[n - 1], Visited(cps, n), cps[n].state)
  IN queues

(***************************************************************************)
(* snapshot_replay_order_is_valid: this command would visit the streams of *)
(* the checkpoints in their order, and no others.  (Mutant: as long as     *)
(* they are the same streams.)                                             *)
(***************************************************************************)
SameStreams(c, snap) == ToSet(Declared[c]) \subseteq DOMAIN snap.versions

ReplayOrderIsValid(c, snap) ==
  LET cps == snap.checkpoints
      queues == Queues(c, cps)
  IN /\ Cardinality(DOMAIN snap.versions) = Len(cps)
     /\ \A i \in DOMAIN cps :
          /\ queues[i - 1] # << >>
          /\ Head(queues[i - 1]) = cps[i].stream
          /\ cps[i].stream \notin Visited(cps, i - 1)
          /\ cps[i].stream \in DOMAIN cps[i].versions
     /\ queues[Len(cps)] = << >>
     /\ \A s \in DOMAIN snap.versions :
          /\ cps # << >> /\ s \in DOMAIN Last(cps).versions
          /\ Last(cps).versions[s] = snap.versions[s]

\* the new version vector includes the old one
Covers(new, old) ==
  \A s \in DOMAIN old.versions :
    s \in DOMAIN new.versions /\ new.versions[s] >= old.versions[s]
-------------------------------------------------------------------------------
(***************************************************************************)
(* Replay everything: a fresh reconstruction.                              *)
(***************************************************************************)
ReplayAll(c) ==
  /\ Goto(c, "Replaying")
  /\ queue' = [queue EXCEPT ![c] = Declared[c]]
  /\ UNCHANGED << snapshot, index, state, expected, checkpoints, replaces >>

(***************************************************************************)
(* Each attempt starts from the snapshot stored by then.                   *)
(***************************************************************************)
Load(c) ==
  /\ phase[c] = "Loading"
  /\ IF stored # NoSnapshot /\ ReplayOrderIsValid(c, stored)
     THEN /\ snapshot' = [snapshot EXCEPT ![c] = stored]
          /\ Goto(c, "Checking")
          /\ UNCHANGED << index, queue, state, expected, checkpoints, replaces >>
     ELSE ReplayAll(c)
  /\ UNCHANGED << log, stored, attempt, decided, outcome >>

Checkpoint(c) == snapshot[c].checkpoints[index[c]]

BaseVersion(c) == Checkpoint(c).versions[Checkpoint(c).stream]

IsLastCheckpoint(c) == index[c] > Len(snapshot[c].checkpoints)

(***************************************************************************)
(* The stream of this checkpoint has no tail: look at the next one.        *)
(***************************************************************************)
NoTail(c) ==
  /\ phase[c] = "Checking" /\ ~IsLastCheckpoint(c)
  /\ log[Checkpoint(c).stream] <= BaseVersion(c)
  /\ index' = [index EXCEPT ![c] = @ + 1]
  /\ UNCHANGED << log, stored, phase, attempt, snapshot, queue, state, expected,
                  checkpoints, replaces, decided, outcome >>

(***************************************************************************)
(* It has one: fold it into the checkpoint, and replay the later streams.  *)
(***************************************************************************)
FoldTail(c) ==
  /\ phase[c] = "Checking" /\ ~IsLastCheckpoint(c)
  /\ log[Checkpoint(c).stream] > BaseVersion(c)
  /\ LET cp == Checkpoint(c)
         earlier == SubSeq(snapshot[c].checkpoints, 1, index[c] - 1)
         new == [stream |-> cp.stream,
                 state |-> cp.state \o Events(cp.stream, BaseVersion(c) + 1, log[cp.stream]),
                 versions |-> Insert(cp.versions, cp.stream, log[cp.stream])]
     IN /\ state' = [state EXCEPT ![c] = new.state]
        /\ expected' = [expected EXCEPT ![c] = new.versions]
        /\ checkpoints' = [checkpoints EXCEPT ![c] = Append(earlier, new)]
        /\ queue' = [queue EXCEPT ![c] =
             Discover(Tail(Queues(c, earlier)[index[c] - 1]),
                      Visited(snapshot[c].checkpoints, index[c]), new.state)]
  /\ replaces' = [replaces EXCEPT ![c] = TRUE]
  /\ Goto(c, "Replaying")
  /\ UNCHANGED << log, stored, attempt, snapshot, index, decided, outcome >>

(***************************************************************************)
(* No stream has grown: the snapshot is the present state.                 *)
(***************************************************************************)
Reuse(c) ==
  /\ phase[c] = "Checking" /\ IsLastCheckpoint(c)
  /\ state' = [state EXCEPT ![c] = snapshot[c].state]
  /\ expected' = [expected EXCEPT ![c] = snapshot[c].versions]
  /\ Goto(c, "Handling")
  /\ UNCHANGED << log, stored, attempt, snapshot, index, queue, checkpoints, replaces,
                  decided, outcome >>

(***************************************************************************)
(* replay_remaining_streams: one stream from its beginning.                *)
(***************************************************************************)
ReplayStream(c) ==
  /\ phase[c] = "Replaying" /\ queue[c] # << >>
  /\ LET s == Head(queue[c])
         visited == DOMAIN expected[c] \cup {s}
     IN IF s \in DOMAIN expected[c]
        THEN /\ queue' = [queue EXCEPT ![c] = Tail(@)]
             /\ UNCHANGED << state, expected, checkpoints >>
        ELSE \E new \in {[stream |-> s,
                         state |-> state[c] \o Events(s, 1, log[s]),
                         versions |-> Insert(expected[c], s, log[s])]} :
             /\ state' = [state EXCEPT ![c] = new.state]
             /\ expected' = [expected EXCEPT ![c] = new.versions]
             /\ checkpoints' = [checkpoints EXCEPT ![c] = Append(@, new)]
             /\ queue' = [queue EXCEPT ![c] = Discover(Tail(@), visited, new.state)]
  /\ UNCHANGED << log, stored, phase, attempt, snapshot, index, replaces, decided,
                  outcome >>

(***************************************************************************)
(* A reconstruction from a checkpoint, or of at least Threshold events, is *)
(* saved; Len(state[c]) is then the number of replayed events.             *)
(***************************************************************************)
ReplayDone(c) ==
  /\ phase[c] = "Replaying" /\ queue[c] = << >>
  /\ Goto(c, IF replaces[c] \/ Len(state[c]) >= Threshold THEN "Saving" ELSE "Handling")
  /\ UNCHANGED << log, stored, attempt, locals, decided, outcome >>

(***************************************************************************)
(* What is saved.  (Mutant: with the checkpoints it started from.)         *)
(***************************************************************************)
OldCheckpoints(c) ==
  [state |-> state[c], versions |-> expected[c], checkpoints |-> snapshot[c].checkpoints]

Replacement(c) ==
  [state |-> state[c], versions |-> expected[c], checkpoints |-> checkpoints[c]]

Saved(c) ==
  stored' = IF stored = NoSnapshot \/ Covers(Replacement(c), stored)
            THEN Replacement(c) ELSE stored

(***************************************************************************)
(* The save precedes the decision; the store ignores it unless it covers   *)
(* what is stored.                                                         *)
(***************************************************************************)
Save(c) ==
  /\ phase[c] = "Saving"
  /\ Saved(c)
  /\ Goto(c, "Handling")
  /\ UNCHANGED << log, attempt, locals, decided, outcome >>

(***************************************************************************)
(* The save fails with effect (its acknowledgement is lost).               *)
(***************************************************************************)
SaveFails(c) ==
  /\ phase[c] = "Saving"
  /\ Saved(c)
  /\ Return(c, "StoreError")
  /\ UNCHANGED << log, attempt, decided >>

(***************************************************************************)
(* Any other operation of the store fails, or the call is dropped.         *)
(***************************************************************************)
Fails(c) ==
  /\ phase[c] # "Done"
  /\ Return(c, "StoreError")
  /\ UNCHANGED << log, stored, attempt, decided >>

-------------------------------------------------------------------------------
(***************************************************************************)
(* handle computes from the state alone and is followed by the append at   *)
(* once; a batch may write to streams that were read only.                 *)
(***************************************************************************)
MayEmit(c, batch) == batch \in Batches[c] /\ ToSet(batch) \subseteq DOMAIN expected[c]

HandlerRejects(c) ==
  /\ phase[c] = "Handling"
  /\ Return(c, "Rejected")
  /\ UNCHANGED << log, stored, attempt, decided >>

UndeclaredStream(c) ==
  /\ phase[c] = "Handling"
  /\ \E batch \in Batches[c] : ~MayEmit(c, batch)
  /\ Return(c, "StoreError")
  /\ UNCHANGED << log, stored, attempt, decided >>

VersionsMatch(c) == \A s \in DOMAIN expected[c] : log[s] = expected[c][s]

Extended(batch) ==
  [s \in Streams |-> log[s] + Cardinality({ i \in DOMAIN batch : batch[i] = s })]

Lands(c, batch) ==
  /\ VersionsMatch(c)
  /\ \A s \in Streams : Extended(batch)[s] <= MaxVersion
  /\ log' = Extended(batch)
  /\ decided' = [decided EXCEPT ![c] = {state[c]}]

(***************************************************************************)
(* The append takes effect; its acknowledgement may be lost.               *)
(***************************************************************************)
AppendLands(c) ==
  /\ phase[c] = "Handling"
  /\ \E batch \in Batches[c] \ {<< >>} : MayEmit(c, batch) /\ Lands(c, batch)
  /\ \E answer \in {"Ok", "StoreError"} : Return(c, answer)
  /\ UNCHANGED << stored, attempt >>

(***************************************************************************)
(* A batch without events: most stores answer Ok without a check.          *)
(***************************************************************************)
AppendNothing(c) ==
  /\ phase[c] = "Handling" /\ << >> \in Batches[c]
  /\ Return(c, "Ok")
  /\ UNCHANGED << log, stored, attempt, decided >>

(***************************************************************************)
(* A stream has moved on: another attempt, from the snapshot stored by     *)
(* then, or none is left.  (Mutant: the attempts are not counted.)         *)
(***************************************************************************)
AlwaysRetry(c) == TRUE

MayRetry(c) == attempt[c] < MaxRetries

Conflict(c) ==
  /\ phase[c] = "Handling" /\ ~VersionsMatch(c)
  /\ \E batch \in Batches[c] : MayEmit(c, batch)
  /\ IF MayRetry(c)
     THEN /\ attempt' = [attempt EXCEPT ![c] = @ + 1]
          /\ Goto(c, "Loading")
          /\ Forget(c)
          /\ UNCHANGED outcome
     ELSE Return(c, "Concurrency") /\ UNCHANGED attempt
  /\ UNCHANGED << log, stored, decided >>

-------------------------------------------------------------------------------
(***************************************************************************)
(* A command without a snapshot appends an event.                          *)
(***************************************************************************)
Publish(s) ==
  /\ log[s] < MaxVersion
  /\ log' = [log EXCEPT ![s] = @ + 1]
  /\ UNCHANGED << stored, phase, attempt, locals, decided, outcome >>

Reconstruct(c) ==
  Load(c) \/ NoTail(c) \/ FoldTail(c) \/ Reuse(c) \/ ReplayStream(c) \/ ReplayDone(c)

Decide(c) == HandlerRejects(c) \/ UndeclaredStream(c) \/ AppendLands(c)
             \/ AppendNothing(c) \/ Conflict(c)

Progress(c) == Reconstruct(c) \/ Save(c) \/ Decide(c)

AllReturned == (\A c \in Commands : phase[c] = "Done") /\ UNCHANGED vars

Next == \/ \E c \in Commands : Progress(c) \/ SaveFails(c) \/ Fails(c)
        \/ \E s \in Streams : Publish(s)
        \/ AllReturned

Spec == Init /\ [][Next]_vars
-------------------------------------------------------------------------------
Phases == {"Loading", "Checking", "Replaying", "Saving", "Handling", "Done"}

Outcomes == {"none", "Ok", "Concurrency", "Rejected", "StoreError"}

AtMost(versions, lengths) ==
  /\ DOMAIN versions \subseteq Streams
  /\ \A s \in DOMAIN versions : versions[s] \in 0..lengths[s]

IsCheckpoint(cp, lengths) ==
  /\ cp.stream \in Streams
  /\ cp.state \in Seq(Event)
  /\ AtMost(cp.versions, lengths)

IsSnapshot(snap, lengths) ==
  snap # NoSnapshot =>
    /\ snap.state \in Seq(Event)
    /\ AtMost(snap.versions, lengths)
    /\ \A i \in DOMAIN snap.checkpoints : IsCheckpoint(snap.checkpoints[i], lengths)

(***************************************************************************)
(* The types of all variables; no version is from the future, and retries  *)
(* are bounded.                                                            *)
(***************************************************************************)
TypeOK ==
  /\ log \in [Streams -> 0..MaxVersion]
  /\ IsSnapshot(stored, log)
  /\ phase \in [Commands -> Phases]
  /\ attempt \in [Commands -> 0..MaxRetries]
  /\ outcome \in [Commands -> Outcomes]
  /\ replaces \in [Commands -> BOOLEAN]
  /\ \A c \in Commands :
       /\ IsSnapshot(snapshot[c], log)
       /\ index[c] \in 1..(Len(snapshot[c].checkpoints) + 1)
       /\ queue[c] \in Seq(Streams)
       /\ state[c] \in Seq(Event)
       /\ AtMost(expected[c], log)
       /\ \A i \in DOMAIN checkpoints[c] : IsCheckpoint(checkpoints[c][i], log)

(***************************************************************************)
(* A command with a snapshot behaves as if it had none and ran alone:      *)
(* whatever it appends was decided on a full replay, in discovery order,   *)
(* of the streams as they are at that instant.                             *)
(***************************************************************************)
Promise == INSTANCE SerialReplay

RunsSerially == Promise!Spec

Lengths(versions) ==
  [s \in Streams |-> IF s \in DOMAIN versions THEN versions[s] ELSE 0]

IsReplayFor(c, st, versions) ==
  LET replay == Promise!FullReplay(Declared[c], Lengths(versions))
  IN /\ replay.queue = << >>
     /\ replay.state = st
     /\ ToSet(replay.order) = DOMAIN versions

(***************************************************************************)
(* What handle is given, also when it then rejects or emits nothing, is    *)
(* the state a full replay of the expected versions computes, events in    *)
(* the same grouped order, and no discovered stream is left out.           *)
(***************************************************************************)
DecidesOnReplay ==
  \A c \in Commands :
    phase[c] = "Handling" => IsReplayFor(c, state[c], expected[c])

(***************************************************************************)
(* The stored snapshot, its state and every checkpoint, is what some       *)
(* command's full replay of the versions it names computes: no             *)
(* interleaving of partial replays, saves and retries mixes two histories. *)
(***************************************************************************)
StoredIsReplay ==
  stored # NoSnapshot =>
    \E c \in Commands :
      /\ ReplayOrderIsValid(c, stored)
      /\ IsReplayFor(c, stored.state, stored.versions)
      /\ \A i \in DOMAIN stored.checkpoints :
           LET cp == stored.checkpoints[i]
           IN /\ cp.state = SubSeq(stored.state, 1, Len(cp.state))
              /\ \A s \in DOMAIN cp.versions : cp.versions[s] = stored.versions[s]
===============================================================================
