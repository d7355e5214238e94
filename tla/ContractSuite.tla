------------------------------ MODULE ContractSuite ------------------------------
(***************************************************************************)
(* The behavioural contract tests every backend runs.  A test is a script: *)
(* a sequence of calls on the store, each with the answer the test accepts *)
(* (`expects`) and what it demands of the events it is given.  `run` makes *)
(* the identifiers of a test its own, as the UUIDs in the code do.         *)
(*                                                                         *)
(* Sizes are scaled: 4 events stand for the 20 and the 50 that cross the   *)
(* page limit, 3 for the limit of 10.  An event is known by its stream.    *)
(***************************************************************************)
EXTENDS StreamFilters

ContractTestEvent == "ContractTestEvent"
MismatchedEvent == "MismatchedEvent"

Unlimited == 100   \* BatchSize::new(100): more than any test writes
PageLimit == 3
MoreThanAPage == 4

Stream(run, label) == << "contract", label, run >>

\* the words in names of streams that are the same in all runs
Words ==
  { "contract", "history", "single", "shared", "participant", "target", "left", "right", "ghost",
    "mismatched", "large", "stream", "stream-a", "stream-b", "stream-c", "account", "order", "my",
    "-", "1", "2", "7", "123", "456", "789", "a", "w", "x", "y", "z" }

\* none of them is another in a different letter case
ASSUME LetterCasesAssumption == \A s \in LetterCases : \A u, v \in s \cap Words : u = v

-------------------------------------------------------------------------------
(***************************************************************************)
(* The calls.  An append registers `versions` and carries one event for    *)
(* each entry of `batch`; reading a stream must give `count` events of     *)
(* type `type` (all of the stream itself where the test looks); reading    *)
(* events must give one from each set of `from`, in order.                 *)
(***************************************************************************)
AppendTo(versions, batch, expects) ==
  [op |-> "append", versions |-> versions, batch |-> batch, expects |-> expects]

Appends(versions, batch) == AppendTo(versions, batch, "Ok")

ReadsAfter(stream, after, count) ==
  [op |-> "readStream", stream |-> stream, after |-> after, type |-> ContractTestEvent,
   count |-> count, expects |-> "Ok"]

Reads(stream, count) == ReadsAfter(stream, 0, count)

ReadsMismatched(stream) ==
  [op |-> "readStream", stream |-> stream, after |-> 0, type |-> MismatchedEvent,
   count |-> 0, expects |-> "DeserializationFailed"]

\* `remember`: the index of the event whose position the test keeps, or 0;
\* `resume`: read after that position, and check that positions ascend from it
ReadsEvents(filter, limit, from, remember, resume) ==
  [op |-> "readEvents", filter |-> filter, limit |-> limit, from |-> from,
   remember |-> remember, resume |-> resume, expects |-> "Ok"]

Selects(filter, limit, from) == ReadsEvents(filter, limit, from, 0, FALSE)

SavesSnapshot(id, snapshot) ==
  [op |-> "saveSnapshot", id |-> id, snapshot |-> snapshot, expects |-> "Ok"]
LoadsSnapshot(id, found) ==
  [op |-> "loadSnapshot", id |-> id, found |-> found, expects |-> "Ok"]
SavesCheckpoint(name, position) ==
  [op |-> "saveCheckpoint", name |-> name, position |-> position, expects |-> "Ok"]
LoadsCheckpoint(name, found) ==
  [op |-> "loadCheckpoint", name |-> name, found |-> found, expects |-> "Ok"]
Acquires(name, expects) == [op |-> "acquire", name |-> name, expects |-> expects]
Drops(name) == [op |-> "drop", name |-> name, expects |-> "Ok"]

\* versions of the streams a batch registers
At(stream, version) == [s \in {stream} |-> version]
AtBoth(stream, version, other, itsVersion) ==
  [s \in {stream, other} |-> IF s = stream THEN version ELSE itsVersion]
AtZero(streams) == [s \in streams |-> 0]

Times(n, stream) == [i \in 1..n |-> stream]

-------------------------------------------------------------------------------
(***************************************************************************)
(* Command-state snapshots.                                                *)
(***************************************************************************)
NoSnapshot == [versions |-> << >>, balance |-> 0]

ContractSnapshot(primary, secondary, atPrimary, atSecondary, balance) ==
  [versions |-> AtBoth(primary, atPrimary, secondary, atSecondary), balance |-> balance]

SnapshotLoadMissing(run) == << LoadsSnapshot(run, NoSnapshot) >>

SnapshotRoundTripAndMonotonic(run) ==
  LET primary == Stream(run, "primary")
      secondary == Stream(run, "secondary")
      newer == ContractSnapshot(primary, secondary, 4, 9, 200)
      stale == ContractSnapshot(primary, secondary, 3, 8, 100)
  IN << SavesSnapshot(run, newer), SavesSnapshot(run, stale), LoadsSnapshot(run, newer) >>

-------------------------------------------------------------------------------
(***************************************************************************)
(* EventStore.                                                             *)
(***************************************************************************)
ReadStreamAfterExcludesReconstructedEvents(run) ==
  LET history == Stream(run, "history")
  IN << Appends(At(history, 0), Times(3, history)), ReadsAfter(history, 2, 1) >>

BasicReadWrite(run) ==
  LET single == Stream(run, "single")
  IN << Appends(At(single, 0), << single >>), Reads(single, 1) >>

ConcurrentVersionConflicts(run) ==
  LET shared == Stream(run, "shared")
  IN << Appends(At(shared, 0), << shared >>),
        AppendTo(At(shared, 0), << shared >>, "VersionConflict") >>

ReadOnlyParticipantConflictPreservesAtomicity(run) ==
  LET participant == Stream(run, "participant")
      target == Stream(run, "target")
  IN << Appends(At(participant, 0), << participant >>),
        AppendTo(AtZero({participant, target}), << target >>, "VersionConflict"),
        Reads(target, 0) >>

CurrentReadOnlyParticipantAllowsWrite(run) ==
  LET participant == Stream(run, "participant")
      target == Stream(run, "target")
  IN << Appends(At(participant, 0), << participant >>),
        Appends(AtBoth(participant, 1, target, 0), << target >>),
        Reads(target, 1) >>

StreamIsolation(run) ==
  LET left == Stream(run, "left")
      right == Stream(run, "right")
  IN << Appends(AtZero({left, right}), << left, right >>), Reads(left, 1), Reads(right, 1) >>

MissingStreamReads(run) == << Reads(Stream(run, "ghost"), 0) >>

ConflictPreservesAtomicity(run) ==
  LET left == Stream(run, "left")
      right == Stream(run, "right")
  IN << Appends(AtZero({left, right}), << left, right >>),
        AppendTo(AtBoth(left, 0, right, 1), << left, right >>, "VersionConflict"),
        Reads(left, 1),
        Reads(right, 1) >>

ReadStreamErrorsOnTypeMismatch(run) ==
  LET mismatched == Stream(run, "mismatched")
  IN << Appends(At(mismatched, 0), << mismatched >>), ReadsMismatched(mismatched) >>

\* the SQLite backend's own test: 250 events, in chunks of 100
PersistsLargeBatchAcrossChunkBoundary(run) ==
  LET large == Stream(run, "large")
  IN << Appends(At(large, 0), Times(5, large)), Reads(large, 5) >>

-------------------------------------------------------------------------------
(***************************************************************************)
(* EventReader.                                                            *)
(***************************************************************************)
EventOrderingAcrossStreams(run) ==
  LET a == Stream(run, "stream-a")
      b == Stream(run, "stream-b")
      c == Stream(run, "stream-c")
  IN << Appends(At(a, 0), << a >>), Appends(At(b, 0), << b >>), Appends(At(c, 0), << c >>),
        Selects(AllStreams, Unlimited, << {a}, {b}, {c} >>) >>

PositionBasedResumption(run) ==
  LET stream == Stream(run, "stream")
  IN << Appends(At(stream, 0), Times(5, stream)),
        ReadsEvents(AllStreams, Unlimited, Times(5, {stream}), 3, FALSE),
        ReadsEvents(AllStreams, Unlimited, Times(2, {stream}), 0, TRUE) >>

Account(suffix) == << "account", "-" >> \o suffix
Order(suffix) == << "order", "-" >> \o suffix

AccountPrefix == PrefixFilter(Account(<< >>))

StreamPrefixFiltering(run) ==
  LET account1 == Account(<< "1", "-", run >>)
      account2 == Account(<< "2", "-", run >>)
      order1 == Order(<< "1", "-", run >>)
  IN << Appends(AtZero({account1, account2, order1}), << account1, account2, order1 >>),
        Selects(AccountPrefix, Unlimited, Times(2, {account1, account2})) >>

StreamPrefixRequiresPrefixMatch(run) ==
  LET account == Account(<< "123", "-", run >>)
      myAccount == << "my", "-" >> \o Account(<< "456", "-", run >>)
      order == Order(<< "789", "-", run >>)
  IN << Appends(AtZero({account, myAccount, order}), << account, myAccount, order >>),
        Selects(AccountPrefix, Unlimited, << {account} >>) >>

AccountPattern(rest) == PatternFilter(<< Literal("account"), Literal("-") >> \o rest)

StreamPatternFiltering(run) ==
  LET orders == [i \in 1..MoreThanAPage |-> Order(<< << "w", "x", "y", "z" >>[i], "-", run >>)]
      account1 == Account(<< "1", "-", run >>)
      account2 == Account(<< "2", "-", run >>)
  IN << Appends(AtZero(ToSet(orders) \cup {account1, account2}),
                orders \o << account1, account2 >>),
        Selects(AccountPattern(<< Asterisk >>), PageLimit, Times(2, {account1, account2})) >>

StreamPatternSingleChar(run) ==
  LET accountX == Account(<< "x", run >>)
      accountXY == Account(<< "x", "y", run >>)
      order == Order(<< "z", run >>)
  IN << Appends(AtZero({accountX, accountXY, order}), << accountX, accountXY, order >>),
        Selects(AccountPattern(<< QuestionMark, Literal(run) >>), Unlimited, << {accountX} >>) >>

StreamPatternCharClass(run) ==
  LET digit == Account(<< "7", "-", run >>)
      letter == Account(<< "a", "-", run >>)
      digits == Class("", {"1", "2", "7"})
  IN << Appends(AtZero({digit, letter}), << digit, letter >>),
        Selects(AccountPattern(<< digits, Asterisk >>), Unlimited, << {digit} >>) >>

BatchLimiting(run) ==
  LET stream == Stream(run, "stream")
  IN << Appends(At(stream, 0), Times(MoreThanAPage, stream)),
        Selects(AllStreams, PageLimit, Times(PageLimit, {stream})) >>

-------------------------------------------------------------------------------
(***************************************************************************)
(* CheckpointStore and ProjectorCoordinator.  Position 0: no checkpoint.   *)
(***************************************************************************)
CheckpointSaveAndLoad(run) ==
  LET name == << "sub", run >> IN << SavesCheckpoint(name, 1), LoadsCheckpoint(name, 1) >>

CheckpointUpdateOverwrites(run) ==
  LET name == << "sub", run >>
  IN << SavesCheckpoint(name, 1), SavesCheckpoint(name, 2), LoadsCheckpoint(name, 2) >>

CheckpointLoadMissingReturnsNone(run) == << LoadsCheckpoint(<< "ghost", run >>, 0) >>

CheckpointIndependentSubscriptions(run) ==
  LET a == << "sub-a", run >>
      b == << "sub-b", run >>
  IN << SavesCheckpoint(a, 1), SavesCheckpoint(b, 2), LoadsCheckpoint(a, 1), LoadsCheckpoint(b, 2) >>

CoordinationAcquireLeadership(run) == << Acquires(<< "sub", run >>, "Ok") >>

CoordinationSecondInstanceBlocked(run) ==
  LET name == << "sub", run >>
  IN << Acquires(name, "Ok"), Acquires(name, "LeadershipNotAcquired") >>

CoordinationIndependentSubscriptions(run) ==
  << Acquires(<< "projector-A", run >>, "Ok"), Acquires(<< "projector-B", run >>, "Ok") >>

CoordinationLeadershipReleasedOnGuardDrop(run) ==
  LET name == << "sub", run >> IN << Acquires(name, "Ok"), Drops(name), Acquires(name, "Ok") >>

-------------------------------------------------------------------------------
(***************************************************************************)
(* backend_contract_tests!: the whole suite, by the name of the test.      *)
(***************************************************************************)
SuiteFor(run) ==
  [ command_state_snapshot_load_missing |-> SnapshotLoadMissing(run),
    command_state_snapshot_round_trip_and_monotonic |-> SnapshotRoundTripAndMonotonic(run),
    read_stream_after_excludes_reconstructed_events |->
      ReadStreamAfterExcludesReconstructedEvents(run),
    basic_read_write |-> BasicReadWrite(run),
    concurrent_version_conflicts |-> ConcurrentVersionConflicts(run),
    read_only_participant_conflict_preserves_atomicity |->
      ReadOnlyParticipantConflictPreservesAtomicity(run),
    current_read_only_participant_allows_write |-> CurrentReadOnlyParticipantAllowsWrite(run),
    stream_isolation |-> StreamIsolation(run),
    missing_stream_reads |-> MissingStreamReads(run),
    conflict_preserves_atomicity |-> ConflictPreservesAtomicity(run),
    read_stream_errors_on_type_mismatch |-> ReadStreamErrorsOnTypeMismatch(run),
    append_events_persists_large_batch_across_chunk_boundary |->
      PersistsLargeBatchAcrossChunkBoundary(run),
    event_ordering_across_streams |-> EventOrderingAcrossStreams(run),
    position_based_resumption |-> PositionBasedResumption(run),
    stream_prefix_filtering |-> StreamPrefixFiltering(run),
    stream_prefix_requires_prefix_match |-> StreamPrefixRequiresPrefixMatch(run),
    stream_pattern_filtering |-> StreamPatternFiltering(run),
    stream_pattern_single_char |-> StreamPatternSingleChar(run),
    stream_pattern_char_class |-> StreamPatternCharClass(run),
    batch_limiting |-> BatchLimiting(run),
    checkpoint_save_and_load |-> CheckpointSaveAndLoad(run),
    checkpoint_update_overwrites |-> CheckpointUpdateOverwrites(run),
    checkpoint_load_missing_returns_none |-> CheckpointLoadMissingReturnsNone(run),
    checkpoint_independent_subscriptions |-> CheckpointIndependentSubscriptions(run),
    coordination_acquire_leadership |-> CoordinationAcquireLeadership(run),
    coordination_second_instance_blocked |-> CoordinationSecondInstanceBlocked(run),
    coordination_independent_subscriptions |-> CoordinationIndependentSubscriptions(run),
    coordination_leadership_released_on_guard_drop |->
      CoordinationLeadershipReleasedOnGuardDrop(run) ]

(***************************************************************************)
(* Tests that read events of streams they did not create: `all`, or        *)
(* `account-`.  On a database shared with other tests they would see the   *)
(* events of those.                                                        *)
(***************************************************************************)
ReadsForeignEvents ==
  { "event_ordering_across_streams", "position_based_resumption", "batch_limiting",
    "stream_prefix_filtering", "stream_prefix_requires_prefix_match",
    "stream_pattern_filtering", "stream_pattern_char_class" }
===============================================================================
