# A TLA+ development for eventcore

eventcore is a Rust library for event sourcing with multi-stream commands. This directory holds
TLA+ modules that model it, TLC configurations that check them on small instances, and TLAPS
proofs of the results that matter most for every value of the constants. `PROJECT.json` lists
components, runs, mutants, the source lines each definition models, hazards and theorems.

To check a run: `tlc -config Execute.cfg MCExecute`, and likewise for the other configurations
(section 4 names the module of each). To check the proofs: `tlapm` on each `*Proofs.tla`.

## 1. Inventory

### Components, their state and operations

| Component | State | Operations | Modules |
|---|---|---|---|
| Command execution (`eventcore/src/lib.rs`, `execute_pipeline.rs`) | one `ExecutePipeline` per call: phase, attempt, queue / visited / scheduled streams, expected versions, folded state | `execute`: read, discover, fold, handle, append, retry | `ExecutePipeline`, `SerialCommands` |
| Command state snapshots (`eventcore/src/lib.rs`, `eventcore-types/src/snapshot.rs`) | the stored snapshot with a checkpoint per stream; per call: the checkpoint looked at, queue, state, versions | load, validate, fold a tail, replay, save, decide | `SnapshotReplay`, `SerialReplay` |
| Event store contract (`eventcore-types/src/store.rs`, `eventcore-memory`) | streams, snapshots, checkpoints, leaders | the operations of `EventStore`, `EventReader`, `CheckpointStore`, `ProjectorCoordinator` | `StoreContract`, `ContractSuite`, `StreamFilters` |
| PostgreSQL store (`eventcore-postgres/src/lib.rs`, migrations) | events table, delivery table and frontier, advisory locks, row lock | the append transaction, statement by statement | `PostgresAppend`, `AtomicAppend` |
| SQLite store (`eventcore-sqlite`) | one connection behind a mutex, tasks, a bounded channel per reader | the same operations in blocking tasks | `StoreContract`, `StreamFilters` |
| File store (`eventcore-fs`) | transaction files, ingestion log, replica identity; in memory: the index | open, append, reconcile, publish; git merge, copy | `FileStore` |
| Transactional projections (`eventcore-postgres/src/projections/`) | advisory lock of a session, progress row, read model; per call: cursor, page, attempt | run (batch, continuous), reset, reset and replay | `TransactionalProjection`, `ExactlyOnceDelivery`, `ProjectionContract`, `ProjectionSuite` |
| Delivery source (`projections/source.rs`, `projection-migrations/0001_*`) | dense delivery positions, committed frontier | high-water mark, page of selected events, position trigger | `TransactionalProjection`, `PostgresAppend` |
| Polling projections (`eventcore/src/projection_pipeline.rs`, `projection.rs`) | position, checkpoint, retry and failure counters, leadership guard | poll, apply, checkpoint, retry, skip | `ProjectionPipeline`, `AtLeastOnceDelivery` |
| Filters and patterns (`eventcore-types`, each backend) | none | prefix and glob selection | `StreamFilters` |
| Contract test suites (`eventcore-testing`) | none | scripts and assertions | `ContractSuite`, `ProjectionSuite` |
| Macros, model checker support, benchmarks, examples | none at run time | | not modelled |

### How they interact

`execute` owns a pipeline and performs the effects the pipeline asks for (open a stream, append,
sleep), feeding each answer back. Concurrent calls share nothing but the store, so the store's
version check is the only thing that orders them; commands with a snapshot share that as well.
Projections read what the store has committed: the polling ones through `EventReader` and a
checkpoint, the transactional ones through delivery positions that a trigger assigns in the
appending transaction, with effects and progress in transactions of a destination database, under
a session-level advisory lock. Working copies of the file store share nothing but the files that
git brings from one to the other.

### What is hard about it

- Streams are read one after the other while others append; decisions may rest on a mixed state.
- Streams are discovered while reading; one that is not read is not version-checked.
- Retries must start from nothing; an unacknowledged commit must not be retried.
- A snapshot is partly stale: some checkpoints may be kept, the streams after the first that grew
  must be replayed, in an order that discovery may change; saves of competing commands cross.
- The PostgreSQL append runs at READ COMMITTED: each statement sees another snapshot, identifiers
  and positions are drawn before the commit, and lock keys are hashes that may collide.
- A projection call may lose its session without noticing, crash between any two steps, or
  commit without learning of it, while another call takes over or resets.
- A limit counted in the wrong unit, or a mark taken at the wrong time, makes "caught up" false.
- One connection, one mutex, a bounded channel: a reader that stops reading holds up everyone.
- Transaction files arrive in any order and in part, after crashes, from copies whose clocks
  differ; the index that was built up must equal the one an opening would compute.
- Liveness under contention and with a source that keeps growing.

The hazards section of `PROJECT.json` lists these at their lines with the properties that would
catch them; those that have none give the reason.

### What makes each component correct

- *Execution*: what a command decides on is the present content of all streams it read; its
  batch is stored whole or not at all and never twice; discovery is closed; no conflict without
  a competitor's success; every call returns; all together: concurrent commands are serializable.
- *Snapshots*: a command decides on exactly what a full replay would compute; the stored snapshot
  is some command's replay.
- *Store contract*: every test of the suite holds, also beside any other; the log is a sequence
  of whole, accepted batches; every test ends.
- *PostgreSQL append*: the transaction implements an atomic append; the row trigger never finds
  what the version check missed; positions are dense and become visible in order; only colliding
  keys deadlock; every append returns.
- *Transactional projections*: the read model is the exactly-once, in-order effect of the
  committed progress; reports are true; every selected event is delivered as long as a call
  runs; batch calls return.
- *Polling projections*: at least once, in order, without a gap; a crash repeats at most one event.
- *File store*: the index is what an opening would compute, a projection's cursor exact, forks
  are real, identities apart; what reconciliation may and may not disturb of that is exact too.

## 2. Plan

Done, in the order of importance:

1. `ExecutePipeline`, implementing `SerialCommands`: checked, all safety properties proved.
2. `TransactionalProjection`, implementing `ExactlyOnceDelivery`: checked, proved; then its
   contract tests (`ProjectionContract`).
3. `ProjectionPipeline`, implementing `AtLeastOnceDelivery`: checked, proved.
4. `PostgresAppend`, implementing `AtomicAppend`: checked, all safety properties proved. It also
   justifies the delivery source `TransactionalProjection` assumes.
5. `SnapshotReplay`, implementing `SerialReplay`: checked, all safety properties proved.
6. `StoreContract` with the contract tests as scripts, for three backends: checked, all safety
   properties proved.
7. `FileStore`: checked, all safety properties proved.

Left:

- Local snapshots of the file store.

## 3. Modules and their correspondence to the code

In all of them, what user code computes (events of a handler, streams of a resolver, a verdict of
a projector) is any member of a constant set, events are pairs such as command and number, and
a stream's version is the number of its events. Operators marked "Mutant" in a comment are not
part of the specification: each is the definition below it with a plausible error.

### ExecutePipeline, SerialCommands

One variable per field of the pipeline (`phase`, `attempt`, `queue`, `visited`, `scheduled`,
`expected`), indexed by command, plus the store (`streams`). The state of a command is what it
has folded, per stream; this is the finest state any `apply` can compute. `landed` is history.

| Action | Code |
|---|---|
| `Start` | `Phase::Init`: fresh queue, versions and state at every attempt |
| `OpenStream` | `Phase::ReadingStreams`: pops until an unvisited stream, `read_stream` |
| `ApplyEvent`, `EndStream`, `ReadFails` | `resume` with `StreamEvent`, `StreamEnded`, `StreamReadError` |
| `Handle`, `HandlerRejects` | `Phase::Handling`: handler, registration of all read streams, refusal of undeclared ones |
| `AppendSucceeds`, `AppendConflicts`, `AppendFails` | the three outcomes of `append_events`, the last one with or without effect |
| `Wake` | `Slept` |

`ChecksEmptyAppends` distinguishes the in-memory store, which checks every batch, from the SQL
and file stores, which answer a batch without events at once. `SerialCommands` is the promise: a
command sees its streams and appends its batch in one step.

### SnapshotReplay, SerialReplay

`Load`, `NoTail`, `FoldTail`, `Reuse`, `ReplayStream`, `ReplayDone`, `Save` are the steps of
`execute_with_snapshot` and its helpers; `HandlerRejects`, `UndeclaredStream`, `AppendLands`,
`AppendNothing`, `Conflict` the decision; `SaveFails` and `Fails` the error paths; `Publish` is a
command without a snapshot. The state is the *sequence* of folded events, so that a wrong order
shows. `ReplayOrderIsValid` is the code's check that this command would visit the checkpoints'
streams in their order. `SerialReplay` is the promise: a full replay and an append in one step.

### StoreContract, ContractSuite, StreamFilters

`ContractSuite` holds the contract tests of `eventcore-testing/src/contract.rs` as scripts, a
sequence of calls with the answers the test asserts. `StoreContract` runs any two of them side by
side on one store, each in its own streams, as the tests do. The in-memory store answers each call
in one step (`Executes`), PostgreSQL likewise at this level (its append is taken apart in
`PostgresAppend`), and SQLite by tasks: `Spawn`, `LockConnection`, `Conflict`, `Validated`,
`InsertChunk`, `Commit`, `StatementFails` for an append; `Query`, `SendRow`, `ReadFails`,
`TaskEndsHolding`, `TaskEnds`, `Receive`, `StreamEnds` for a read. `StreamFilters` says what each
backend makes of a prefix or a glob pattern (own matcher, LIKE, GLOB, regular expression).

### PostgresAppend, AtomicAppend

`Submit` and `EmptyBatch`, then `Begin`, `LockStream` (one per registered stream, in the order of
names), `Validate` (one SELECT MAX each), `DrawIds`, `InsertRows` (a chunk, with the version
trigger), `AssignPositions` (the statement trigger with the frontier's row lock), `Commit`;
`Fail`, `Rollback`, `DeadlockDetected` and `Abort` end a transaction otherwise. `key` is the hash
of a stream's name, any function. What is not committed is invisible; `frontier` and `delivery`
are the committed ones. `AtomicAppend` is the promise: check all versions, append, in one step.

### TransactionalProjection, ExactlyOnceDelivery

`Runners` are calls for one projector name; `kind`, `mode` and `identity` are what each was called
with. The destination is `readModel`, `progress`, `boundTo`; `leader` and `session` are the
server's view of the advisory lock; `skipped` is history. Per call: `after`, `through`, `page` of
`drain_cycle`, `position` and `attempt` of `process_envelope`, and `staged`, what the open
transaction will do when it commits. `Return` forgets the locals.

| Actions | Code |
|---|---|
| `Acquire`, `Busy`, `AcquireFails` | `acquire_leader`, a single try |
| `LoadProgress`, `HighWatermark`, `ReadPage`, `TakeEnvelope` | `load_validated_progress`, `drain_cycle` |
| `Begin`, `DecodeFails`, `Apply`, `ApplyFails`, `Commit`, `CommitIndeterminate`, `AfterCommit`, `AfterCommitFails` | `process_envelope`, `skip_position` |
| `StageReset`, `ResetFails`, `ReleaseReset` | `reset_with_leader` and its callers |
| `ReleaseCaughtUp`, `Sleep`, `ReleaseCancelled`, `ReleaseStopped` | the end of a cycle and of a call |
| `IdentityMismatch`, `StatementFails`, `SourceFails`, `LeadershipLost` | error paths |
| `SessionDies`, `Crash`, `Publish` | the environment: server, process, appends |

A call that fails leaves the lock with its session until the server notices (`SessionDies`). A
step that needs the connection requires a live session, or ends in `LeadershipLost`; reading the
source and sleeping do not. `ExactlyOnceDelivery` is the promise: deliver or skip the next
selected event, or reset.

### ProjectionContract, ProjectionSuite

`ProjectionSuite` holds the tests of `projection_contract.rs` as scripts: what is appended, which
calls run, what the application does at each attempt, when a call is cancelled or its session
terminated, and what is asserted. `ProjectionContract` lets a script direct the actions of
`TransactionalProjection` and records what the fixture observes: counts, positions, attempts,
retry delays, hooks, idle waits. Test 0 has no script: calls run freely and fairly.

### ProjectionPipeline, AtLeastOnceDelivery

`BecomeLeader`, `NotLeader`, `LoadCheckpoint`, `ReadEvents`, `Apply`, `Skip`, `Retry`, `Fatal`,
`NextEvent`, `SaveCheckpoint`, `PageDone` and the three wake-ups are the pipeline's phases as
`run_projection` drives them; `ReadFails`, `SaveFails`, `LoadFails` its failures; `Crash` ends a
call, whose guard is dropped later (`DropGuard`); `LoseGuard` is the connection of the guard
dying under a running call. `AtLeastOnceDelivery` is the promise.

### FileStore

A transaction is its number in `txn`; a working copy is its files, its ingestion log, its
identity and, while open, its index. `Open`, `OpenFails`, `WriteBatch` with `AppendEvents` or
`AbandonAppend`, `Publish`, `PublishUnlogged`, `Reconcile`, `ResolveFork`, `DeclineFork` are the
store's operations; `Project` reads the next event in the local sequence; `GitMerge` and
`CopyTree` are what happens outside. A crash needs no action: `Open` may happen at any step and
starts from what is on disk. `Ancestors`, `TipsOf`, `Linearize`, `Forks`, `IdentityConflict`,
`Dangling`, `Allocated` are the functions of `merge.rs`, `index.rs` and `ingestion.rs`; the ones
about transactions compute from a history alone, the headers and events of the files present,
as the code does. `Linearize` is the order as a relation on events, by the code's key with the
place in the file behind it; `InOrder` is the sequence of some events in that order, a stream or
what is new to the ingestion log.

## 4. Runs

| Run | Module, instance | Shows |
|---|---|---|
| `exec` | `MCExecute`: 3 commands, 2 streams, 1 retry, a store that checks empty batches | `TypeOK`, `DiscoveryClosed`, `AllOrNothing`, `ConflictsAreEarned`, `SuccessIsCurrent`, refinement of `SerialCommands`, `Termination` |
| `exec_noop` | the same, a store that does not | finding: `AppendsAreVerified` is violated |
| `proj_safety` | `MCProjection`: 2 calls of any kind, mode and identity, positions 1 to 4 of which 3 and 4 are selected, pages of 2, 1 retry | `TypeOK`, `ExactlyOnce`, `ReportsAreTrue`, refinement of `ExactlyOnceDelivery` |
| `proj_contract` | `MCProjectionContract`: 36 contract tests, and test 0 with 2 calls of `run` in either mode, 2 selected events, pages of 2 | `SuitePasses`, `EveryEventDelivered`, `BatchReturns` |
| `poll` | `MCPolling`: 2 calls in either mode, 4 events of which one does not decode, pages of 2, 1 retry, 1 tolerated poll failure, vanishing guards | `TypeOK`, `CrashRepeatsOne`, refinement of `AtLeastOnceDelivery`, `EveryEventHandled`, `BatchReturns` |
| `poll_stall` | the same, two events that do not decode | finding: `EveryEventHandled` is violated |
| `append` | `MCAppend`: 2 appends, 3 streams, any assignment of 3 keys, chunks of 2, 5 requests | `TypeOK`, `TriggerNeverRejects`, `DeliveryIsDense`, `OnlyCollisionsDeadlock`, `VisibleInPositionOrder`, refinement of `AtomicAppend`, `AppendsReturn` |
| `append_order` | the same | finding: `VisibleInIdOrder` is violated |
| `snapshot` | `MCSnapshot`: 2 commands, 3 streams, versions up to 2, threshold 2, 1 retry | `TypeOK`, `DecidesOnReplay`, `StoredIsReplay`, refinement of `SerialReplay` |
| `contract` | `MCContract`: every test alone and every pair of tests, 3 backends, channel of 1, chunks of 2 | `SuitePasses`, `LogIsAcceptedBatches`, `EveryTestEnds` |
| `fs` | `MCFileStore`: 2 copies, 2 streams, 4 transactions; on one copy partial merges, a projection, one failed log write, one dropped append | `TypeOK`, `IndexIsCanonical`, `CursorIsExact`, `ForksAreReal`, `ConflictsAreByMerges` |
| `fs_claims` | the same, 5 transactions, no accidents | finding: `SomeClaimHolds` is violated |

### Bounds

- *Execution*: three commands allow a conflict on the first attempt and another after the retry,
  so that retries are exhausted; two streams are what mixed reads, discovery and read-only
  dependencies need; one batch writes two events to one stream and one to the other.
- *Transactional projections*: two calls are a stale one and its successor; resets are among the
  calls. `Selected` begins behind a whole page of unselected positions, so a limit applied to the
  wrong unit shows. `Publish` commits batches of any size. Calls are symmetric in `proj_safety`.
  The contract tests need eight selected events; in test 0 each event is retried at most once.
- *Polling*: pages of two of four events; the undecodable one is in the first page, so a cursor
  that counts rows would slip. In `poll_stall` the first page is all undecodable.
- *Append*: a batch of three entries in chunks of two interleaves streams across a chunk boundary;
  the requests include a reader of a stream the other one writes, and the empty batch; every
  assignment of keys, including collisions within one append and across both.
- *Snapshots*: discovery that shrinks when a stream grows, two commands with different
  declarations, one of which may emit nothing.
- *Contract*: a channel of one makes a read block at its second event; chunks of two make the
  batch tests insert in several statements.
- *File store*: a fork is of two transactions; a third, on top of one of its heads, is left aside
  by the merge, which is the fourth. `MaxAppends` lets one copy append once and the other twice,
  for these to be of one identity; one copy's clock is ahead, so that canonical order and order of
  arrival differ; a batch reads one stream and writes the other. The projection, partial merges
  and accidents (`Failing` and `Impatient`, once each) are at one copy, which the other feeds. In
  `fs_claims` three appends of one copy make a fork with a reader besides.

`MaxPosition`, `MaxVersion` and `MaxTransactions` bound sources that grow; all other counters are
bounded by the code itself. Where the prover reaches, the proofs do away with the bounds.

### Fairness

- `exec`: `Progress(c)` weakly fair for every command: the executor keeps polling a future until
  it returns and the store answers. `append`: the same for `Step(c)`, statements of a transaction
  that nobody blocks; PostgreSQL detects deadlocks. `poll`: the same for `Progress(r)`.
- `proj_contract`: weak fairness of the step of the test, which is the only thing that runs, and
  in test 0 of each call's `Progressing(r)`.
- `contract`: `WF_vars(Next)`, that is, some task makes a step; which one is never assumed.
- `snapshot`, `proj_safety`, `fs` and the violations other than `poll_stall`: safety only.

No failure, decision of user code, crash, cancellation, merge or publication is fair; a call may
meet any number of them, or none. `EveryEventDelivered` is conditional on some call still running
and `EveryEventHandled` on a continuous call that is not interrupted, since nothing in the code
restarts one.

Deadlock is checked in all runs but `fs`, where the bound on transactions stops the system;
`AllReturned`, `TestIsOver` and `AllSettled` are the end of the others.

Each property has a mutant, an operator next to the one it replaces, with the change a plausible
bug would make; TLC then finds that property violated.

## 5. Findings

**Empty batches are not verified** (`exec_noop`). `EventStore` says of `append_events` that the
store verifies each stream's expected version (`eventcore-types/src/store.rs:219`). The
PostgreSQL, SQLite and file stores return `Ok` for a batch without events before they look at any
version: a command reads a stream, others append to it, its handler emits nothing on the stale
state, and the call succeeds. The in-memory store reports a conflict and the command is retried.
Serializability of the *stored* events is not affected: the theorem `Serializable` holds for both.

**A page of undecodable rows stalls a polling projection** (`poll_stall`). They are dropped after
the limit and the cursor moves only to handled events (`eventcore-postgres/src/lib.rs:636`,
likewise in the in-memory and SQLite stores).

**Identifier order is not commit order** (`append_order`). The polling reader resumes after an
identifier drawn before the commit (`eventcore-postgres/src/lib.rs:395`): an append that draws a
smaller one and commits later is never received. The transactional projections are not exposed:
`VisibleInPositionOrder` holds of their delivery positions, for any number of appends.

**A merge transaction leaves tips aside** (`fs_claims`).
`write_merge_transaction` records the fork's heads as parents, not the tips
(`eventcore-fs/src/lib.rs:659`). When something was written on top of a head before the
reconciliation, three documented claims fail, and the run ends in a state that contradicts all of
them (`SomeClaimHolds` is their disjunction):

- *Copies converge* (`CopiesConverge`; ADR-0039, ADR-0043:100, `merge_mode_test.rs:285`). The open
  index puts the merge's events last; an opening computes a place before the transactions it left
  aside, whose depth is as great or greater. `IndexIsCanonical` says, and `IndexCanonical` proves,
  that no other transaction has this effect, and that it concerns order only, in the streams that
  such a merge of the copy's own identity wrote to.
- *A writer's transactions are a chain* (`WritersAreChains`; `merge.rs:267`, `lib.rs:575`). The
  merge is concurrent with what it left aside, and if that is of the same replica every later look
  for forks fails with `ReplicaIdentityConflict`, although each identity had one writer.
  `ConflictsAreByMerges`: nothing else leads there.
- *Transactions with one base are concurrent* (`ForkHeadsAreConcurrent`; `merge.rs:322`,
  ADR-0041:137). A transaction that only reads a stream records its base and does not raise it, so
  a linear history has forks. `ForksAreReal`: a head that wrote the stream was not known to the
  writers of the others, unless it is itself a merge that left tips aside, whose recorded base
  counts events that are not below it.

**Filters differ between stores** (no run: one filter and one name show it). SQLite hands a
`StreamPattern` to GLOB untranslated (`eventcore-sqlite/src/lib.rs:754`), and GLOB negates a class
with `^`, whereas ADR-0047:77 documents `[!...]`, which the in-memory, file and PostgreSQL stores
understand: `account-[!1]*` selects `account-1` in SQLite and everything else elsewhere. Prefixes,
documented as literal (`eventcore-types/src/store.rs:325`), are not escaped for LIKE, and SQLite's
LIKE ignores case (`eventcore-sqlite/src/lib.rs:751`, `eventcore-postgres/src/lib.rs:616`):
`order_` also selects `order-1`. `StreamFilters` has each translation as it is.

### Remarks

Observations made while modelling that no run states as a violation:

- Batch mode of a polling projection returns after one page of 1000 events
  (`projection_pipeline.rs:202`), whereas `projection.rs:104` and `:345` say that all available
  events are processed.
- PostgreSQL copies a leading `^` of a class, so that it negates there and in SQLite, but not in
  the glob crate; the documented syntax does not mention it.
- File store: an ordinary append after a git merge silently resolves the forks it descends from. A
  local snapshot survives a git merge that inserts earlier events (`lib.rs:350`).
- An append whose future is dropped (`lib.rs:306`) leaves a durable transaction that the open
  store does not know. The next append is then concurrent with it under the same identity, and
  after reopening `detect_forks` fails with `ReplicaIdentityConflict`. `ConflictsAreByMerges`
  excludes histories with a dropped append; `IndexIsCanonical` and `CursorIsExact` do not.
- A dropped snapshot save of the file store (`lib.rs:404`) may rename its file late, or collide
  with the next one's, for the temporary name is fixed.
- A write of the ingestion log that fails leaves events without a local number until the next
  opening, which may number them after others; a torn last line makes the store refuse to open
  (`ingestion.rs:73`). `CursorIsExact` excludes copies with a failed write.
- A partial merge in which a middle transaction is missing is reported as
  `ReplicaIdentityConflict` rather than as a dangling parent, since ancestry ends at the gap.
- A projection call that is repeated at once after a failed one may meet `LeadershipBusy`: the
  failed call's connection is closed in the background.

## 6. Proofs

Assumptions are the named `ASSUME`s of the modules: shapes of the constants (`Declared` yields
sequences of streams, `BatchSize` is at least one, ...), all evaluated by TLC in the runs.

### ExecutePipelineProofs

- `TypeCorrect`: types, and no more than `max_retries` retries.
- `DecidesOnThePresent`, `SuccessOnThePresent`: events become visible, and (over a store that
  checks every batch) success is reported, only for a command that has folded the present content
  of every stream it read. The invariant `Inv` behind it says what a pipeline knows: of every
  stream read it holds a *prefix* (`HoldsPrefixes`) whose length is the expected version; of the
  stream being read, a prefix of what was opened, itself a prefix of the stream (`HoldsCurrent`);
  between reads nothing is half read (`Settled`). Streams only grow at their end, so prefixes
  stay prefixes; a matching version makes the prefix the whole. The strengthening is needed
  because `SuccessIsCurrent` alone says nothing about a pipeline before its append.
- `Serializable`: `Spec => RunsSerially`, with the append (acknowledged or not) as the step of
  `SerialCommands`, for both kinds of store.
- `DiscoveryIsClosed`: from `Tracked`: every scheduled stream was visited or waits in the queue.
- `BatchesAreAtomic` (`AllOrNothing`): `AllOrNothing` is inductive relative to `Inv`, which says
  that a call without an answer has landed nothing. The own batch lands as a block behind all
  that is stored; others land behind it and leave the block where it is.
- `EveryConflictIsEarned` (`ConflictsAreEarned`): the invariant `Earned` adds that a pipeline
  which has fallen behind a stream's head, and so will conflict, has one more competitor that got
  through than conflicts so far. Reading on never makes a pipeline fall behind; only the batch of
  another command does, and that command had landed nothing before.

### TransactionalProjectionProofs

- `TypeCorrect`, with the fence `Fenced`: a session lives exactly while it holds the lock, and
  only a live, committing session has something staged.
- `EffectsAreExact` (`ExactlyOnce`), `ReportsHold` (`ReportsAreTrue`) and `ImplementsExactlyOnce`
  (`DeliversExactlyOnce`) from the inductive invariant `Inv`: *Cursor*, which holds for every
  call and outlives its session (the page is a gapless segment of the selected positions after
  `after`, up to a mark the source had reached), and *Knows*, which holds while the session lives
  (between events `after` is the committed progress; the event in flight is the next one due; a
  call that is caught up has nothing left up to its mark). The argument: whoever changes the
  destination has a live session, sessions exclude one another, hence nobody changes it behind
  the back of a call that could still commit. A stale call keeps only its cursor, and that lets
  it commit nothing.

### ProjectionPipelineProofs

- `TypeCorrect`; `AtMostOneRepeat` (`CrashRepeatsOne`); `ImplementsAtLeastOnce`
  (`DeliversAtLeastOnce`), the last one with any number of leaders at once and failing saves. The
  invariant ties each call's position to the events handled so far and to the checkpoint: a call
  never stands behind a gap, and what it saves is what it has handled.

### PostgresAppendProofs

- `TypeCorrect`, `LocksSuffice` (`TriggerNeverRejects`), `SourceSkipsNothing`
  (`VisibleInPositionOrder`), `ImplementsAtomicAppend` (`AppendsAreAtomic`): whoever has passed
  the locks holds the key of every registered stream, so what a version check saw stays true
  until the end of the transaction, read-only streams included; and whoever has read the frontier
  holds its row until the commit.
- `NameOrderPreventsDeadlock` (`OnlyCollisionsDeadlock`): while no two names have one key, an
  append holds only streams smaller than the one it waits for (`LockOrder`), and the frontier is
  awaited by appends that hold all their keys. In a cycle of waits the member that waits for the
  least stream would be waited for over a smaller one.
- `DeliveryStaysDense` (`DeliveryIsDense`): versions within a chunk, chunks within a batch and
  batches behind the frontier are numbered by rank; the lemmas about ranks are in `OrderLemmas`.

### StoreContractProofs

- `LogHoldsAcceptedBatches` (`LogIsAcceptedBatches`), for any number of tests of the suite side by
  side, on any backend, with any chunk size and channel capacity.
- *The suite.* `SuiteFits` looks at every test: it names only streams of its own run (`Separate`),
  and an append expects success if and only if the versions it registers are the numbers of events
  the script has appended before (`Fits`). This uses `ClientsAssumption`: no test is called like one
  of the fixed words in stream names, as a UUID is none. `SchedulesAssumption`: a client runs a test
  of the suite or none.
- *Sequences.* What a script has appended is a `FlattenSeq`; `FlattenEquation` obtains the recursive
  function that it stands for, and `Accumulates` what one more call adds. `CountConcat`, `RanksSplit`
  and `ChunkMovesOver` say how counts, ranks and chunks go over to a longer log.
- The invariant `Inv`: *Progress* (a running test is inside its script), *Tasked* (a task does what its
  call asks for, and an open transaction has inserted and has yet to insert exactly the rows of an
  append that is to succeed), *Mirrored* and *Counted* (a test's own rows are its accepted batches,
  position by position, and the version of each of its streams is their number), *Numbers*. The
  argument: nobody else writes to a test's streams, so the versions that its script has reached are
  those in the log also when a commit comes long after the validation; what is uncommitted is not
  in the log, and a rollback forgets it.
- `SuiteNeverFails` (`SuitePasses`): whatever tests run side by side, no assertion of any of them
  fails. `SuitePasses` says nothing about data, so it needs a second invariant, *Consistent*, on top
  of `Inv`. For each test: its script is that of its test; the checkpoints and leaderships under its
  own names are those its script has left (`Told`, `HeldAfter`), its snapshot is the first it saved;
  the position that the resumption test remembers is that of its third event; and what an open
  stream has received, holds in the channel and has yet to send is the whole of the stream, unless a
  row failed (`Fetching`). Only the task that has the connection has rows to send.
  - `SuiteIsRight` looks at every test once more: each read expects as many events as the script
    has appended to that stream, each load what it has saved (`RightlyStored`, `RightlyKept`).
  - A step concerns one client (`StepsOn`): it changes nothing of the others (`Alone`), and its client
    rests, breaks off with a store error, or advances with the answer its test expects.
  - A test that reads events of other tests has the store to itself (`Isolated`; `StoreToItself`):
    the log is then what its own script has appended, so the page of a read is an interval of it
    (`IntervalPage`) or what a filter selects. Each of these reads has a lemma (`*Pages`). The test
    with a single-character pattern may share the store: its pattern ends in its own run.
  - How a compiled filter takes a name is a recursive function of the positions that its items
    reach; the patterns and prefixes of the tests are followed along the name item by item.
- Its assumptions. `BackendsAssumption`: the three stores that the suite is run on.
  `CharactersAssumption`: the one-letter words of the suite are single characters.
  `LetterCasesAssumption`: no fixed word of the suite is another one in a different letter case.

### SnapshotReplayProofs

- `DecisionsAreReplays` (`DecidesOnReplay`), `StoredReplays` (`StoredIsReplay`), `TypeCorrect` and
  `ImplementsSerialReplay` (`RunsSerially`), for any number of commands, streams and retries and any discovery that depends on the folded state.
- What a full replay computes is a fold of a fold. The argument avoids an induction over it: the
  list of checkpoints *is* the run of a replay. A list is a `Chain` for a command and a state when
  its first stream is the first declared one and each next stream is the next of the queue that the
  entries before it leave (`Follows`); it is `Complete` when that queue is empty. `ValidityIsExact`
  shows that the code's order check accepts exactly the chains; `ReplayOfChain`, that a complete
  chain ends in the state the full replay computes.
- The invariant says which chain each phase holds: before anything was read, the checkpoints of a
  stored replay, a complete chain of some command; after a tail was folded into the first stream,
  a chain that is valid up to there; while replaying, a chain of what is now in the streams,
  which the queue completes. A stored snapshot remains a chain because streams only grow at their
  end and each checkpoint names a prefix.
- `QueuesFresh` shows that the branch of the replay for a stream that was already visited is
  never taken: no stream enters the queue twice.
- Termination of the replay queue needs `IsFiniteSet(Streams)`, an assumption of the module.

### FileStoreProofs

For any number of working copies, streams, batches, transactions, clock skews and merges, whole
or in part.

- *Operators.* `Depths` and `Ancestors` are recursive over parents, which are older transactions;
  `DepthEquation` and `AncestorEquation` show that they satisfy their equations, `DepthsAreNumbers`
  that a transaction is deeper than its parents, `TipsReachAll` that every transaction is a tip or
  an ancestor of one. `LinearizeIsLinear`: the canonical order is a linear order of the events.
  `InOrderIsSequence`: a stream is a sequence of exactly its events. `AllocatedIs`: known events
  keep their numbers, new ones are numbered above all of them and apart. `DeepestIfOnTips` and
  `StreamsExtend`: a transaction whose parents include all the tips is deeper than everything else,
  so it extends every stream at its end.
- `TypeCorrect` (`TypeOK`) and `CursorExact` (`CursorIsExact`) hold in every run. Their invariant is
  *Stored* (what is on disk is well formed and never shrinks; the index holds what is durable; what
  is being written is in the files), *Logged* (the log on disk is a part of the numbering in memory
  and equal to it while no write failed) and *Followed* (a projection has handled the events of
  the log up to its checkpoint, and what it has handled is in the streams it reads). The argument:
  what a git merge brings gets numbers above the last one given out, and no checkpoint is above that.
- `IndexCanonical` (`IndexIsCanonical`), `RealForks` (`ForksAreReal`) and `IdentitiesAgree`
  (`ConflictsAreByMerges`) hold whatever the tips when a fork is resolved, with nothing assumed.
  The invariant adds *Canonical* (the streams and tips of an index are those of its transactions,
  each event once; in canonical order unless a merge of the index's own identity that left tips
  aside wrote to the stream), *Informed* (the bases of a transaction are the numbers of events its
  writer knew), *Offered* and *Joined* (forks to be resolved are of transactions that recorded one
  base, and only merges of such heads leave tips aside), *Distinct* (no two copies keep the same
  replica id), *Owned* (a copy's index holds all transactions of its identity, but for an append
  that was dropped) and *Chained* (of two transactions of one identity the later was written by
  someone who knew the earlier).
- The arguments. A transaction that leaves no tip aside extends every stream at its end; one that
  does still extends those it has no event of (`StreamsExtend`), and holds its events once each in
  any case. What a transaction's writer knew is below it when no parent is missing and it left no
  tip aside (`KnownIsAncestral`), so chained transactions are concurrent only because of a merge.
  A writer that knew another writer of the stream recorded a larger base (`LaterBaseIsLarger`),
  so the two are not heads of one fork.

### OrderLemmas

What the proofs about numbers and orders share: a nonempty set of naturals has a least member
(obtained from the interval form of the well-founded recursion, not from an induction theorem with
an operator parameter), a finite one a greatest; recursive functions over naturals are what their
equation says, also when a value depends on all earlier ones; comparing keys of equal length
lexicographically is a linear order; and in a finite linear order the rank of an element is unique,
dense and monotone.

### Only model-checked

- Liveness (`Termination`, `AppendsReturn`, `EveryEventDelivered`, `EveryEventHandled`,
  `BatchReturns`, `EveryTestEnds`): out of the prover's reach.
- `SuitePasses` of `ProjectionContract`: its 36 scripts are fixed, without parameters, and TLC
  runs each of them to its end in every way it can go.

## 7. Not modelled, and why

- Back-off delays of commands and polling projections, jitter, metrics and logging: no property
  depends on them. The retry delays of transactional projections are in `ProjectionContract`.
- The hash from projector names to lock keys: one projector is modelled, a collision only makes
  two projectors exclude each other. (The hash of stream names is modelled, as any function.)
- Migrations, connection pools, encryption at rest: they come before the modelled operations.
- Local snapshots, `topology_generation` and fsck repairs of the file store: a damaged file, which
  the index leaves out, is one that has not arrived. The checkpoint file is written atomically;
  repeats after a crash between handling and saving are in `ProjectionPipeline`.
- The projection runner without a checkpoint store, which `run_projection` never builds.
- Macros (compile time), validated types (pure predicates on strings), the experimental model
  checker support, fault injection, benchmarks, the examples: no run-time state of the system.
