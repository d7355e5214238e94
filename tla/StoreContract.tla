------------------------------ MODULE StoreContract ------------------------------
(***************************************************************************)
(* The contract suite run against a store.  Clients run one test each,     *)
(* concurrently and on one store, over one of three backends:              *)
(*   - "memory": one mutex, every call is one step;                        *)
(*   - "sqlite": every call but coordination is a blocking task that takes *)
(*     the one connection; an append is a transaction of validation,       *)
(*     chunked inserts and commit; reading a stream keeps the connection   *)
(*     while rows pass through a bounded channel to the consumer;          *)
(*   - "postgres": one step per call (PostgresAppend has its appends in    *)
(*     detail); here for its translation of stream filters.                *)
(* A row's position in the log stands for its UUID7, drawn in log order.   *)
(***************************************************************************)
EXTENDS ContractSuite

CONSTANTS Clients,    \* the tests running at the same time
          Backends,   \* the backends considered
          Schedules,  \* the tests they run, as far as tests may share a store
          Capacity,   \* rows the channel of an open stream holds (64)
          ChunkSize,  \* rows per INSERT statement (100)
          None        \* no client

ASSUME CapacityAssumption == Capacity \in Nat \ {0}
ASSUME ChunkSizeAssumption == ChunkSize \in Nat \ {0}
ASSUME NoneAssumption == None \notin Clients
ASSUME BackendsAssumption == Backends \subseteq {"memory", "postgres", "sqlite"}
ASSUME ClientsAssumption == Clients \cap Words = {}
ASSUME SchedulesAssumption ==
  \A tests \in Schedules : \A c \in Clients : tests[c] \in DOMAIN SuiteFor(c) \cup {"none"}

VARIABLES
  backend,      \* the store under test
  test,         \* the test of each client
  script,       \* the calls of that test
  step,         \* the call it makes next
  verdict,      \* "running", "passed", "assertion" or "store_error"
  mark,         \* the position it remembered
  log,          \* the committed rows, in position order
  snapshots,    \* command_state_snapshots
  checkpoints,  \* checkpoints by subscription
  locks,        \* subscriptions whose leadership is taken
  conn,         \* SQLite: the client whose task holds the connection
  task,         \* SQLite: "none", "waiting", "holding", "inserting" or "sending"
  rows,         \* SQLite: rows the task has yet to insert or to send
  inserted,     \* SQLite: rows inserted in the open transaction
  channel,      \* SQLite: rows sent and not yet received
  received      \* SQLite: events collected from the open stream

data == << log, snapshots, checkpoints, locks >>
tasks == << conn, task, rows, inserted, channel, received >>
fixed == << backend, test, script >>
vars == << fixed, step, verdict, mark, data, tasks >>

Call(c) == script[c][step[c]]

(***************************************************************************)
(* Tests that read foreign events get the store to themselves.             *)
(***************************************************************************)
Isolated(tests) ==
  \A c \in Clients : tests[c] \in ReadsForeignEvents =>
                        \A d \in Clients \ {c} : tests[d] = "none"

Init ==
  /\ backend \in Backends
  /\ test \in {tests \in Schedules : Isolated(tests)}
  /\ script = [c \in Clients |-> IF test[c] = "none" THEN << >> ELSE SuiteFor(c)[test[c]]]
  /\ step = [c \in Clients |-> 1]
  /\ verdict = [c \in Clients |-> IF test[c] = "none" THEN "passed" ELSE "running"]
  /\ mark = [c \in Clients |-> 0]
  /\ log = << >>
  /\ snapshots = << >>
  /\ checkpoints = << >>
  /\ locks = {}
  /\ conn = None
  /\ task = [c \in Clients |-> "none"]
  /\ rows = [c \in Clients |-> << >>]
  /\ inserted = [c \in Clients |-> << >>]
  /\ channel = [c \in Clients |-> << >>]
  /\ received = [c \in Clients |-> << >>]

-------------------------------------------------------------------------------
(***************************************************************************)
(* The store's data.                                                       *)
(***************************************************************************)
\* the k-th of a set of positions
Nth(set, k) == CHOOSE i \in set : Cardinality({j \in set : j <= i}) = k

RowsAt(set) == [k \in 1..Cardinality(set) |-> log[Nth(set, k)]]

RowsOf(stream) == RowsAt({i \in DOMAIN log : log[i].stream = stream})

Version(stream) == Cardinality({i \in DOMAIN log : log[i].stream = stream})

(***************************************************************************)
(* All expected versions are checked before anything is written.  (Mutant: *)
(* only those of the streams written to.)                                  *)
(***************************************************************************)
WrittenVersionsMatch(call) ==
  \A s \in DOMAIN call.versions : s \in ToSet(call.batch) => Version(s) = call.versions[s]

VersionsMatch(call) == \A s \in DOMAIN call.versions : Version(s) = call.versions[s]

\* each event gets the version after the last of its stream
NewRows(call) ==
  [i \in DOMAIN call.batch |->
     [stream |-> call.batch[i],
      version |-> call.versions[call.batch[i]]
                    + Cardinality({j \in 1..i : call.batch[j] = call.batch[i]}),
      type |-> ContractTestEvent]]

Covers(snapshot, other) ==
  \A s \in DOMAIN other.versions : /\ s \in DOMAIN snapshot.versions
                                   /\ snapshot.versions[s] >= other.versions[s]

Chosen(filter, row) ==
  CASE backend = "memory" -> MemorySelects(filter, row.stream)
    [] backend = "postgres" -> PostgresSelects(filter, row.stream)
    [] backend = "sqlite" -> SqliteSelects(filter, row.stream)

(***************************************************************************)
(* read_events: after the cursor, of the asked type, of the chosen streams *)
(* and only then limited.  (Mutant: limited before the streams are chosen.)*)
(***************************************************************************)
Positions(filter, after) ==
  {i \in (after + 1)..Len(log) : log[i].type = ContractTestEvent /\ Chosen(filter, log[i])}

FirstOf(limit, set) == {i \in set : Cardinality({j \in set : j <= i}) <= limit}

PageBeforeFilter(filter, limit, after) ==
  FirstOf(limit, (after + 1)..Len(log)) \cap Positions(filter, after)

Page(filter, limit, after) == FirstOf(limit, Positions(filter, after))

-------------------------------------------------------------------------------
(***************************************************************************)
(* A call is answered: the test checks the answer and goes on or fails.    *)
(* Guards are dropped when the test function returns.                      *)
(***************************************************************************)
GuardsOf(c) == {name \in locks : name[2] = c}

Ends(c, how) ==
  /\ verdict' = [verdict EXCEPT ![c] = how]
  /\ UNCHANGED step

Accepts(c, asExpected) ==
  IF asExpected /\ step[c] < Len(script[c])
  THEN /\ step' = [step EXCEPT ![c] = @ + 1]
       /\ UNCHANGED verdict
  ELSE Ends(c, IF asExpected THEN "passed" ELSE "assertion")

Answers(c, answer) == Accepts(c, answer = Call(c).expects)

(***************************************************************************)
(* A call runs at once, or on SQLite when its task has the connection,     *)
(* which it gives back with its answer.                                    *)
(***************************************************************************)
Running(c, op) == verdict[c] = "running" /\ Call(c).op = op

Executes(c, op) ==
  /\ backend = "sqlite" => task[c] = "holding"
  /\ Running(c, op)

ReleaseConnection(c) ==
  /\ conn' = IF conn = c THEN None ELSE conn
  /\ task' = [task EXCEPT ![c] = "none"]

Returns(c) ==
  /\ ReleaseConnection(c)
  /\ UNCHANGED << fixed, rows, inserted, channel, received >>

AppendEvents(c) ==
  /\ backend # "sqlite"
  /\ Executes(c, "append")
  /\ log' = IF VersionsMatch(Call(c)) THEN log \o NewRows(Call(c)) ELSE log
  /\ Answers(c, IF VersionsMatch(Call(c)) THEN "Ok" ELSE "VersionConflict")
  /\ Returns(c)
  /\ UNCHANGED << mark, snapshots, checkpoints, locks >>

\* whether a stream, decoded as the asked type, is what the test expects
StreamIsExpected(call, events) ==
  IF \E i \in DOMAIN events : events[i].type # call.type
  THEN call.expects = "DeserializationFailed"
  ELSE /\ call.expects = "Ok"
       /\ Len(events) = call.count
       /\ \A i \in DOMAIN events : events[i].stream = call.stream

ReadStream(c) ==
  /\ backend # "sqlite"
  /\ Executes(c, "readStream")
  /\ Accepts(c, StreamIsExpected(Call(c), SubSeq(RowsOf(Call(c).stream), Call(c).after + 1,
                                                 Version(Call(c).stream))))
  /\ Returns(c)
  /\ UNCHANGED << mark, data >>

(***************************************************************************)
(* One event from each expected set, in order; a test that resumed also    *)
(* checks that positions ascend from the one it remembered.                *)
(***************************************************************************)
EventsAreExpected(c, page) ==
  /\ Cardinality(page) = Len(Call(c).from)
  /\ \A k \in 1..Len(Call(c).from) : log[Nth(page, k)].stream \in Call(c).from[k]
  /\ Call(c).resume => \A i \in page : i > mark[c]

ReadEvents(c) ==
  /\ Executes(c, "readEvents")
  /\ \E page \in {Page(Call(c).filter, Call(c).limit, IF Call(c).resume THEN mark[c] ELSE 0)} :
       /\ Accepts(c, EventsAreExpected(c, page))
       /\ mark' = IF Call(c).remember \in 1..Cardinality(page)
                  THEN [mark EXCEPT ![c] = Nth(page, Call(c).remember)]
                  ELSE mark
  /\ Returns(c)
  /\ UNCHANGED data

(***************************************************************************)
(* A snapshot that does not cover the stored one is dropped.  (Mutant: the *)
(* last one saved wins.)                                                   *)
(***************************************************************************)
Put(map, key, value) ==
  [k \in (DOMAIN map) \cup {key} |-> IF k = key THEN value ELSE map[k]]

KeepsLast(id, snapshot) == Put(snapshots, id, snapshot)

Kept(id, snapshot) ==
  IF id \in DOMAIN snapshots /\ ~Covers(snapshot, snapshots[id])
  THEN snapshots
  ELSE Put(snapshots, id, snapshot)

SaveSnapshot(c) ==
  /\ Executes(c, "saveSnapshot")
  /\ snapshots' = Kept(Call(c).id, Call(c).snapshot)
  /\ Answers(c, "Ok")
  /\ Returns(c)
  /\ UNCHANGED << mark, log, checkpoints, locks >>

LoadSnapshot(c) ==
  /\ Executes(c, "loadSnapshot")
  /\ Accepts(c, Call(c).found = IF Call(c).id \in DOMAIN snapshots
                                THEN snapshots[Call(c).id] ELSE NoSnapshot)
  /\ Returns(c)
  /\ UNCHANGED << mark, data >>

SaveCheckpoint(c) ==
  /\ Executes(c, "saveCheckpoint")
  /\ checkpoints' = Put(checkpoints, Call(c).name, Call(c).position)
  /\ Answers(c, "Ok")
  /\ Returns(c)
  /\ UNCHANGED << mark, log, snapshots, locks >>

LoadCheckpoint(c) ==
  /\ Executes(c, "loadCheckpoint")
  /\ Accepts(c, Call(c).found = IF Call(c).name \in DOMAIN checkpoints
                                THEN checkpoints[Call(c).name] ELSE 0)
  /\ Returns(c)
  /\ UNCHANGED << mark, data >>

(***************************************************************************)
(* Coordination needs no connection: the locks are a set in the process.   *)
(***************************************************************************)
TryAcquire(c) ==
  /\ Running(c, "acquire")
  /\ locks' = locks \cup {Call(c).name}
  /\ Answers(c, IF Call(c).name \in locks THEN "LeadershipNotAcquired" ELSE "Ok")
  /\ UNCHANGED << fixed, mark, log, snapshots, checkpoints, tasks >>

DropGuard(c) ==
  /\ Running(c, "drop")
  /\ locks' = locks \ {Call(c).name}
  /\ Answers(c, "Ok")
  /\ UNCHANGED << fixed, mark, log, snapshots, checkpoints, tasks >>

EndOfScope(c) ==
  /\ verdict[c] # "running"
  /\ GuardsOf(c) # {}
  /\ locks' = locks \ GuardsOf(c)
  /\ UNCHANGED << fixed, step, verdict, mark, log, snapshots, checkpoints, tasks >>

-------------------------------------------------------------------------------
(***************************************************************************)
(* SQLite's tasks.                                                         *)
(***************************************************************************)
Spawn(c) ==
  /\ backend = "sqlite"
  /\ verdict[c] = "running"
  /\ Call(c).op \notin {"acquire", "drop"}
  /\ task[c] = "none"
  /\ task' = [task EXCEPT ![c] = "waiting"]
  /\ received' = [received EXCEPT ![c] = << >>]
  /\ UNCHANGED << fixed, step, verdict, mark, data, conn, rows, inserted, channel >>

LockConnection(c) ==
  /\ task[c] = "waiting"
  /\ conn = None
  /\ conn' = c
  /\ task' = [task EXCEPT ![c] = "holding"]
  /\ UNCHANGED << fixed, step, verdict, mark, data, rows, inserted, channel, received >>

(***************************************************************************)
(* append_events: an uncommitted transaction is rolled back when it is     *)
(* dropped.                                                                *)
(***************************************************************************)
Conflict(c) ==
  /\ backend = "sqlite"
  /\ Executes(c, "append")
  /\ ~VersionsMatch(Call(c))
  /\ Answers(c, "VersionConflict")
  /\ Returns(c)
  /\ UNCHANGED << mark, data >>

Validated(c) ==
  /\ backend = "sqlite"
  /\ Executes(c, "append")
  /\ VersionsMatch(Call(c))
  /\ task' = [task EXCEPT ![c] = "inserting"]
  /\ rows' = [rows EXCEPT ![c] = NewRows(Call(c))]
  /\ UNCHANGED << fixed, step, verdict, mark, data, conn, inserted, channel, received >>

ChunkEnd(c) == IF Len(rows[c]) < ChunkSize THEN Len(rows[c]) ELSE ChunkSize

(***************************************************************************)
(* (Mutant: without a transaction, each statement commits by itself.)      *)
(***************************************************************************)
InsertCommitted(c) ==
  /\ task[c] = "inserting" /\ rows[c] # << >>
  /\ log' = log \o SubSeq(rows[c], 1, ChunkEnd(c))
  /\ rows' = [rows EXCEPT ![c] = SubSeq(@, ChunkEnd(c) + 1, Len(@))]
  /\ UNCHANGED << fixed, step, verdict, mark, snapshots, checkpoints, locks,
                  conn, task, inserted, channel, received >>

InsertChunk(c) ==
  /\ task[c] = "inserting" /\ rows[c] # << >>
  /\ inserted' = [inserted EXCEPT ![c] = @ \o SubSeq(rows[c], 1, ChunkEnd(c))]
  /\ rows' = [rows EXCEPT ![c] = SubSeq(@, ChunkEnd(c) + 1, Len(@))]
  /\ UNCHANGED << fixed, step, verdict, mark, data, conn, task, channel, received >>

Commit(c) ==
  /\ task[c] = "inserting" /\ rows[c] = << >>
  /\ log' = log \o inserted[c]
  /\ inserted' = [inserted EXCEPT ![c] = << >>]
  /\ Answers(c, "Ok")
  /\ ReleaseConnection(c)
  /\ UNCHANGED << fixed, mark, snapshots, checkpoints, locks, rows, channel, received >>

StatementFails(c) ==
  /\ task[c] \in {"holding", "inserting"}
  /\ Call(c).op # "readStream"
  /\ Ends(c, "store_error")
  /\ rows' = [rows EXCEPT ![c] = << >>]
  /\ inserted' = [inserted EXCEPT ![c] = << >>]
  /\ ReleaseConnection(c)
  /\ UNCHANGED << fixed, mark, data, channel, received >>

(***************************************************************************)
(* read_stream: the task sends while the channel has room, and keeps the   *)
(* connection until all rows are sent, a row fails, or the consumer is     *)
(* gone.  (Mutant: one row too many.)                                      *)
(***************************************************************************)
HasRoom(c) == Len(channel[c]) < Capacity

FailedRow == [stream |-> << >>, version |-> 0, type |-> "StoreFailure"]

Query(c) ==
  /\ backend = "sqlite"
  /\ Executes(c, "readStream")
  /\ task' = [task EXCEPT ![c] = "sending"]
  /\ rows' = [rows EXCEPT ![c] = RowsAt({i \in DOMAIN log : /\ log[i].stream = Call(c).stream
                                                           /\ log[i].version > Call(c).after})]
  /\ UNCHANGED << fixed, step, verdict, mark, data, conn, inserted, channel, received >>

SendRow(c) ==
  /\ task[c] = "sending"
  /\ verdict[c] = "running"
  /\ rows[c] # << >>
  /\ HasRoom(c)
  /\ channel' = [channel EXCEPT ![c] = Append(@, Head(rows[c]))]
  /\ rows' = [rows EXCEPT ![c] = Tail(@)]
  /\ UNCHANGED << fixed, step, verdict, mark, data, conn, task, inserted, received >>

ReadFails(c) ==
  /\ \/ task[c] = "holding" /\ Call(c).op = "readStream"
     \/ task[c] = "sending" /\ rows[c] # << >>
  /\ HasRoom(c)
  /\ channel' = [channel EXCEPT ![c] = Append(@, FailedRow)]
  /\ rows' = [rows EXCEPT ![c] = << >>]
  /\ task' = [task EXCEPT ![c] = "sending"]
  /\ UNCHANGED << fixed, step, verdict, mark, data, conn, inserted, received >>

(***************************************************************************)
(* The task ends: it has sent everything, or notices that the consumer has *)
(* dropped the stream.  (Mutant: it keeps the connection.)                 *)
(***************************************************************************)
TaskEndsHolding(c) ==
  /\ task[c] = "sending"
  /\ conn = c
  /\ rows[c] = << >> \/ verdict[c] # "running"
  /\ UNCHANGED << fixed, step, verdict, mark, data, conn, task, rows, inserted,
                  channel, received >>

TaskEnds(c) ==
  /\ task[c] = "sending"
  /\ conn = c
  /\ rows[c] = << >> \/ verdict[c] # "running"
  /\ conn' = None
  /\ rows' = [rows EXCEPT ![c] = << >>]
  /\ UNCHANGED << fixed, step, verdict, mark, data, task, inserted, channel, received >>

\* the consumer decodes the next row; a failure ends its test
Receive(c) ==
  /\ task[c] = "sending"
  /\ verdict[c] = "running"
  /\ channel[c] # << >>
  /\ channel' = [channel EXCEPT ![c] = Tail(@)]
  /\ received' = [received EXCEPT ![c] = Append(@, Head(channel[c]))]
  /\ CASE Head(channel[c]).type = "StoreFailure" -> Ends(c, "store_error")
       [] Head(channel[c]).type = Call(c).type -> UNCHANGED << step, verdict >>
       [] OTHER -> Ends(c, IF Call(c).expects = "DeserializationFailed"
                           THEN "passed" ELSE "assertion")
  /\ UNCHANGED << fixed, mark, data, conn, task, rows, inserted >>

\* the channel is closed and empty: the whole stream is collected
StreamEnds(c) ==
  /\ task[c] = "sending"
  /\ verdict[c] = "running"
  /\ conn # c
  /\ channel[c] = << >>
  /\ Accepts(c, StreamIsExpected(Call(c), received[c]))
  /\ task' = [task EXCEPT ![c] = "none"]
  /\ UNCHANGED << fixed, mark, data, conn, rows, inserted, channel, received >>

-------------------------------------------------------------------------------
Step(c) ==
  \/ AppendEvents(c) \/ ReadStream(c) \/ ReadEvents(c)
  \/ SaveSnapshot(c) \/ LoadSnapshot(c) \/ SaveCheckpoint(c) \/ LoadCheckpoint(c)
  \/ TryAcquire(c) \/ DropGuard(c) \/ EndOfScope(c)
  \/ Spawn(c) \/ LockConnection(c)
  \/ Conflict(c) \/ Validated(c) \/ InsertChunk(c) \/ Commit(c)
  \/ Query(c) \/ SendRow(c) \/ TaskEnds(c) \/ Receive(c) \/ StreamEnds(c)
  \/ StatementFails(c) \/ ReadFails(c)

Settled(c) ==
  /\ verdict[c] # "running"
  /\ GuardsOf(c) = {}
  /\ conn # c

AllSettled ==
  /\ \A c \in Clients : Settled(c)
  /\ UNCHANGED vars

Next == AllSettled \/ \E c \in Clients : Step(c)

Spec == Init /\ [][Next]_vars

(***************************************************************************)
(* The async runtime runs every task that can run.                         *)
(***************************************************************************)
FairSpec == Spec /\ WF_vars(Next)

-------------------------------------------------------------------------------
(***************************************************************************)
(* Whatever runs beside it, on every backend, no test of the suite fails:  *)
(* the answers of append_events, read_stream, read_events, the snapshot,   *)
(* checkpoint and coordination calls are those the contract demands,       *)
(* unless a statement of the database fails.                               *)
(***************************************************************************)
SuitePasses == \A c \in Clients : verdict[c] # "assertion"

Answered(c) == IF verdict[c] = "passed" THEN Len(script[c]) ELSE step[c] - 1

Accepted(call) == IF call.op = "append" /\ call.expects = "Ok" THEN call.batch ELSE << >>

AcceptedBatches(c) == FlattenSeq([i \in 1..Answered(c) |-> Accepted(script[c][i])])

OwnRows(c) == {i \in DOMAIN log : c \in ToSet(log[i].stream)}

(***************************************************************************)
(* The log holds exactly the batches that were accepted, whole and in      *)
(* order, and none of what was refused or rolled back, at every moment;    *)
(* the versions of a stream count its events.                              *)
(***************************************************************************)
LogIsAcceptedBatches ==
  /\ \A c \in Clients :
       LET own == OwnRows(c)
           batches == AcceptedBatches(c)
       IN /\ Cardinality(own) = Len(batches)
          /\ \A i \in own : log[i].stream = batches[Cardinality({j \in own : j <= i})]
  /\ \A i \in DOMAIN log :
       log[i].version = Cardinality({j \in 1..i : log[j].stream = log[i].stream})

(***************************************************************************)
(* Every test ends, gives back its guards, and leaves the connection free: *)
(* an open stream, a full channel or a failed statement blocks nobody for  *)
(* ever.                                                                   *)
(***************************************************************************)
EveryTestEnds == <>(\A c \in Clients : Settled(c))
===============================================================================
