---------------------------- MODULE ExecutePipeline ----------------------------
(***************************************************************************)
(* Command execution: `execute` drives one ExecutePipeline per call, and   *)
(* all pipelines share one event store.  A pipeline reads the declared     *)
(* streams and those its resolver discovers, folding each event into the   *)
(* command's state; the handler turns the state into events; the events    *)
(* are appended with the version of every stream that was read as the      *)
(* expected version; a version conflict starts the command over.           *)
(*                                                                         *)
(* Abstraction of data.  An event is <<command, number>>.  A command's     *)
(* state is what it has folded: of each stream, the events applied.  What  *)
(* user code computes from the state (the streams a resolver names, the    *)
(* events a handler emits, a rejection) is any member of a constant set,   *)
(* which covers every deterministic command.  The order of a batch's       *)
(* events across streams is left out: stream contents do not depend on it. *)
(***************************************************************************)
EXTENDS Integers, Sequences, FiniteSets, SequencesExt

CONSTANTS Commands,   \* the concurrent calls of `execute`
          Streams,    \* stream identifiers
          Declared,   \* Declared[c]: the streams c declares, in order
          Resolver,   \* Resolver[c]: the lists its StreamResolver may return
          Emits,      \* Emits[c]: the batches its handler may emit
          MaxRetries, \* RetryPolicy::max_retries
          ChecksEmptyAppends, \* does the store check versions of a batch without events?
          None        \* no stream

ASSUME DeclaredAssumption == Declared \in [Commands -> Seq(Streams)]
ASSUME ResolverAssumption == Resolver \in [Commands -> SUBSET Seq(Streams)]
ASSUME EmitsAssumption == Emits \in [Commands -> SUBSET [Streams -> Nat]]
ASSUME MaxRetriesAssumption == MaxRetries \in Nat
ASSUME ChecksAssumption == ChecksEmptyAppends \in BOOLEAN
ASSUME NoneAssumption == None \notin Streams

VARIABLES
  streams,    \* the store: streams[s] is the sequence of events of s
  landed,     \* history: landed[c] is how many batches of c the store holds
  phase,      \* ExecutePipeline::phase
  attempt,    \* ExecutePipeline::attempt
  queue,      \* streams still to read, first come first served
  visited,    \* streams whose read has begun
  scheduled,  \* streams ever queued
  current,    \* the stream being read
  opened,     \* what the store returned for it, as of when it was opened
  eventCount, \* events of `opened` folded so far
  read,       \* the keys of expected_versions: streams read to their end
  expected,   \* expected_versions
  folded,     \* the command's state: the events applied, by stream
  writes,     \* the batch in flight
  outcome     \* what `execute` returned

pipeline == << attempt, queue, visited, scheduled, read, expected, folded >>
reading == << current, opened, eventCount >>
vars == << streams, landed, phase, pipeline, reading, writes, outcome >>

Event == Commands \X Nat

NoVersions == [s \in Streams |-> 0]
NoEvents == [s \in Streams |-> << >>]

Init ==
  /\ streams = NoEvents
  /\ landed = [c \in Commands |-> 0]
  /\ phase = [c \in Commands |-> "Init"]
  /\ attempt = [c \in Commands |-> 0]
  /\ queue = [c \in Commands |-> << >>]
  /\ visited = [c \in Commands |-> {}]
  /\ scheduled = [c \in Commands |-> {}]
  /\ current = [c \in Commands |-> None]
  /\ opened = [c \in Commands |-> << >>]
  /\ eventCount = [c \in Commands |-> 0]
  /\ read = [c \in Commands |-> {}]
  /\ expected = [c \in Commands |-> NoVersions]
  /\ folded = [c \in Commands |-> NoEvents]
  /\ writes = [c \in Commands |-> NoVersions]
  /\ outcome = [c \in Commands |-> "none"]

-------------------------------------------------------------------------------
(***************************************************************************)
(* The event store, as its trait describes it.                             *)
(***************************************************************************)

(***************************************************************************)
(* read_stream: the events of a stream as of the moment it is opened; a    *)
(* stream nobody wrote to is empty.                                        *)
(***************************************************************************)
ReadStream(s) == streams[s]

CurrentVersion(s) == Len(streams[s])

IsEmptyBatch(batch) == \A s \in Streams : batch[s] = 0

(***************************************************************************)
(* append_events accepts a batch when every registered stream, written or  *)
(* only read, is still at its expected version.  The SQL and file stores   *)
(* return early for a batch without events.  (Mutant: only the streams the *)
(* batch writes to are checked.)                                           *)
(***************************************************************************)
WrittenVersionsMatch(keys, versions, batch) ==
  \A s \in keys : batch[s] > 0 => CurrentVersion(s) = versions[s]

VersionsMatch(keys, versions, batch) ==
  \/ ~ChecksEmptyAppends /\ IsEmptyBatch(batch)
  \/ \A s \in keys : CurrentVersion(s) = versions[s]

Batch(c, n) == [i \in 1..n |-> << c, i >>]

(***************************************************************************)
(* All events of the batch become visible together.                        *)
(***************************************************************************)
Land(c) ==
  /\ streams' = [s \in Streams |-> streams[s] \o Batch(c, writes[c][s])]
  /\ landed' = [landed EXCEPT ![c] = IF IsEmptyBatch(writes[c]) THEN @ ELSE @ + 1]

-------------------------------------------------------------------------------
(***************************************************************************)
(* The pipeline.                                                           *)
(***************************************************************************)
Finish(c, answer) ==
  /\ phase' = [phase EXCEPT ![c] = "Done"]
  /\ outcome' = [outcome EXCEPT ![c] = answer]

(***************************************************************************)
(* Mutant: the state of the failed attempt is carried into the next one.   *)
(***************************************************************************)
StartKeepingState(c) ==
  /\ phase[c] = "Init"
  /\ phase' = [phase EXCEPT ![c] = "ReadingStreams"]
  /\ queue' = [queue EXCEPT ![c] = Declared[c]]
  /\ scheduled' = [scheduled EXCEPT ![c] = ToSet(Declared[c])]
  /\ visited' = [visited EXCEPT ![c] = {}]
  /\ read' = [read EXCEPT ![c] = {}]
  /\ expected' = [expected EXCEPT ![c] = NoVersions]
  /\ UNCHANGED << streams, landed, attempt, folded, reading, writes, outcome >>

(***************************************************************************)
(* Phase::Init: every attempt starts from the declared streams and an      *)
(* empty state.                                                            *)
(***************************************************************************)
Start(c) ==
  /\ phase[c] = "Init"
  /\ phase' = [phase EXCEPT ![c] = "ReadingStreams"]
  /\ queue' = [queue EXCEPT ![c] = Declared[c]]
  /\ scheduled' = [scheduled EXCEPT ![c] = ToSet(Declared[c])]
  /\ visited' = [visited EXCEPT ![c] = {}]
  /\ read' = [read EXCEPT ![c] = {}]
  /\ expected' = [expected EXCEPT ![c] = NoVersions]
  /\ folded' = [folded EXCEPT ![c] = NoEvents]
  /\ UNCHANGED << streams, landed, attempt, reading, writes, outcome >>

(***************************************************************************)
(* Phase::ReadingStreams: pop streams until one has not been visited, and  *)
(* open it.                                                                *)
(***************************************************************************)
OpenStream(c) ==
  /\ phase[c] = "ReadingStreams"
  /\ \E k \in 1..Len(queue[c]) :
       /\ queue[c][k] \notin visited[c]
       /\ \A j \in 1..(k - 1) : queue[c][j] \in visited[c]
       /\ queue' = [queue EXCEPT ![c] = SubSeq(@, k + 1, Len(@))]
       /\ visited' = [visited EXCEPT ![c] = @ \cup {queue[c][k]}]
       /\ current' = [current EXCEPT ![c] = queue[c][k]]
       /\ opened' = [opened EXCEPT ![c] = ReadStream(queue[c][k])]
  /\ eventCount' = [eventCount EXCEPT ![c] = 0]
  /\ phase' = [phase EXCEPT ![c] = "AwaitingStreamRead"]
  /\ UNCHANGED << streams, landed, attempt, scheduled, read, expected, folded,
                  writes, outcome >>

(***************************************************************************)
(* StreamEvent: fold one event into the state.                             *)
(***************************************************************************)
ApplyEvent(c) ==
  /\ phase[c] = "AwaitingStreamRead"
  /\ eventCount[c] < Len(opened[c])
  /\ eventCount' = [eventCount EXCEPT ![c] = @ + 1]
  /\ folded' = [folded EXCEPT ![c][current[c]] =
                  Append(@, opened[c][eventCount[c] + 1])]
  /\ UNCHANGED << streams, landed, phase, attempt, queue, visited, scheduled,
                  current, opened, read, expected, writes, outcome >>

(***************************************************************************)
(* The streams of `related` that were never scheduled: once each, in the   *)
(* order of their first occurrence.  The set has exactly one member.       *)
(***************************************************************************)
FirstAt(related, s) ==
  CHOOSE i \in DOMAIN related : /\ related[i] = s
                                /\ \A j \in 1..(i - 1) : related[j] # s

NewlyScheduled(related, known) ==
  { fresh \in UNION {[1..n -> ToSet(related)] : n \in 0..Len(related)} :
      /\ ToSet(fresh) = ToSet(related) \ known
      /\ \A i, j \in DOMAIN fresh :
           i < j => FirstAt(related, fresh[i]) < FirstAt(related, fresh[j]) }

(***************************************************************************)
(* The async stream yields no further item.  (Mutant: it ends only when    *)
(* the reader has caught up with the stream's head.)                       *)
(***************************************************************************)
StreamEndsAtHead(c) == eventCount[c] = CurrentVersion(current[c])

StreamEnded(c) == eventCount[c] = Len(opened[c])

(***************************************************************************)
(* A stream's version is the number of its events.  (Mutant: the position  *)
(* of its last event, counted from 0.)                                     *)
(***************************************************************************)
ZeroBasedVersion(count) == count - 1

VersionAfter(count) == count

(***************************************************************************)
(* StreamEnded: the number of folded events is the expected version; the   *)
(* resolver is asked for further streams with the state so far.            *)
(***************************************************************************)
EndStream(c) ==
  /\ phase[c] = "AwaitingStreamRead"
  /\ StreamEnded(c)
  /\ expected' = [expected EXCEPT ![c][current[c]] = VersionAfter(eventCount[c])]
  /\ read' = [read EXCEPT ![c] = @ \cup {current[c]}]
  /\ \E related \in Resolver[c] : \E fresh \in NewlyScheduled(related, scheduled[c]) :
       /\ queue' = [queue EXCEPT ![c] = @ \o fresh]
       /\ scheduled' = [scheduled EXCEPT ![c] = @ \cup ToSet(fresh)]
  /\ phase' = [phase EXCEPT ![c] = "ReadingStreams"]
  /\ current' = [current EXCEPT ![c] = None]
  /\ opened' = [opened EXCEPT ![c] = << >>]
  /\ eventCount' = [eventCount EXCEPT ![c] = 0]
  /\ UNCHANGED << streams, landed, attempt, visited, folded, writes, outcome >>

(***************************************************************************)
(* StreamReadError: the stream cannot be opened, or an item fails to       *)
(* decode.  It ends the command.                                           *)
(***************************************************************************)
ReadFails(c) ==
  /\ phase[c] = "AwaitingStreamRead"
  /\ Finish(c, "EventStoreError")
  /\ UNCHANGED << streams, landed, pipeline, reading, writes >>

(***************************************************************************)
(* The queue is exhausted.  (Mutant: the declared streams suffice.)        *)
(***************************************************************************)
DeclaredRead(c) ==
  /\ phase[c] = "ReadingStreams"
  /\ ToSet(Declared[c]) \subseteq read[c]

AllRead(c) ==
  /\ phase[c] = "ReadingStreams"
  /\ ToSet(queue[c]) \subseteq visited[c]

(***************************************************************************)
(* Phase::Handling: the handler emits a batch.  Every stream that was read *)
(* is registered; an event for another stream is refused before any I/O.   *)
(***************************************************************************)
Handle(c) ==
  /\ AllRead(c)
  /\ \E batch \in Emits[c] :
       IF \A s \in Streams \ read[c] : batch[s] = 0
       THEN /\ writes' = [writes EXCEPT ![c] = batch]
            /\ phase' = [phase EXCEPT ![c] = "AwaitingAppend"]
            /\ UNCHANGED outcome
       ELSE /\ Finish(c, "UndeclaredStream")
            /\ UNCHANGED writes
  /\ UNCHANGED << streams, landed, pipeline, reading >>

(***************************************************************************)
(* The handler rejects the command: a business rule is violated.           *)
(***************************************************************************)
HandlerRejects(c) ==
  /\ AllRead(c)
  /\ Finish(c, "Rejected")
  /\ UNCHANGED << streams, landed, pipeline, reading, writes >>

(***************************************************************************)
(* The append is accepted, and the caller is told.                         *)
(***************************************************************************)
AppendSucceeds(c) ==
  /\ phase[c] = "AwaitingAppend"
  /\ VersionsMatch(read[c], expected[c], writes[c])
  /\ Land(c)
  /\ Finish(c, "Success")
  /\ UNCHANGED << pipeline, reading, writes >>

(***************************************************************************)
(* Retries are left.  (Mutant: one more than the policy allows.)           *)
(***************************************************************************)
OneRetryMore(c) == attempt[c] <= MaxRetries

MayRetry(c) == attempt[c] < MaxRetries

(***************************************************************************)
(* The append meets a version conflict: nothing is written, and the        *)
(* command starts over after a pause, or gives up.                         *)
(***************************************************************************)
AppendConflicts(c) ==
  /\ phase[c] = "AwaitingAppend"
  /\ ~VersionsMatch(read[c], expected[c], writes[c])
  /\ IF MayRetry(c)
     THEN /\ attempt' = [attempt EXCEPT ![c] = @ + 1]
          /\ phase' = [phase EXCEPT ![c] = "AwaitingRetrySleep"]
          /\ UNCHANGED outcome
     ELSE /\ Finish(c, "ConcurrencyError")
          /\ UNCHANGED attempt
  /\ UNCHANGED << streams, landed, queue, visited, scheduled, read, expected, folded,
                  reading, writes >>

(***************************************************************************)
(* Mutant: any store error is retried, as if it were a conflict.           *)
(***************************************************************************)
RetryAnyError(c) ==
  /\ phase[c] = "AwaitingAppend"
  /\ MayRetry(c)
  /\ \/ UNCHANGED << streams, landed >>
     \/ VersionsMatch(read[c], expected[c], writes[c]) /\ Land(c)
  /\ attempt' = [attempt EXCEPT ![c] = @ + 1]
  /\ phase' = [phase EXCEPT ![c] = "AwaitingRetrySleep"]
  /\ UNCHANGED << queue, visited, scheduled, read, expected, folded, reading, writes,
                  outcome >>

(***************************************************************************)
(* The append fails otherwise.  An error before the commit leaves nothing  *)
(* behind; when the commit's acknowledgement is lost the events are there. *)
(***************************************************************************)
AppendFails(c) ==
  /\ phase[c] = "AwaitingAppend"
  /\ \/ UNCHANGED << streams, landed >>
     \/ VersionsMatch(read[c], expected[c], writes[c]) /\ Land(c)
  /\ Finish(c, "EventStoreError")
  /\ UNCHANGED << pipeline, reading, writes >>

(***************************************************************************)
(* The retry pause is over: back to Phase::Init.                           *)
(***************************************************************************)
Wake(c) ==
  /\ phase[c] = "AwaitingRetrySleep"
  /\ phase' = [phase EXCEPT ![c] = "Init"]
  /\ UNCHANGED << streams, landed, pipeline, reading, writes, outcome >>

Step(c) ==
  \/ Start(c) \/ OpenStream(c) \/ ApplyEvent(c) \/ EndStream(c) \/ ReadFails(c)
  \/ Handle(c) \/ HandlerRejects(c)
  \/ AppendSucceeds(c) \/ AppendConflicts(c) \/ AppendFails(c) \/ Wake(c)

(***************************************************************************)
(* Every call has returned.                                                *)
(***************************************************************************)
AllReturned == /\ \A c \in Commands : phase[c] = "Done"
               /\ UNCHANGED vars

Next == (\E c \in Commands : Step(c)) \/ AllReturned

Spec == Init /\ [][Next]_vars

(***************************************************************************)
(* Each call runs on an executor that keeps polling it, and every store    *)
(* operation returns.  Failures may happen but need not.                   *)
(***************************************************************************)
Progress(c) ==
  \/ Start(c) \/ OpenStream(c) \/ ApplyEvent(c) \/ EndStream(c) \/ Handle(c)
  \/ AppendSucceeds(c) \/ AppendConflicts(c) \/ Wake(c)

FairSpec == Spec /\ \A c \in Commands : WF_vars(Progress(c))

-------------------------------------------------------------------------------
Phases == {"Init", "ReadingStreams", "AwaitingStreamRead", "AwaitingAppend",
           "AwaitingRetrySleep", "Done"}

Outcomes == {"none", "Success", "ConcurrencyError", "UndeclaredStream", "Rejected",
             "EventStoreError"}

(***************************************************************************)
(* The types of all variables; in particular no pipeline ever exceeds the  *)
(* retry policy's max_retries.                                             *)
(***************************************************************************)
TypeOK ==
  /\ streams \in [Streams -> Seq(Event)]
  /\ landed \in [Commands -> Nat]
  /\ phase \in [Commands -> Phases]
  /\ attempt \in [Commands -> 0..MaxRetries]
  /\ queue \in [Commands -> Seq(Streams)]
  /\ visited \in [Commands -> SUBSET Streams]
  /\ scheduled \in [Commands -> SUBSET Streams]
  /\ current \in [Commands -> Streams \cup {None}]
  /\ opened \in [Commands -> Seq(Event)]
  /\ eventCount \in [Commands -> Nat]
  /\ read \in [Commands -> SUBSET Streams]
  /\ expected \in [Commands -> [Streams -> Nat]]
  /\ folded \in [Commands -> [Streams -> Seq(Event)]]
  /\ writes \in [Commands -> [Streams -> Nat]]
  /\ outcome \in [Commands -> Outcomes]
  /\ \A c \in Commands : phase[c] = "AwaitingStreamRead" => current[c] # None

(***************************************************************************)
(* When the handler has run, every declared stream and every stream any    *)
(* resolver call discovered had been read to its end: discovery is closed. *)
(***************************************************************************)
DiscoveryClosed ==
  \A c \in Commands :
    phase[c] = "AwaitingAppend" =>
      ToSet(Declared[c]) \subseteq scheduled[c] /\ scheduled[c] = read[c]

(***************************************************************************)
(* A command that succeeds decided on the present: at the moment its       *)
(* append is accepted, the state it folded is the full content of every    *)
(* stream it read, also of those it does not write to.                     *)
(***************************************************************************)
SuccessIsCurrent ==
  [][\A c \in Commands :
       outcome[c] # "Success" /\ outcome'[c] = "Success" =>
         \A s \in read[c] : folded[c][s] = streams[s]]_vars

(***************************************************************************)
(* What EventStore documents of append_events: when it answers Ok, every   *)
(* registered stream was at its expected version.                          *)
(***************************************************************************)
AppendsAreVerified ==
  [][\A c \in Commands :
       outcome[c] # "Success" /\ outcome'[c] = "Success" =>
         \A s \in read[c] : CurrentVersion(s) = expected[c][s]]_vars

(***************************************************************************)
(* A command decided on the present also at each step at which its events  *)
(* become visible, whatever its caller is told.                            *)
(***************************************************************************)
LandedIsCurrent ==
  [][\A c \in Commands :
       landed'[c] # landed[c] => \A s \in read[c] : folded[c][s] = streams[s]]_vars

(***************************************************************************)
(* The store holds the batch of c exactly: in every stream its events are  *)
(* one block, in order.  The store holds nothing of c.                     *)
(***************************************************************************)
HoldsBatch(c) ==
  \A s \in Streams : \E k \in 0..Len(streams[s]) :
    /\ k + writes[c][s] <= Len(streams[s])
    /\ \A i \in DOMAIN streams[s] :
         IF i \in (k + 1)..(k + writes[c][s]) THEN streams[s][i] = << c, i - k >>
                                              ELSE streams[s][i][1] # c

HoldsNothing(c) == \A s \in Streams : \A i \in DOMAIN streams[s] : streams[s][i][1] # c

(***************************************************************************)
(* A command's batch is in the store whole or not at all, and never twice, *)
(* however many attempts it took; the caller of a successful command finds *)
(* its events there, and after a conflict error or a refusal there are     *)
(* none.                                                                   *)
(***************************************************************************)
AllOrNothing ==
  \A c \in Commands :
    CASE outcome[c] = "Success" -> HoldsBatch(c)
      [] outcome[c] = "EventStoreError" -> HoldsBatch(c) \/ HoldsNothing(c)
      [] OTHER -> HoldsNothing(c)

(***************************************************************************)
(* No conflict is spurious: each one a command met, in any attempt, was    *)
(* caused by another command's batch that had landed meanwhile, a          *)
(* different one each time.  So a command gives up only if more than       *)
(* max_retries others got through.                                         *)
(***************************************************************************)
ConflictsAreEarned ==
  \A c \in Commands :
    attempt[c] + (IF outcome[c] = "ConcurrencyError" THEN 1 ELSE 0)
      <= Cardinality({d \in Commands \ {c} : landed[d] > 0})

(***************************************************************************)
(* Every call of `execute` returns.                                        *)
(***************************************************************************)
Termination == \A c \in Commands : <>(phase[c] = "Done")

(***************************************************************************)
(* Concurrent execution is serializable: seen through this mapping, each   *)
(* command that appends runs in one step (SerialCommands).                 *)
(***************************************************************************)
StatusOf(c) == CASE outcome[c] = "none" -> "running"
                 [] outcome[c] = "Success" -> "succeeded"
                 [] OTHER -> "failed"

ViewOf(c) == IF landed[c] > 0 THEN folded[c] ELSE NoEvents

Serial == INSTANCE SerialCommands
            WITH status <- [c \in Commands |-> StatusOf(c)],
                 view <- [c \in Commands |-> ViewOf(c)]

RunsSerially == Serial!Spec
===============================================================================
