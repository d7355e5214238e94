------------------------ MODULE TransactionalProjection ------------------------
(***************************************************************************)
(* PostgreSQL transactional projections: `run_transactional_projection`,   *)
(* `reset_transactional_projection` and                                    *)
(* `reset_and_replay_transactional_projection`, called concurrently and    *)
(* again after failures, for one projector name.                           *)
(*                                                                         *)
(* A call takes a session-level advisory lock on one physical connection   *)
(* and does all its read-model work in transactions of that connection.    *)
(* The event source is another database: reading it needs no leadership.   *)
(* A call may crash anywhere, its session may die unnoticed, a commit may  *)
(* take effect without being acknowledged.                                 *)
(*                                                                         *)
(* Abstraction of data.  An event is its delivery position; what the       *)
(* application's SQL does is the position added to `readModel`.  Source    *)
(* and selection identity are one value.  Delays are left out.             *)
(***************************************************************************)
EXTENDS Integers, Sequences, FiniteSets, SequencesExt

CONSTANTS Runners,      \* the calls
          Calls,        \* what is called: "run", "reset" (alone) or "replay" (after a reset)
          Modes,        \* PostgresProjectionMode: "Batch" or "Continuous"
          Identities,   \* source and selection identities calls are configured with
          Selected,     \* the delivery positions of selected events
          BatchSize,    \* PostgresProjectionConfig::batch_size
          MaxRetries,   \* ProjectionRetryPolicy::max_retries
          MaxPosition,  \* bound on the number of events
          None

ASSUME CallsAssumption == Calls \subseteq {"run", "reset", "replay"}
ASSUME ModesAssumption == Modes \subseteq {"Batch", "Continuous"}
ASSUME SelectedAssumption == Selected \subseteq Nat \ {0}
ASSUME BatchSizeAssumption == BatchSize \in Nat \ {0}
ASSUME RetriesAssumption == MaxRetries \in Nat
ASSUME MaxPositionAssumption == MaxPosition \in Nat
ASSUME NoRunnerAssumption == None \notin Runners

VARIABLES
  frontier,  \* the source: its committed high-water mark, 0 when empty
  leader,    \* the session holding the projector's advisory lock
  session,   \* session[r]: the server still knows the session of r
  readModel, \* destination: the committed effects, in order
  progress,  \* destination: the position of the progress row, 0 without a row
  boundTo,   \* destination: the identity of the progress row
  skipped,   \* history: positions passed over since the last reset
  kind,      \* what was called
  mode,      \* in which mode
  identity,  \* the identity a call is configured with
  phase,     \* where a call is
  after,     \* drain_cycle: `after`, 0 for none
  through,   \* drain_cycle: `through`
  page,      \* positions of the page still to process
  position,  \* process_envelope: `position`
  attempt,   \* process_envelope: `attempt`
  staged,    \* what the open transaction will do when it commits
  outcome    \* what the call returned

destination == << readModel, progress, boundTo, skipped >>
lock == << leader, session >>
config == << kind, mode, identity >>
cursor == << after, through, page, position, attempt >>
vars == << frontier, lock, destination, config, phase, cursor, staged, outcome >>

Init ==
  /\ frontier = 0
  /\ leader = None
  /\ session = [r \in Runners |-> FALSE]
  /\ readModel = << >> /\ progress = 0 /\ boundTo = None /\ skipped = {}
  /\ kind \in [Runners -> Calls]
  /\ mode \in [Runners -> Modes]
  /\ identity \in [Runners -> Identities]
  /\ phase = [r \in Runners |-> "Start"]
  /\ after = [r \in Runners |-> 0]
  /\ through = [r \in Runners |-> 0]
  /\ page = [r \in Runners |-> {}]
  /\ position = [r \in Runners |-> 0]
  /\ attempt = [r \in Runners |-> 0]
  /\ staged = [r \in Runners |-> "nothing"]
  /\ outcome = [r \in Runners |-> "none"]

-------------------------------------------------------------------------------
(***************************************************************************)
(* Returning.  The call's locals are gone.  A call that fails drops its    *)
(* connection, which closes it: the open transaction is rolled back and    *)
(* the session ends some time later.  A call that ends well releases the   *)
(* lock first, which takes a live session.                                 *)
(***************************************************************************)
Goto(r, where) == phase' = [phase EXCEPT ![r] = where] /\ UNCHANGED outcome

Return(r, answer) ==
  /\ phase' = [phase EXCEPT ![r] = "Done"]
  /\ outcome' = [outcome EXCEPT ![r] = answer]
  /\ after' = [after EXCEPT ![r] = 0]
  /\ through' = [through EXCEPT ![r] = 0]
  /\ page' = [page EXCEPT ![r] = {}]
  /\ position' = [position EXCEPT ![r] = 0]
  /\ attempt' = [attempt EXCEPT ![r] = 0]
  /\ staged' = [staged EXCEPT ![r] = "nothing"]

Fail(r, error) ==
  /\ Return(r, error)
  /\ UNCHANGED << frontier, lock, destination, config >>

Release(r) ==
  /\ session[r]
  /\ leader' = None
  /\ session' = [session EXCEPT ![r] = FALSE]

(***************************************************************************)
(* pg_try_advisory_lock succeeds when no session holds the lock.  (Mutant: *)
(* the lock is not asked for.)                                             *)
(***************************************************************************)
Unguarded(r) == TRUE

LockIsFree(r) == leader = None

(***************************************************************************)
(* acquire_leader: a single try.  Whoever leads runs or resets; after a    *)
(* reset the same leader replays, or is done.                              *)
(***************************************************************************)
AfterAcquire(r) == IF kind[r] = "run" THEN "Loading" ELSE "Resetting"

AfterReset(r) == IF kind[r] = "replay" THEN "Loading" ELSE "Releasing"

Acquire(r) ==
  /\ phase[r] = "Start"
  /\ LockIsFree(r)
  /\ leader' = r
  /\ session' = [session EXCEPT ![r] = TRUE]
  /\ Goto(r, AfterAcquire(r))
  /\ UNCHANGED << frontier, destination, config, cursor, staged >>

Busy(r) ==
  /\ phase[r] = "Start"
  /\ ~LockIsFree(r)
  /\ Fail(r, "LeadershipBusy")

(***************************************************************************)
(* No connection is to be had, or the lock query fails.                    *)
(***************************************************************************)
AcquireFails(r) ==
  /\ phase[r] = "Start"
  /\ Fail(r, "LeadershipLost")

(***************************************************************************)
(* A progress row belongs to one source and selection.                     *)
(***************************************************************************)
Mismatch(r) == progress > 0 /\ boundTo # identity[r]

(***************************************************************************)
(* load_validated_progress.                                                *)
(***************************************************************************)
LoadProgress(r) ==
  /\ phase[r] = "Loading"
  /\ session[r]
  /\ ~Mismatch(r)
  /\ after' = [after EXCEPT ![r] = progress]
  /\ Goto(r, "Draining")
  /\ UNCHANGED << frontier, lock, destination, config, through, page, position, attempt, staged >>

(***************************************************************************)
(* drain_cycle captures the high-water mark; an empty source is caught up. *)
(***************************************************************************)
HighWatermark(r) ==
  /\ phase[r] = "Draining"
  /\ through' = [through EXCEPT ![r] = frontier]
  /\ Goto(r, IF frontier = 0 THEN "CaughtUp" ELSE "Paging")
  /\ UNCHANGED << frontier, lock, destination, config, after, page, position, attempt, staged >>

(***************************************************************************)
(* The page read_envelopes returns: the first BatchSize selected positions *)
(* of the range.  The set has exactly one member.  (Mutants: the limit is  *)
(* applied before the selection; the lower bound is included.)             *)
(***************************************************************************)
FirstOf(range) ==
  { some \in SUBSET range :
      /\ \A p \in some, q \in range \ some : p < q
      /\ \/ Cardinality(some) = BatchSize
         \/ some = range /\ Cardinality(some) < BatchSize }

LimitThenSelect(from, to) ==
  { some \cap Selected : some \in FirstOf((from + 1)..to) }

IncludeLowerBound(from, to) ==
  FirstOf({p \in Selected : from <= p /\ p <= to})

ReadEnvelopes(from, to) ==
  FirstOf({p \in Selected : from < p /\ p <= to})

ReadPage(r) ==
  /\ phase[r] = "Paging"
  /\ \E envelopes \in ReadEnvelopes(after[r], through[r]) :
       /\ page' = [page EXCEPT ![r] = envelopes]
       /\ Goto(r, IF envelopes = {} THEN "CaughtUp" ELSE "Envelope")
  /\ UNCHANGED << frontier, lock, destination, config, after, through, position, attempt, staged >>

SourceFails(r) ==
  /\ phase[r] \in {"Draining", "Paging"}
  /\ Fail(r, "Source")

(***************************************************************************)
(* The next envelope of the page, or the next page.                        *)
(***************************************************************************)
NextEnvelope(r) == Goto(r, IF page[r] = {} THEN "Paging" ELSE "Envelope")

(***************************************************************************)
(* The loop of drain_cycle takes the next envelope.                        *)
(***************************************************************************)
TakeEnvelope(r) ==
  /\ phase[r] = "Envelope"
  /\ \E p \in page[r] :
       /\ \A q \in page[r] : p <= q
       /\ position' = [position EXCEPT ![r] = p]
       /\ after' = [after EXCEPT ![r] = p]
       /\ page' = [page EXCEPT ![r] = @ \ {p}]
  /\ attempt' = [attempt EXCEPT ![r] = 1]
  /\ Goto(r, "Beginning")
  /\ UNCHANGED << frontier, lock, destination, config, through, staged >>

(***************************************************************************)
(* process_envelope and skip_position begin a transaction and recheck the  *)
(* progress row; an event that is already committed is passed over.        *)
(***************************************************************************)
Pending(r) == progress < position[r]

Begin(r) ==
  /\ phase[r] \in {"Beginning", "Skipping"}
  /\ session[r]
  /\ ~Mismatch(r)
  /\ IF ~Pending(r) THEN NextEnvelope(r) /\ UNCHANGED staged
     ELSE IF phase[r] = "Skipping"
          THEN Goto(r, "Committing") /\ staged' = [staged EXCEPT ![r] = "skip"]
          ELSE Goto(r, "Applying") /\ UNCHANGED staged
  /\ UNCHANGED << frontier, lock, destination, config, cursor >>

(***************************************************************************)
(* An event the projector cannot decode ends the call.  Which ones those   *)
(* are is up to the projector, which is asked before the first attempt.    *)
(***************************************************************************)
DecodeFails(r) ==
  /\ phase[r] = "Applying" /\ session[r]
  /\ attempt[r] = 1
  /\ Fail(r, "Decode")

(***************************************************************************)
(* The projector applies the event and the progress row is advanced, both  *)
(* in the open transaction.                                                *)
(***************************************************************************)
Apply(r) ==
  /\ phase[r] = "Applying" /\ session[r]
  /\ staged' = [staged EXCEPT ![r] = "effect"]
  /\ Goto(r, "Committing")
  /\ UNCHANGED << frontier, lock, destination, config, cursor >>

(***************************************************************************)
(* An event is applied max_retries + 1 times.  (Mutant: once more.)        *)
(***************************************************************************)
ExhaustedLate(r) == attempt[r] > MaxRetries + 1

RetriesExhausted(r) == attempt[r] > MaxRetries

(***************************************************************************)
(* The projector fails; the transaction is rolled back and the projector   *)
(* decides what happens to the event.                                      *)
(***************************************************************************)
ApplyFails(r, decision) ==
  /\ phase[r] = "Applying" /\ session[r]
  /\ CASE decision = "Retry" /\ ~RetriesExhausted(r) ->
            /\ Goto(r, "Beginning")
            /\ attempt' = [attempt EXCEPT ![r] = @ + 1]
            /\ UNCHANGED << after, through, page, position, staged >>
       [] decision = "Retry" /\ RetriesExhausted(r) -> Return(r, "RetryExhausted")
       [] decision = "Skip" -> Goto(r, "Skipping") /\ UNCHANGED << cursor, staged >>
       [] decision = "Stop" -> Goto(r, "Stopping") /\ UNCHANGED << cursor, staged >>
       [] decision = "Fatal" -> Return(r, "Application")
  /\ UNCHANGED << frontier, lock, destination, config >>

Decisions == {"Retry", "Skip", "Stop", "Fatal"}

-------------------------------------------------------------------------------
(***************************************************************************)
(* The commit of the open transaction takes effect: read model and         *)
(* progress change together.  (Mutant: the effect is committed and the     *)
(* progress row is left for later, as with the checkpoints of              *)
(* `run_projection`.)                                                      *)
(***************************************************************************)
EffectOnly(r) ==
  /\ readModel' = IF staged[r] = "effect" THEN Append(readModel, position[r]) ELSE readModel
  /\ UNCHANGED << progress, boundTo, skipped >>

TakesEffect(r) ==
  CASE staged[r] = "reset" ->
         readModel' = << >> /\ progress' = 0 /\ boundTo' = None /\ skipped' = {}
    [] staged[r] = "effect" ->
         /\ readModel' = Append(readModel, position[r])
         /\ progress' = position[r] /\ boundTo' = identity[r]
         /\ UNCHANGED skipped
    [] staged[r] = "skip" ->
         /\ skipped' = skipped \cup {position[r]}
         /\ progress' = position[r] /\ boundTo' = identity[r]
         /\ UNCHANGED readModel

Commit(r) ==
  /\ phase[r] = "Committing" /\ session[r]
  /\ TakesEffect(r)
  /\ CASE staged[r] = "effect" -> Goto(r, "Notifying")
       [] staged[r] = "skip" -> NextEnvelope(r)
       [] staged[r] = "reset" -> Goto(r, AfterReset(r))
  /\ staged' = [staged EXCEPT ![r] = "nothing"]
  /\ UNCHANGED << frontier, lock, config, cursor >>

(***************************************************************************)
(* The commit is not acknowledged; it may have taken effect all the same.  *)
(***************************************************************************)
CommitIndeterminate(r) ==
  /\ phase[r] = "Committing"
  /\ \/ UNCHANGED destination
     \/ session[r] /\ TakesEffect(r)
  /\ Return(r, "CommitIndeterminate")
  /\ UNCHANGED << frontier, lock, config >>

(***************************************************************************)
(* The after-commit action runs once the commit was acknowledged.          *)
(***************************************************************************)
AfterCommit(r) ==
  /\ phase[r] = "Notifying"
  /\ NextEnvelope(r)
  /\ UNCHANGED << frontier, lock, destination, config, cursor, staged >>

AfterCommitFails(r) ==
  /\ phase[r] = "Notifying"
  /\ Fail(r, "AfterCommitFailed")

(***************************************************************************)
(* The end of a drain cycle.  A batch call returns; a continuous one       *)
(* sleeps and looks again, or is cancelled.  (Mutant: it looks again with  *)
(* the high-water mark of the first cycle.)                                *)
(***************************************************************************)
ReleaseCaughtUp(r) ==
  /\ phase[r] = "CaughtUp" /\ mode[r] = "Batch"
  /\ Release(r)
  /\ Return(r, "CaughtUp")
  /\ UNCHANGED << frontier, destination, config >>

SleepAndKeepMark(r) ==
  /\ phase[r] = "CaughtUp" /\ mode[r] = "Continuous"
  /\ Goto(r, "Paging")
  /\ UNCHANGED << frontier, lock, destination, config, cursor, staged >>

Sleep(r) ==
  /\ phase[r] = "CaughtUp" /\ mode[r] = "Continuous"
  /\ Goto(r, "Draining")
  /\ UNCHANGED << frontier, lock, destination, config, cursor, staged >>

ReleaseCancelled(r) ==
  /\ phase[r] = "CaughtUp" /\ mode[r] = "Continuous"
  /\ Release(r)
  /\ Return(r, "Cancelled")
  /\ UNCHANGED << frontier, destination, config >>

ReleaseStopped(r) ==
  /\ phase[r] = "Stopping"
  /\ Release(r)
  /\ Return(r, "Stopped")
  /\ UNCHANGED << frontier, destination, config >>

-------------------------------------------------------------------------------
(***************************************************************************)
(* reset_with_leader: the application's reset code and the deletion of the *)
(* progress row share a transaction.                                       *)
(***************************************************************************)
StageReset(r) ==
  /\ phase[r] = "Resetting" /\ session[r]
  /\ ~Mismatch(r)
  /\ staged' = [staged EXCEPT ![r] = "reset"]
  /\ Goto(r, "Committing")
  /\ UNCHANGED << frontier, lock, destination, config, cursor >>

ResetFails(r) ==
  /\ phase[r] = "Resetting" /\ session[r]
  /\ Fail(r, "Callback")

ReleaseReset(r) ==
  /\ phase[r] = "Releasing"
  /\ Release(r)
  /\ Return(r, "Reset")
  /\ UNCHANGED << frontier, destination, config >>

-------------------------------------------------------------------------------
(***************************************************************************)
(* Failures.                                                               *)
(***************************************************************************)

(***************************************************************************)
(* The progress row belongs to another source or selection.                *)
(***************************************************************************)
IdentityMismatch(r) ==
  /\ phase[r] \in {"Loading", "Beginning", "Skipping", "Resetting"} /\ session[r]
  /\ Mismatch(r)
  /\ Fail(r, "IdentityMismatch")

(***************************************************************************)
(* A statement of the open transaction fails; it is rolled back.           *)
(***************************************************************************)
StatementFails(r) ==
  /\ phase[r] \in {"Loading", "Beginning", "Applying", "Skipping", "Resetting"} /\ session[r]
  /\ Fail(r, "Progress")

(***************************************************************************)
(* The server ends the session: the lock is free and the open transaction  *)
(* is gone.  The call does not notice before it uses the connection.       *)
(***************************************************************************)
SessionDies(r) ==
  /\ session[r]
  /\ session' = [session EXCEPT ![r] = FALSE]
  /\ leader' = None
  /\ staged' = [staged EXCEPT ![r] = "nothing"]
  /\ UNCHANGED << frontier, destination, config, phase, cursor, outcome >>

LeadershipLost(r) ==
  /\ ~session[r]
  /\ phase[r] \in {"Loading", "Beginning", "Applying", "Skipping", "Stopping", "CaughtUp",
                   "Resetting", "Releasing"}
  /\ Fail(r, "LeadershipLost")

(***************************************************************************)
(* The process dies, or the caller drops the future.                       *)
(***************************************************************************)
Crash(r) ==
  /\ phase[r] # "Done"
  /\ Fail(r, "Crashed")

(***************************************************************************)
(* The source commits another batch of events: the trigger assigns         *)
(* consecutive positions, and they become visible together.                *)
(***************************************************************************)
Publish ==
  /\ \E last \in (frontier + 1)..MaxPosition : frontier' = last
  /\ UNCHANGED << lock, destination, config, phase, cursor, staged, outcome >>

(***************************************************************************)
(* Steps that happen if the call is left to run, and failures.             *)
(***************************************************************************)
Run(r) ==
  \/ Acquire(r) \/ Busy(r) \/ LoadProgress(r) \/ HighWatermark(r) \/ ReadPage(r)
  \/ TakeEnvelope(r) \/ Begin(r) \/ Apply(r) \/ Commit(r) \/ AfterCommit(r)
  \/ ReleaseCaughtUp(r) \/ Sleep(r) \/ ReleaseStopped(r) \/ StageReset(r) \/ ReleaseReset(r)
  \/ IdentityMismatch(r) \/ LeadershipLost(r)

Disturb(r) ==
  \/ AcquireFails(r) \/ SourceFails(r) \/ DecodeFails(r)
  \/ (\E decision \in Decisions : ApplyFails(r, decision))
  \/ CommitIndeterminate(r) \/ AfterCommitFails(r) \/ ReleaseCancelled(r) \/ ResetFails(r)
  \/ StatementFails(r) \/ SessionDies(r) \/ Crash(r)

AllReturned == /\ \A r \in Runners : phase[r] = "Done"
               /\ UNCHANGED vars

Next == Publish \/ (\E r \in Runners : Run(r) \/ Disturb(r)) \/ AllReturned

Spec == Init /\ [][Next]_vars

(***************************************************************************)
(* The steps a call takes if it is polled until it returns, database and   *)
(* source answer, and a commit sent over a dead connection fails: those    *)
(* that fairness is about.  Failures may happen but need not, and the      *)
(* projector's decisions are its own.                                      *)
(***************************************************************************)
Progressing(r) == Run(r) \/ (~session[r] /\ CommitIndeterminate(r))

-------------------------------------------------------------------------------
Phases == {"Start", "Loading", "Draining", "Paging", "Envelope", "Beginning", "Applying",
           "Committing", "Notifying", "Skipping", "CaughtUp", "Stopping", "Resetting",
           "Releasing", "Done"}

Outcomes == {"none", "LeadershipBusy", "Source", "Decode", "RetryExhausted", "Application",
             "CommitIndeterminate", "AfterCommitFailed", "CaughtUp", "Cancelled", "Stopped",
             "Callback", "Reset", "IdentityMismatch", "Progress", "LeadershipLost", "Crashed"}

(***************************************************************************)
(* The types of all variables; in particular an event is applied at most   *)
(* max_retries + 1 times in a row.                                         *)
(***************************************************************************)
TypeOK ==
  /\ frontier \in 0..MaxPosition
  /\ leader \in Runners \cup {None}
  /\ session \in [Runners -> BOOLEAN]
  /\ readModel \in Seq(Nat)
  /\ progress \in Nat
  /\ boundTo \in Identities \cup {None}
  /\ skipped \subseteq Nat
  /\ kind \in [Runners -> Calls]
  /\ mode \in [Runners -> Modes]
  /\ identity \in [Runners -> Identities]
  /\ phase \in [Runners -> Phases]
  /\ after \in [Runners -> Nat]
  /\ through \in [Runners -> Nat]
  /\ page \in [Runners -> SUBSET Nat]
  /\ position \in [Runners -> Nat]
  /\ attempt \in [Runners -> 0..(MaxRetries + 1)]
  /\ staged \in [Runners -> {"nothing", "effect", "skip", "reset"}]
  /\ outcome \in [Runners -> Outcomes]

(***************************************************************************)
(* The read model holds the effects of exactly the selected events up to   *)
(* the committed progress that were not skipped, each once and in order,   *)
(* whatever crashed, lost its session or was retried: no committed         *)
(* progress without its effect, no effect twice.                           *)
(***************************************************************************)
ExactlyOnce ==
  /\ \A i, j \in 1..Len(readModel) : i < j => readModel[i] < readModel[j]
  /\ ToSet(readModel) = {p \in Selected : p <= progress} \ skipped

(***************************************************************************)
(* What a call reports is true when it returns: caught up means that every *)
(* selected event up to the captured high-water mark is committed; after a *)
(* stop, a decoding failure, exhausted retries or a fatal error the event  *)
(* is the next one due.                                                    *)
(***************************************************************************)
ReportsAreTrue ==
  [][\A r \in Runners :
       /\ outcome[r] = "none" /\ outcome'[r] = "CaughtUp" =>
            \A p \in Selected : p <= through[r] => p <= progress
       /\ outcome[r] = "none" /\ outcome'[r] \in {"Stopped", "Decode", "RetryExhausted",
                                                   "Application"} =>
            /\ progress < position[r]
            /\ \A p \in Selected : p <= progress \/ position[r] <= p]_vars

(***************************************************************************)
(* An event the source commits is delivered or skipped, unless no call is  *)
(* left that could do it.  A call in batch mode returns.                   *)
(***************************************************************************)
IsDelivered(p) == frontier >= p ~> (progress >= p \/ \A r \in Runners : phase[r] = "Done")

Returns(r) == <>(phase[r] = "Done" \/ mode[r] = "Continuous")

(***************************************************************************)
(* The facility keeps the promise of ExactlyOnceDelivery.                  *)
(***************************************************************************)
Delivery == INSTANCE ExactlyOnceDelivery

DeliversExactlyOnce == Delivery!Spec
===============================================================================
