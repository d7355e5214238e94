----------------------------- MODULE ProjectionSuite -----------------------------
(***************************************************************************)
(* The behavioural contract tests of transactional projections.  A test is *)
(* a script: what the application does at each attempt (`behaviours`),     *)
(* what its reset code does (`reset`), the calls it makes, the retry       *)
(* policy, and its steps.  Calls are numbered in the order the test makes  *)
(* them; a call runs to the phase its step names, which is where the       *)
(* fixtures of the code put their gates.                                   *)
(*                                                                         *)
(* The k-th selected event has position 2k: unselected events of other     *)
(* streams are in between.  Sizes are scaled: pages of 2 everywhere, and   *)
(* 3 retries where a test allows 2.  A payload is its position, the model  *)
(* total the sequence of positions applied.                                *)
(***************************************************************************)
EXTENDS Integers, Sequences

Position(k) == 2 * k

-------------------------------------------------------------------------------
(***************************************************************************)
(* The steps of a test.                                                    *)
(***************************************************************************)
AppendsValues(n) == [op |-> "append", count |-> n]
AppendsUnselected == [op |-> "appendUnselected"]
SeedsProgress(position) == [op |-> "seedProgress", position |-> position]
SeedsStaleModel == [op |-> "seedModel"]
CommitsElsewhere == [op |-> "commitElsewhere"]
Runs(call, until) == [op |-> "run", call |-> call, until |-> until]
Completes(call) == Runs(call, "Done")
Polls(call) == [op |-> "poll", call |-> call]
Cancels(call) == [op |-> "cancel", call |-> call]
TerminatesSession(call) == [op |-> "terminate", call |-> call]
\* A failed call drops its connection, which is closed in the background; a test that
\* calls again has queried the database in between, which gives the server the time.
AwaitsConnectionClose(call) == TerminatesSession(call)
\* what the test asserts: any of the fields the observation has
Expects(call, values) == [op |-> "expect", call |-> call, values |-> values]

\* ProjectionRetryPolicy; delays in milliseconds
NoDelay == [initial |-> 0, multiplier |-> 1, maximum |-> 0]
AnHour == 3600000
Overflowing == 100   \* f64::MAX: any multiplier that exceeds the cap at once

Batch(kind) == [kind |-> kind, mode |-> "Batch"]
BatchRun == Batch("run")
ContinuousRun == [kind |-> "run", mode |-> "Continuous"]

Test(behaviours, steps) ==
  [behaviours |-> behaviours, reset |-> "Succeed", calls |-> << BatchRun, BatchRun, BatchRun >>,
   policy |-> NoDelay, steps |-> steps]

ResetTest(calls, reset, steps) ==
  [Test(<< >>, steps) EXCEPT !.calls = calls, !.reset = reset]

CaughtUp(processed, skipped, through) ==
  [outcome |-> "CaughtUp", processed |-> processed, skipped |-> skipped, through |-> through]

-------------------------------------------------------------------------------
(***************************************************************************)
(* Effects and progress.                                                   *)
(***************************************************************************)
TransactionalProjectionContract ==
  Test(<< "Apply" >>,
       << AppendsValues(1),
          Completes(1),
          Expects(1, [effects |-> 1, progress |-> Position(1), ownsProgress |-> TRUE]),
          Expects(1, CaughtUp(1, 0, Position(1))),
          Completes(2),
          Expects(2, [effects |-> 1, progress |-> Position(1), ownsProgress |-> TRUE]),
          Expects(2, CaughtUp(0, 0, Position(1))) >>)

MutationFailureRollsBack ==
  Test(<< "ApplyThenFail" >>,
       << AppendsValues(1),
          Completes(1),
          Expects(1, [outcome |-> "Application", position |-> Position(1),
                      effects |-> 0, progress |-> 0]) >>)

ProgressFailureRollsBack ==
  Test(<< "FailProgress" >>,
       << AppendsValues(1),
          Completes(1),
          Expects(1, [outcome |-> "Progress", position |-> Position(1),
                      effects |-> 0, progress |-> 0]) >>)

RestartResumesFromCommittedPosition ==
  Test(<< >>,
       << AppendsValues(1),
          Completes(1),
          AppendsValues(1),
          Completes(2),
          Expects(2, CaughtUp(1, 0, Position(2))),
          Expects(2, [effects |-> 2, progress |-> Position(2), ownsProgress |-> TRUE]) >>)

MalformedSelectedInput ==
  Test(<< "Malformed" >>,
       << AppendsValues(1),
          Completes(1),
          Expects(1, [outcome |-> "Decode", position |-> Position(1), effects |-> 0,
                      attempts |-> 0, progress |-> 0]) >>)

\* the source and the selection identity are one value here
IdentityMismatchPrecedesApply ==
  Test(<< >>,
       << AppendsValues(1),
          SeedsProgress(Position(1)),
          Completes(1),
          Expects(1, [outcome |-> "IdentityMismatch", attempts |-> 0, effects |-> 0]) >>)

CommitAcknowledgementLoss ==
  LET durable == [effects |-> 1, attempts |-> 1, hooks |-> << >>,
                  progress |-> Position(1), ownsProgress |-> TRUE]
  IN Test(<< "LoseAcknowledgement" >>,
          << AppendsValues(1),
             Completes(1),
             Expects(1, [outcome |-> "CommitIndeterminate", position |-> Position(1)]),
             Expects(1, durable),
             AwaitsConnectionClose(1),
             Completes(2),
             Expects(2, CaughtUp(0, 0, Position(1))),
             Expects(2, durable) >>)

-------------------------------------------------------------------------------
(***************************************************************************)
(* The projector's decisions.  Every attempt has a transaction of its own; *)
(* the rows attempts write through it are kept by the one that commits.    *)
(***************************************************************************)
RetryExhaustion ==
  [Test(<< "Retry", "Retry", "Retry", "Retry" >>,
        << AppendsValues(1),
           Completes(1),
           Expects(1, [outcome |-> "RetryExhausted", position |-> Position(1), attempts |-> 4,
                       transactions |-> 4, effects |-> 0, progress |-> 0, hooks |-> << >>,
                       hookAttempts |-> 0]) >>)
   EXCEPT !.policy = [initial |-> AnHour, multiplier |-> 3, maximum |-> 0]]

TransientRetrySuccess ==
  [Test(<< "Retry", "Apply" >>,
        << AppendsValues(1),
           Completes(1),
           Expects(1, CaughtUp(1, 0, Position(1))),
           Expects(1, [attempts |-> 2, transactions |-> 2, delays |-> << 50 >>, effects |-> 1,
                       progress |-> Position(1), hooks |-> << Position(1) >>,
                       hookAttempts |-> 1]) >>)
   EXCEPT !.policy = [initial |-> AnHour, multiplier |-> 2, maximum |-> 50]]

BacksOff(multiplier, delays) ==
  [Test(<< "Retry", "Retry", "Retry", "Apply" >>,
        << AppendsValues(1),
           Completes(1),
           Expects(1, CaughtUp(1, 0, Position(1))),
           Expects(1, [attempts |-> 4, transactions |-> 4, delays |-> delays, effects |-> 1,
                       progress |-> Position(1), ownsProgress |-> TRUE,
                       hooks |-> << Position(1) >>, hookAttempts |-> 1]) >>)
   EXCEPT !.policy = [initial |-> 10, multiplier |-> multiplier, maximum |-> 25]]

ExponentialRetryBackoff == BacksOff(2, << 10, 20, 25 >>)

FiniteOverflowRetryBackoff == BacksOff(Overflowing, << 10, 25, 25 >>)

RetryReloadsProgress ==
  Test(<< "Retry" >>,
       << AppendsValues(1),
          Runs(1, "Applying"),
          CommitsElsewhere,
          Completes(1),
          Expects(1, CaughtUp(0, 0, Position(1))),
          Expects(1, [attempts |-> 1, effects |-> 0, progress |-> Position(1),
                      hookAttempts |-> 0]) >>)

ExplicitSkip ==
  Test(<< "Skip" >>,
       << AppendsValues(1),
          Completes(1),
          Expects(1, CaughtUp(0, 1, Position(1))),
          Expects(1, [attempts |-> 1, effects |-> 0, progress |-> Position(1),
                      hooks |-> << >>, hookAttempts |-> 0]) >>)

StopLeavesPositionPending ==
  Test(<< "Apply", "Skip", "Stop" >>,
       << AppendsValues(3),
          Completes(1),
          Expects(1, [outcome |-> "Stopped", position |-> Position(3), processed |-> 1,
                      skipped |-> 1, attempts |-> 3, effects |-> 1,
                      progress |-> Position(2), hooks |-> << Position(1) >>,
                      hookAttempts |-> 1]) >>)

FatalLeavesPositionPending ==
  Test(<< "Fatal" >>,
       << AppendsValues(1),
          Completes(1),
          Expects(1, [outcome |-> "Application", position |-> Position(1), attempts |-> 1,
                      effects |-> 0, progress |-> 0, hooks |-> << >>, hookAttempts |-> 0]) >>)

AfterCommitOrderingAndRollback ==
  Test(<< "Apply", "ApplyThenFail" >>,
       << AppendsValues(1),
          Completes(1),
          Expects(1, [hooks |-> << Position(1) >>]),
          AppendsValues(1),
          Completes(2),
          Expects(2, [hookAttempts |-> 1, hooks |-> << Position(1) >>]) >>)

AfterCommitFailure ==
  LET committed == [effects |-> 1, attempts |-> 1, hookAttempts |-> 1, hooks |-> << >>]
  IN Test(<< "AfterCommitFail", "Apply" >>,
          << AppendsValues(1),
             Completes(1),
             Expects(1, [outcome |-> "AfterCommitFailed", position |-> Position(1),
                         progress |-> Position(1)]),
             Expects(1, committed),
             AwaitsConnectionClose(1),
             Completes(2),
             Expects(2, CaughtUp(0, 0, Position(1))),
             Expects(2, committed) >>)

-------------------------------------------------------------------------------
(***************************************************************************)
(* Finite runs.                                                            *)
(***************************************************************************)
MultiPageBatchDrain ==
  Test(<< >>,
       << AppendsValues(5),
          Completes(1),
          Expects(1, CaughtUp(5, 0, Position(5))),
          Expects(1, [effects |-> 5, progress |-> Position(5)]) >>)

InitiallyEmptyBatch ==
  Test(<< >>,
       << Completes(1),
          Expects(1, CaughtUp(0, 0, 0)),
          Expects(1, [effects |-> 0, progress |-> 0]) >>)

NoMatchBatch ==
  Test(<< >>,
       << AppendsUnselected,
          Completes(1),
          Expects(1, CaughtUp(0, 0, 1)),
          Expects(1, [effects |-> 0, progress |-> 0]) >>)

TrailingUnselectedFrontier ==
  Test(<< >>,
       << AppendsValues(1),
          AppendsUnselected,
          Completes(1),
          Expects(1, CaughtUp(1, 0, Position(1) + 1)),
          Expects(1, [effects |-> 1, progress |-> Position(1)]) >>)

EmptySourceIdentityValidation ==
  Test(<< >>,
       << SeedsProgress(1),
          Completes(1),
          Expects(1, [outcome |-> "IdentityMismatch", attempts |-> 0, effects |-> 0]) >>)

NoMatchIdentityValidation ==
  Test(<< >>,
       << AppendsUnselected,
          SeedsProgress(1),
          Completes(1),
          Expects(1, [outcome |-> "IdentityMismatch", attempts |-> 0, effects |-> 0]) >>)

OverlappingLeadership ==
  Test(<< >>,
       << AppendsValues(1),
          Runs(1, "Applying"),
          Completes(2),
          Expects(2, [outcome |-> "LeadershipBusy"]),
          Completes(1),
          Expects(1, [outcome |-> "CaughtUp", processed |-> 1]) >>)

LeadershipLossFencing ==
  Test(<< >>,
       << AppendsValues(1),
          Runs(1, "Applying"),
          TerminatesSession(1),
          Completes(1),
          Expects(1, [outcome |-> "LeadershipLost", effects |-> 0, progress |-> 0]) >>)

FixedHighWatermark ==
  Test(<< >>,
       << AppendsValues(1),
          Runs(1, "Applying"),
          AppendsValues(1),
          Completes(1),
          Expects(1, CaughtUp(1, 0, Position(1))),
          Expects(1, [progress |-> Position(1)]),
          Completes(2),
          Expects(2, CaughtUp(1, 0, Position(2))) >>)

-------------------------------------------------------------------------------
(***************************************************************************)
(* Continuous runs: an idle wait begins only when every page is drained.   *)
(***************************************************************************)
ContinuousDelivery ==
  [Test(<< >>,
        << AppendsValues(5),
           Runs(1, "CaughtUp"),
           AppendsValues(3),
           Polls(1),
           Runs(1, "CaughtUp"),
           Cancels(1),
           Expects(1, [outcome |-> "Cancelled", processed |-> 8, skipped |-> 0, effects |-> 8,
                       progress |-> Position(8),
                       idle |-> << [effects |-> 5, progress |-> Position(5)],
                                   [effects |-> 8, progress |-> Position(8)] >>]) >>)
   EXCEPT !.calls[1] = ContinuousRun]

ContinuousIdleCancellation ==
  [Test(<< >>,
        << Runs(1, "CaughtUp"),
           Cancels(1),
           Expects(1, [outcome |-> "Cancelled", processed |-> 0, skipped |-> 0, effects |-> 0,
                       progress |-> 0,
                       idle |-> << [effects |-> 0, progress |-> 0] >>]) >>)
   EXCEPT !.calls[1] = ContinuousRun]

-------------------------------------------------------------------------------
(***************************************************************************)
(* Resets.                                                                 *)
(***************************************************************************)
RunThenReset == << BatchRun, Batch("reset"), BatchRun >>
RunThenReplay == << BatchRun, Batch("replay"), BatchRun >>

ResetBusy ==
  ResetTest(RunThenReset, "Succeed",
            << AppendsValues(1),
               Runs(1, "Applying"),
               Completes(2),
               Expects(2, [outcome |-> "LeadershipBusy"]),
               Completes(1) >>)

\* both events are applied; the reset fails and leaves model and progress as they were
ResetRollsBack(reset, error) ==
  LET before == [model |-> << Position(1), Position(2) >>, progress |-> Position(2),
                 ownsProgress |-> TRUE]
  IN ResetTest(RunThenReset, reset,
               << AppendsValues(2),
                  Completes(1),
                  Expects(1, before),
                  Completes(2),
                  Expects(2, [outcome |-> error, callbacks |-> 1]),
                  Expects(2, before) >>)

ResetCallbackFailureRollsBack == ResetRollsBack("MutateThenFail", "Callback")

ResetProgressFailureRollsBack == ResetRollsBack("FailDeletion", "Progress")

SuccessfulResetIsAtomic ==
  ResetTest(RunThenReset, "Succeed",
            << AppendsValues(2),
               Completes(1),
               Completes(2),
               Expects(2, [outcome |-> "Reset", model |-> << >>, progress |-> 0]) >>)

ResetIdentityValidation ==
  LET before == [model |-> << Position(1) >>, progress |-> Position(1),
                 ownsProgress |-> FALSE, callbacks |-> 0]
  IN ResetTest(RunThenReset, "Succeed",
               << AppendsValues(1),
                  Completes(1),
                  SeedsProgress(Position(1)),
                  Expects(1, before),
                  Completes(2),
                  Expects(2, [outcome |-> "IdentityMismatch"]),
                  Expects(2, before) >>)

ResetAndReplayReconstructsModel ==
  ResetTest(RunThenReplay, "Succeed",
            << AppendsValues(3),
               Completes(1),
               Completes(2),
               Expects(2, CaughtUp(3, 0, Position(3))),
               Expects(2, [model |-> << Position(1), Position(2), Position(3) >>,
                           progress |-> Position(3), ownsProgress |-> TRUE]) >>)

ResetAndReplayRetainsLeadership ==
  ResetTest(RunThenReplay, "Succeed",
            << AppendsValues(1),
               Completes(1),
               Runs(2, "Loading"),
               Expects(2, [model |-> << >>, progress |-> 0, leads |-> TRUE]),
               Completes(3),
               Expects(3, [outcome |-> "LeadershipBusy"]),
               Runs(2, "Applying"),
               Expects(2, [leads |-> TRUE]),
               Completes(2),
               Expects(2, CaughtUp(1, 0, Position(1))) >>)

\* checkpoints of the polling pipeline are a table of their own, which nothing here reads
LegacyCheckpointResetReplay ==
  ResetTest(<< Batch("replay"), BatchRun, BatchRun >>, "Succeed",
            << AppendsValues(2),
               SeedsStaleModel,
               Completes(1),
               Expects(1, CaughtUp(2, 0, Position(2))),
               Expects(1, [model |-> << Position(1), Position(2) >>,
                           progress |-> Position(2), ownsProgress |-> TRUE]) >>)

-------------------------------------------------------------------------------
Tests ==
  << TransactionalProjectionContract, MutationFailureRollsBack, ProgressFailureRollsBack,
     RestartResumesFromCommittedPosition, MalformedSelectedInput,
     IdentityMismatchPrecedesApply, CommitAcknowledgementLoss, RetryExhaustion,
     TransientRetrySuccess, ExponentialRetryBackoff, FiniteOverflowRetryBackoff,
     RetryReloadsProgress, ExplicitSkip, StopLeavesPositionPending,
     FatalLeavesPositionPending, AfterCommitOrderingAndRollback, AfterCommitFailure,
     MultiPageBatchDrain, InitiallyEmptyBatch, NoMatchBatch, TrailingUnselectedFrontier,
     EmptySourceIdentityValidation, NoMatchIdentityValidation, OverlappingLeadership,
     LeadershipLossFencing, FixedHighWatermark, ContinuousDelivery,
     ContinuousIdleCancellation, ResetBusy, ResetCallbackFailureRollsBack,
     ResetProgressFailureRollsBack, SuccessfulResetIsAtomic, ResetIdentityValidation,
     ResetAndReplayReconstructsModel, ResetAndReplayRetainsLeadership,
     LegacyCheckpointResetReplay >>
===============================================================================
