--------------------------- MODULE ProjectionContract ---------------------------
(***************************************************************************)
(* TransactionalProjection under its contract tests: each script of        *)
(* ProjectionSuite directs the calls, and what the fixtures observe is     *)
(* compared with what the test asserts.  One more behaviour, test 0, has   *)
(* no script: two calls run freely, with every failure.                    *)
(***************************************************************************)
EXTENDS TransactionalProjection

CONSTANTS Own, Another,  \* the identity tests are configured with, and another
          FreeCalls      \* the calls of test 0

ASSUME RunnersAssumption == Runners = 1..3 /\ FreeCalls \subseteq Runners
ASSUME IdentitiesAssumption == Own \in Identities /\ Another \in Identities
ASSUME PositionsAssumption == \A p \in 1..MaxPosition : p \in Selected <=> p % 2 = 0

INSTANCE ProjectionSuite

VARIABLES
  test,      \* the test, 0 for none
  step,      \* its next step
  verdict,   \* "running", "passed" or "assertion"
  observed   \* what the fixture observes beside the destination

suite == << test, step, verdict, observed >>
suiteVars == << vars, suite >>

Script == Tests[test]

InitTest ==
  /\ test \in 0..Len(Tests)
  /\ step = 1
  /\ verdict = IF test = 0 THEN "none" ELSE "running"
  /\ observed = IF test = 0 THEN << >> ELSE
                [processed |-> [r \in Runners |-> 0], skipped |-> [r \in Runners |-> 0],
                 through |-> [r \in Runners |-> 0], position |-> [r \in Runners |-> 0],
                 attempts |-> 0, transactions |-> 0, delays |-> << >>, callbacks |-> 0,
                 hooks |-> << >>, hookAttempts |-> 0, idle |-> << >>]

SuiteInit ==
  /\ Init
  /\ InitTest
  /\ identity = [r \in Runners |-> Own]
  /\ IF test = 0
     THEN /\ kind = [r \in Runners |-> "run"]
          /\ \A r \in Runners \ FreeCalls : mode[r] = "Batch"
     ELSE /\ kind = [r \in Runners |-> Script.calls[r].kind]
          /\ mode = [r \in Runners |-> Script.calls[r].mode]

-------------------------------------------------------------------------------
(***************************************************************************)
(* The delay before a retry: initial * multiplier^(n - 1), at most the     *)
(* maximum.  (Mutant: the n-th retry is scaled n times.)                   *)
(***************************************************************************)
ScaledFromTheFirst(policy, retry) ==
  LET scaled == policy.initial * policy.multiplier ^ retry
  IN IF policy.initial > 0 /\ scaled >= policy.maximum THEN policy.maximum ELSE scaled

RetryDelay(policy, retry) ==
  LET scaled == policy.initial * policy.multiplier ^ (retry - 1)
  IN IF policy.initial > 0 /\ scaled >= policy.maximum THEN policy.maximum ELSE scaled

(***************************************************************************)
(* What a step of call r adds to the observation.                          *)
(***************************************************************************)
Moves(r, from, to) == phase[r] = from /\ phase'[r] \in to

Handled(r, from) == Moves(r, from, {"Envelope", "Paging"})

CountIf(condition, count) == IF condition THEN count + 1 ELSE count

AppendIf(condition, seq, element) == IF condition THEN Append(seq, element) ELSE seq

Tried(r) ==
  phase[r] = "Applying" /\ session[r] /\ outcome'[r] # "Decode"

Idles(r) == mode[r] = "Continuous" /\ Moves(r, "Paging", {"CaughtUp"})

IdlesOnEmptySource(r) == mode[r] = "Continuous" /\ Moves(r, "Draining", {"CaughtUp"})

Observe(r) ==
  observed' =
    [observed EXCEPT
       !.processed[r] = CountIf(Handled(r, "Notifying"), @),
       !.skipped[r] = CountIf(Handled(r, "Committing"), @),
       !.through[r] = IF phase[r] = "Draining" THEN through'[r] ELSE @,
       !.position[r] = IF phase[r] = "Envelope" THEN position'[r] ELSE @,
       !.attempts = CountIf(Tried(r), @),
       !.transactions = CountIf(Moves(r, "Beginning", {"Applying"}), @),
       !.delays = AppendIf(Moves(r, "Applying", {"Beginning"}), @,
                           RetryDelay(Script.policy, attempt[r])),
       !.callbacks = CountIf(phase[r] = "Resetting" /\ ~Mismatch(r), @),
       !.hooks = AppendIf(Handled(r, "Notifying"), @, position[r]),
       !.hookAttempts = CountIf(phase[r] = "Notifying", @),
       !.idle = AppendIf(Idles(r) \/ IdlesOnEmptySource(r), @,
                         [effects |-> Len(readModel), progress |-> progress])]

Observation(r) ==
  [outcome |-> outcome[r], processed |-> observed.processed[r],
   skipped |-> observed.skipped[r], through |-> observed.through[r],
   position |-> observed.position[r],
   attempts |-> observed.attempts, transactions |-> observed.transactions,
   delays |-> observed.delays, callbacks |-> observed.callbacks,
   hooks |-> observed.hooks, hookAttempts |-> observed.hookAttempts, idle |-> observed.idle,
   effects |-> Len(readModel), model |-> readModel, progress |-> progress,
   ownsProgress |-> boundTo = Own, leads |-> leader = r]

-------------------------------------------------------------------------------
(***************************************************************************)
(* What the application does at its n-th attempt.                          *)
(***************************************************************************)
Behaviour(n) == IF n \in DOMAIN Script.behaviours THEN Script.behaviours[n] ELSE "Apply"

Behaves(r, behaviour) ==
  CASE behaviour = "Malformed" -> DecodeFails(r)
    [] behaviour = "FailProgress" -> StatementFails(r)
    [] behaviour \in {"Fatal", "ApplyThenFail"} -> ApplyFails(r, "Fatal")
    [] behaviour \in {"Retry", "Skip", "Stop"} -> ApplyFails(r, behaviour)
    [] behaviour \in {"Apply", "AfterCommitFail", "LoseAcknowledgement"} -> Apply(r)

(***************************************************************************)
(* The next step of call r under the test's direction.                     *)
(***************************************************************************)
Directed(r) ==
  CASE phase[r] = "Applying" /\ session[r] -> Behaves(r, Behaviour(observed.attempts + 1))
    [] /\ phase[r] = "Committing" /\ staged[r] = "effect"
       /\ Behaviour(observed.attempts) = "LoseAcknowledgement" ->
         CommitIndeterminate(r) /\ TakesEffect(r)
    [] phase[r] = "Notifying" /\ Behaviour(observed.attempts) = "AfterCommitFail" ->
         AfterCommitFails(r)
    [] phase[r] = "Resetting" /\ Script.reset = "MutateThenFail" -> ResetFails(r)
    [] phase[r] = "Resetting" /\ Script.reset = "FailDeletion" -> StatementFails(r)
    [] OTHER -> Run(r)

-------------------------------------------------------------------------------
(***************************************************************************)
(* The steps of a test.                                                    *)
(***************************************************************************)
Current == Script.steps[step]

Doing(op) == verdict = "running" /\ Current.op = op

Proceeds ==
  IF step < Len(Script.steps)
  THEN step' = step + 1 /\ UNCHANGED << test, verdict >>
  ELSE verdict' = "passed" /\ UNCHANGED << test, step >>

NoCallMoves == UNCHANGED << lock, config, phase, cursor, staged, outcome, observed >>

\* each selected event follows an unselected one
AppendValues ==
  /\ Doing("append")
  /\ frontier' = 2 * (frontier \div 2 + Current.count)
  /\ Proceeds
  /\ NoCallMoves /\ UNCHANGED destination

AppendUnselected ==
  /\ Doing("appendUnselected")
  /\ frontier' = frontier + 1
  /\ Proceeds
  /\ NoCallMoves /\ UNCHANGED destination

SeedProgressIdentity ==
  /\ Doing("seedProgress")
  /\ progress' = Current.position /\ boundTo' = Another
  /\ Proceeds
  /\ NoCallMoves /\ UNCHANGED << frontier, readModel, skipped >>

SeedStaleModel ==
  /\ Doing("seedModel")
  /\ readModel' = << 0 >>
  /\ Proceeds
  /\ NoCallMoves /\ UNCHANGED << frontier, progress, boundTo, skipped >>

\* another connection commits the progress row of the event being applied
CommitElsewhere ==
  /\ Doing("commitElsewhere")
  /\ progress' = observed.position[1] /\ boundTo' = Own
  /\ Proceeds
  /\ NoCallMoves /\ UNCHANGED << frontier, readModel, skipped >>

RunCall ==
  /\ Doing("run")
  /\ phase[Current.call] \notin {Current.until, "Done"}
  /\ Directed(Current.call)
  /\ Observe(Current.call)
  /\ UNCHANGED << test, step, verdict >>

CallIsThere ==
  /\ Doing("run")
  /\ phase[Current.call] \in {Current.until, "Done"}
  /\ Proceeds
  /\ UNCHANGED << vars, observed >>

Poll ==
  /\ Doing("poll")
  /\ Sleep(Current.call)
  /\ Proceeds
  /\ UNCHANGED observed

Cancel ==
  /\ Doing("cancel")
  /\ ReleaseCancelled(Current.call)
  /\ Proceeds
  /\ UNCHANGED observed

TerminateSession ==
  /\ Doing("terminate")
  /\ SessionDies(Current.call)
  /\ Proceeds
  /\ UNCHANGED observed

AsExpected == \A f \in DOMAIN Current.values : Current.values[f] = Observation(Current.call)[f]

Expect ==
  /\ Doing("expect")
  /\ IF AsExpected THEN Proceeds
     ELSE verdict' = "assertion" /\ UNCHANGED << test, step >>
  /\ UNCHANGED << vars, observed >>

\* calls a test never made, or left behind, end with its fixture
DropFixture ==
  /\ verdict # "running"
  /\ \E r \in IF test = 0 THEN Runners \ FreeCalls ELSE Runners : Crash(r)
  /\ UNCHANGED suite

TestStep ==
  \/ AppendValues \/ AppendUnselected \/ SeedProgressIdentity \/ SeedStaleModel
  \/ CommitElsewhere \/ RunCall \/ CallIsThere \/ Poll \/ Cancel \/ TerminateSession
  \/ Expect \/ DropFixture

(***************************************************************************)
(* Test 0: whatever TransactionalProjection allows, with two selected      *)
(* events and at most one retry.                                           *)
(***************************************************************************)
FreeEvents == {Position(1), Position(2)}

Free ==
  /\ test = 0
  /\ \A r \in Runners \ FreeCalls : phase[r] = "Done"

FreeStep ==
  /\ Free
  /\ Next
  /\ frontier' \in {0} \cup FreeEvents
  /\ \A r \in Runners : attempt'[r] <= 2
  /\ UNCHANGED suite

TestIsOver ==
  /\ test # 0
  /\ \A r \in Runners : phase[r] = "Done"
  /\ verdict # "running"
  /\ UNCHANGED suiteVars

SuiteNext == TestStep \/ FreeStep \/ TestIsOver

(***************************************************************************)
(* A test is run to its end; free calls as in TransactionalProjection.     *)
(***************************************************************************)
SuiteSpec ==
  /\ SuiteInit
  /\ [][SuiteNext]_suiteVars
  /\ WF_suiteVars(TestStep)
  /\ \A r \in FreeCalls : WF_suiteVars(Free /\ Progressing(r) /\ UNCHANGED suite)

-------------------------------------------------------------------------------
(***************************************************************************)
(* No assertion of a contract test fails: outcomes, counts, effects,       *)
(* progress, attempts, hooks, delays and idle waits of the calls are those *)
(* the tests of src/eventcore-testing/src/projection_contract.rs demand.   *)
(***************************************************************************)
SuitePasses == verdict # "assertion"

(***************************************************************************)
(* Of calls that run freely beside each other: every selected event the    *)
(* source commits is delivered or skipped, unless no call is left that     *)
(* could do it.                                                            *)
(***************************************************************************)
EveryEventDelivered == \A p \in FreeEvents : IsDelivered(p)

(***************************************************************************)
(* A call in batch mode returns, however fast the source grows.            *)
(***************************************************************************)
BatchReturns == \A r \in FreeCalls : Returns(r)
===============================================================================
