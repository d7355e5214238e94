--------------------------- MODULE ProjectionPipeline ---------------------------
(***************************************************************************)
(* Polling projections: `run_projection` tries once to become the leader   *)
(* of a projector and then drives a ProjectionPipeline over the store's    *)
(* EventReader and CheckpointStore: load the checkpoint, poll a page,      *)
(* apply its events one by one and save the checkpoint after each of them. *)
(* The guard lives beside the pipeline, which never looks at it again.     *)
(*                                                                         *)
(* Abstraction of data.  An event is its position; a page is the set of    *)
(* the events still to be processed, the next one being the smallest       *)
(* (`event_index` counts the ones removed).  What a projector does to its  *)
(* read model is the fact that it handled an event; `on_error` may answer  *)
(* anything.  Delays are left out: a sleep ends at any time.               *)
(***************************************************************************)
EXTENDS Integers, FiniteSets

CONSTANTS Runners,          \* the concurrent calls of run_projection
          None,             \* no runner
          MaxPosition,      \* bound on event positions
          Selected,         \* positions of the events of the projector's type
          Decodable,        \* positions whose data the projector's type decodes
          PageSize,         \* the BatchSize of a poll (1000 in the code)
          MaxRetryAttempts, \* EventRetryConfig::max_retry_attempts
          MaxPollFailures,  \* PollConfig::max_consecutive_poll_failures
          GuardsMayVanish   \* can a running call lose its guard (PostgreSQL)?

ASSUME NoneAssumption == None \notin Runners
ASSUME PositionAssumption == MaxPosition \in Nat
ASSUME SelectedAssumption == Selected \subseteq 1..MaxPosition
ASSUME DecodableAssumption == Decodable \subseteq 1..MaxPosition
ASSUME PageAssumption == PageSize \in Nat \ {0}
ASSUME RetryAssumption == MaxRetryAttempts \in Nat
ASSUME PollAssumption == MaxPollFailures \in Nat \ {0}
ASSUME GuardAssumption == GuardsMayVanish \in BOOLEAN

VARIABLES
  head,       \* the position of the last committed event, 0 for none
  checkpoint, \* the stored checkpoint of the projector, 0 for none
  leader,     \* whose guard the coordinator knows
  handled,    \* history: events applied or skipped at least once
  disturbed,  \* history: has a save failed, or a running call lost its guard?
  mode,       \* poll_mode of each call
  phase,      \* ProjectionPipeline::phase
  cursor,     \* last_checkpoint, 0 for none
  events,     \* the events of the page still to be processed
  retryCount, \* retry_count
  failures,   \* consecutive_failures
  outcome     \* what run_projection returned

world == << head, checkpoint, leader, handled, disturbed >>
locals == << cursor, events, retryCount, failures >>
vars == << world, mode, phase, locals, outcome >>

Eligible == Selected \cap Decodable

Init ==
  /\ head = 0
  /\ checkpoint = 0
  /\ leader = None
  /\ handled = {}
  /\ disturbed = FALSE
  /\ mode \in [Runners -> {"Batch", "Continuous"}]
  /\ phase = [r \in Runners |-> "Start"]
  /\ cursor = [r \in Runners |-> 0]
  /\ events = [r \in Runners |-> {}]
  /\ retryCount = [r \in Runners |-> 0]
  /\ failures = [r \in Runners |-> 0]
  /\ outcome = [r \in Runners |-> "none"]

-------------------------------------------------------------------------------
(***************************************************************************)
(* The store.                                                              *)
(***************************************************************************)

(***************************************************************************)
(* An append commits: the in-memory and SQLite stores draw identifiers     *)
(* while they hold the store, so positions become visible in their order.  *)
(***************************************************************************)
Publish ==
  /\ head < MaxPosition
  /\ head' = head + 1
  /\ UNCHANGED << checkpoint, leader, handled, disturbed, mode, phase, locals, outcome >>

(***************************************************************************)
(* EventPage::after and the filter by event type.  (Mutant: the bound is   *)
(* included.)                                                              *)
(***************************************************************************)
MatchingFrom(after) == { p \in Selected : after <= p /\ p <= head }

Matching(after) == { p \in Selected : after < p /\ p <= head }

(***************************************************************************)
(* S, a set of matching events, is the page: the first PageSize of them.   *)
(* (Mutant: in no order.)                                                  *)
(***************************************************************************)
IsUnorderedPage(S, after) ==
  /\ Cardinality(S) <= PageSize
  /\ S # Matching(after) => Cardinality(S) = PageSize

IsPage(S, after) ==
  /\ Cardinality(S) <= PageSize
  /\ \A p \in S : \A q \in Matching(after) : q < p => q \in S
  /\ S # Matching(after) => Cardinality(S) = PageSize

(***************************************************************************)
(* read_events: rows that do not decode are dropped after the limit.       *)
(***************************************************************************)
Decoded(S) == S \cap Decodable

(***************************************************************************)
(* The coordinator's try_acquire succeeds only if nobody holds the lock.   *)
(* (Mutant: it does not look.)                                             *)
(***************************************************************************)
TakeOver(r) == leader' = r

TryAcquire(r) == leader = None /\ leader' = r

-------------------------------------------------------------------------------
Goto(r, next) == phase' = [phase EXCEPT ![r] = next]

(***************************************************************************)
(* run_projection returns; its guard is dropped then or a little later.    *)
(***************************************************************************)
Return(r, answer) ==
  /\ Goto(r, "Done")
  /\ outcome' = [outcome EXCEPT ![r] = answer]
  /\ cursor' = [cursor EXCEPT ![r] = 0]
  /\ events' = [events EXCEPT ![r] = {}]
  /\ retryCount' = [retryCount EXCEPT ![r] = 0]
  /\ failures' = [failures EXCEPT ![r] = 0]
  /\ UNCHANGED << world, mode >>

BecomeLeader(r) ==
  /\ phase[r] = "Start"
  /\ TryAcquire(r)
  /\ Goto(r, "AwaitingCheckpoint")
  /\ UNCHANGED << head, checkpoint, handled, disturbed, mode, locals, outcome >>

(***************************************************************************)
(* Another call is the leader, or the coordinator cannot be reached.       *)
(***************************************************************************)
NotLeader(r) == phase[r] = "Start" /\ Return(r, "LeadershipError")

LoadCheckpoint(r) ==
  /\ phase[r] = "AwaitingCheckpoint"
  /\ Goto(r, "AwaitingEvents")
  /\ cursor' = [cursor EXCEPT ![r] = checkpoint]
  /\ failures' = [failures EXCEPT ![r] = 0]
  /\ UNCHANGED << world, mode, events, retryCount, outcome >>

LoadFails(r) == phase[r] = "AwaitingCheckpoint" /\ Return(r, "Failed")

(***************************************************************************)
(* A page is read after the cursor.                                        *)
(***************************************************************************)
ReadEvents(r) ==
  /\ phase[r] = "AwaitingEvents"
  /\ \E S \in SUBSET Matching(cursor[r]) : IsPage(S, cursor[r])
                               /\ events' = [events EXCEPT ![r] = Decoded(S)]
  /\ retryCount' = [retryCount EXCEPT ![r] = 0]
  /\ Goto(r, "ProcessingEvents")
  /\ UNCHANGED << world, mode, cursor, failures, outcome >>

TooManyFailures(r) == failures[r] >= MaxPollFailures

(***************************************************************************)
(* The read fails: back off and poll again, a bounded number of times.     *)
(***************************************************************************)
ReadFails(r) ==
  /\ phase[r] = "AwaitingEvents"
  /\ IF TooManyFailures(r)
     THEN Return(r, "Failed")
     ELSE /\ failures' = [failures EXCEPT ![r] = @ + 1]
          /\ Goto(r, "AwaitingPollFailureSleep")
          /\ UNCHANGED << world, mode, cursor, events, retryCount, outcome >>

IsNext(r, p) == p \in events[r] /\ \A q \in events[r] : p <= q

(***************************************************************************)
(* The event was applied or skipped: the cursor moves before the save.     *)
(***************************************************************************)
Advance(r, p) ==
  /\ handled' = handled \cup {p}
  /\ cursor' = [cursor EXCEPT ![r] = p]
  /\ Goto(r, "AwaitingCheckpointSave")
  /\ UNCHANGED << head, checkpoint, leader, disturbed, mode, events, retryCount,
                  failures, outcome >>

Apply(r) ==
  /\ phase[r] = "ProcessingEvents"
  /\ \E p \in events[r] : IsNext(r, p) /\ Advance(r, p)

(***************************************************************************)
(* apply fails and on_error answers Skip.                                  *)
(***************************************************************************)
Skip(r) ==
  /\ phase[r] = "ProcessingEvents"
  /\ \E p \in events[r] : IsNext(r, p) /\ Advance(r, p)

(***************************************************************************)
(* No retry is left.  (Mutant: one more than configured.)                  *)
(***************************************************************************)
ExhaustedLate(r) == retryCount[r] > MaxRetryAttempts

RetriesExhausted(r) == retryCount[r] >= MaxRetryAttempts

(***************************************************************************)
(* apply fails and on_error answers Retry.                                 *)
(***************************************************************************)
Retry(r) ==
  /\ phase[r] = "ProcessingEvents"
  /\ events[r] # {}
  /\ IF RetriesExhausted(r)
     THEN Return(r, "Failed")
     ELSE /\ retryCount' = [retryCount EXCEPT ![r] = @ + 1]
          /\ Goto(r, "AwaitingEventRetrySleep")
          /\ UNCHANGED << world, mode, cursor, events, failures, outcome >>

(***************************************************************************)
(* apply fails and on_error answers Fatal.                                 *)
(***************************************************************************)
Fatal(r) == phase[r] = "ProcessingEvents" /\ events[r] # {} /\ Return(r, "Failed")

NextEvent(r) ==
  /\ events' = [events EXCEPT ![r] = { p \in @ : cursor[r] < p }]
  /\ retryCount' = [retryCount EXCEPT ![r] = 0]
  /\ Goto(r, "ProcessingEvents")

SaveCheckpoint(r) ==
  /\ phase[r] = "AwaitingCheckpointSave"
  /\ checkpoint' = cursor[r]
  /\ NextEvent(r)
  /\ UNCHANGED << head, leader, handled, disturbed, mode, cursor, failures, outcome >>

(***************************************************************************)
(* The save fails, with or without effect: logged and ignored.             *)
(***************************************************************************)
SaveFails(r) ==
  /\ phase[r] = "AwaitingCheckpointSave"
  /\ checkpoint' \in {checkpoint, cursor[r]}
  /\ disturbed' = TRUE
  /\ NextEvent(r)
  /\ UNCHANGED << head, leader, handled, mode, cursor, failures, outcome >>

(***************************************************************************)
(* The page is processed.  Batch mode returns; it does not ask whether the *)
(* page was full.                                                          *)
(***************************************************************************)
PageDone(r) ==
  /\ phase[r] = "ProcessingEvents"
  /\ events[r] = {}
  /\ IF mode[r] = "Batch"
     THEN Return(r, "Ok")
     ELSE /\ Goto(r, "AwaitingPollSleep")
          /\ UNCHANGED << world, mode, locals, outcome >>

WakeForEvent(r) ==
  /\ phase[r] = "AwaitingEventRetrySleep"
  /\ Goto(r, "ProcessingEvents")
  /\ UNCHANGED << world, mode, locals, outcome >>

(***************************************************************************)
(* The failure count survives the back-off.  (Mutant: it starts over.)     *)
(***************************************************************************)
WakeForgetting(r) ==
  /\ phase[r] = "AwaitingPollFailureSleep"
  /\ failures' = [failures EXCEPT ![r] = 0]
  /\ Goto(r, "AwaitingEvents")
  /\ UNCHANGED << world, mode, cursor, events, retryCount, outcome >>

WakeAfterFailure(r) ==
  /\ phase[r] = "AwaitingPollFailureSleep"
  /\ Goto(r, "AwaitingEvents")
  /\ UNCHANGED << world, mode, locals, outcome >>

(***************************************************************************)
(* A continuous call polls again.                                          *)
(***************************************************************************)
WakeForPoll(r) ==
  /\ phase[r] = "AwaitingPollSleep"
  /\ failures' = [failures EXCEPT ![r] = 0]
  /\ Goto(r, "AwaitingEvents")
  /\ UNCHANGED << world, mode, cursor, events, retryCount, outcome >>

-------------------------------------------------------------------------------
(***************************************************************************)
(* The process dies, or the caller drops the future.                       *)
(***************************************************************************)
Crash(r) == phase[r] \notin {"Start", "Done"} /\ Return(r, "none")

(***************************************************************************)
(* Dropping the guard: a blocking or a spawned unlock, or the end of the   *)
(* database session.                                                       *)
(***************************************************************************)
DropGuard(r) ==
  /\ phase[r] = "Done" /\ leader = r
  /\ leader' = None
  /\ UNCHANGED << head, checkpoint, handled, disturbed, mode, phase, locals, outcome >>

(***************************************************************************)
(* The session that holds the advisory lock ends while the call, which     *)
(* reads and saves over other connections, goes on.                        *)
(***************************************************************************)
LoseGuard(r) ==
  /\ GuardsMayVanish
  /\ phase[r] # "Done" /\ leader = r
  /\ leader' = None
  /\ disturbed' = TRUE
  /\ UNCHANGED << head, checkpoint, handled, mode, phase, locals, outcome >>

Progress(r) ==
  \/ BecomeLeader(r) \/ NotLeader(r) \/ LoadCheckpoint(r) \/ ReadEvents(r) \/ Apply(r)
  \/ SaveCheckpoint(r) \/ PageDone(r) \/ WakeForEvent(r) \/ WakeAfterFailure(r)
  \/ WakeForPoll(r)

Trouble(r) ==
  \/ LoadFails(r) \/ ReadFails(r) \/ Skip(r) \/ Retry(r) \/ Fatal(r) \/ SaveFails(r)
  \/ Crash(r) \/ LoseGuard(r)

Run(r) == Progress(r) \/ Trouble(r) \/ DropGuard(r)

AllReturned == /\ \A r \in Runners : phase[r] = "Done"
               /\ UNCHANGED vars

Next == (\E r \in Runners : Run(r)) \/ Publish \/ AllReturned

Spec == Init /\ [][Next]_vars

(***************************************************************************)
(* The executor keeps polling a call, and stores answer.  No failure,      *)
(* decision, crash or append is fair.                                      *)
(***************************************************************************)
FairSpec == Spec /\ \A r \in Runners : WF_vars(Progress(r))

-------------------------------------------------------------------------------
Phases == {"Start", "AwaitingCheckpoint", "AwaitingEvents", "ProcessingEvents",
           "AwaitingCheckpointSave", "AwaitingEventRetrySleep",
           "AwaitingPollFailureSleep", "AwaitingPollSleep", "Done"}

Outcomes == {"none", "Ok", "Failed", "LeadershipError"}

(***************************************************************************)
(* The types of all variables; in particular retries and poll failures     *)
(* stay within their configured bounds.                                    *)
(***************************************************************************)
TypeOK ==
  /\ head \in 0..MaxPosition
  /\ checkpoint \in 0..MaxPosition
  /\ leader \in Runners \cup {None}
  /\ handled \in SUBSET (1..MaxPosition)
  /\ disturbed \in BOOLEAN
  /\ mode \in [Runners -> {"Batch", "Continuous"}]
  /\ phase \in [Runners -> Phases]
  /\ cursor \in [Runners -> 0..MaxPosition]
  /\ events \in [Runners -> SUBSET (1..MaxPosition)]
  /\ retryCount \in [Runners -> 0..MaxRetryAttempts]
  /\ failures \in [Runners -> 0..MaxPollFailures]
  /\ outcome \in [Runners -> Outcomes]

(***************************************************************************)
(* Polling projections deliver at least once, in order and without a gap:  *)
(* whatever crashes, failed saves, retries and second leaders do, an event *)
(* is handled only after all before it, and no checkpoint is ever stored   *)
(* beyond an event that was not handled.                                   *)
(***************************************************************************)
AtLeastOnce == INSTANCE AtLeastOnceDelivery

DeliversAtLeastOnce == AtLeastOnce!Spec

(***************************************************************************)
(* How much a crash repeats: as long as no save failed and no running call *)
(* lost its guard, at most one event was handled that the checkpoint does  *)
(* not cover yet.                                                          *)
(***************************************************************************)
CrashRepeatsOne ==
  disturbed \/ \A p, q \in handled : checkpoint < p /\ checkpoint < q => p = q

(***************************************************************************)
(* A continuous call that goes on catches up: each time it polls it will   *)
(* later have handled every event it can receive, or have returned.  (The  *)
(* source stops growing at MaxPosition.)                                   *)
(***************************************************************************)
CaughtUp == \A p \in Eligible : p <= head => p \in handled

EveryEventHandled ==
  \A r \in Runners :
    (phase[r] = "AwaitingEvents" /\ mode[r] = "Continuous")
      ~> (CaughtUp \/ phase[r] = "Done")

(***************************************************************************)
(* A batch call returns, although polls may fail and events keep coming.   *)
(***************************************************************************)
BatchReturns ==
  \A r \in Runners : (mode[r] = "Batch") ~> (phase[r] = "Done")
===============================================================================
