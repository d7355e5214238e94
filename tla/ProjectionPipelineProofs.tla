------------------------ MODULE ProjectionPipelineProofs ------------------------
(***************************************************************************)
(* Proofs about ProjectionPipeline, for any number of calls, events, page  *)
(* size and limits.                                                        *)
(***************************************************************************)
EXTENDS ProjectionPipeline, TLAPS

USE NoneAssumption, PositionAssumption, SelectedAssumption, DecodableAssumption,
    PageAssumption, RetryAssumption, PollAssumption, GuardAssumption

(***************************************************************************)
(* Returning resets the locals and keeps their types.                      *)
(***************************************************************************)
LEMMA ReturnType ==
  ASSUME TypeOK, NEW r \in Runners, NEW answer \in Outcomes, Return(r, answer)
  PROVE  TypeOK'
BY DEF TypeOK, Return, Goto, Phases, Outcomes, world

(***************************************************************************)
(* Every variable keeps its type: no event is retried more often, and no   *)
(* more polls in a row fail, than configured.                              *)
(***************************************************************************)
THEOREM TypeCorrect == Spec => []TypeOK
<1>1. Init => TypeOK
  <2>1. /\ 0 \in 0..MaxPosition /\ 0 \in 0..MaxRetryAttempts
        /\ 0 \in 0..MaxPollFailures
    OBVIOUS
  <2>2. ASSUME Init
        PROVE  /\ head \in 0..MaxPosition /\ checkpoint \in 0..MaxPosition
               /\ leader \in Runners \cup {None} /\ disturbed \in BOOLEAN
               /\ handled \in SUBSET (1..MaxPosition)
    BY <2>1, <2>2 DEF Init
  <2>3. ASSUME Init
        PROVE  /\ cursor \in [Runners -> 0..MaxPosition]
               /\ events \in [Runners -> SUBSET (1..MaxPosition)]
               /\ retryCount \in [Runners -> 0..MaxRetryAttempts]
               /\ failures \in [Runners -> 0..MaxPollFailures]
    BY <2>1, <2>3 DEF Init
  <2>4. ASSUME Init
        PROVE  /\ mode \in [Runners -> {"Batch", "Continuous"}]
               /\ phase \in [Runners -> Phases]
               /\ outcome \in [Runners -> Outcomes]
    BY <2>4 DEF Init, Phases, Outcomes
  <2> QED BY <2>2, <2>3, <2>4 DEF TypeOK
<1>2. TypeOK /\ [Next]_vars => TypeOK'
  <2> SUFFICES ASSUME TypeOK, [Next]_vars PROVE TypeOK'
    OBVIOUS
  <2>1. CASE UNCHANGED vars
    BY <2>1 DEF TypeOK, vars, world, locals
  <2>2. CASE Publish
    BY <2>2 DEF TypeOK, Publish, locals
  <2>3. CASE AllReturned
    BY <2>3 DEF TypeOK, AllReturned, vars, world, locals
  <2>4. ASSUME NEW r \in Runners, Run(r) PROVE TypeOK'
    <3>1. \A answer \in {"Ok", "Failed", "LeadershipError", "none"} :
            answer \in Outcomes
      BY DEF Outcomes
    <3>2. CASE BecomeLeader(r)
      BY <3>2 DEF TypeOK, BecomeLeader, TryAcquire, Goto, Phases, locals
    <3>3. CASE NotLeader(r) \/ LoadFails(r) \/ Fatal(r) \/ Crash(r)
      BY <3>1, <3>3, ReturnType DEF NotLeader, LoadFails, Fatal, Crash
    <3>4. CASE LoadCheckpoint(r)
      BY <3>4 DEF TypeOK, LoadCheckpoint, Goto, Phases, world
    <3>5. CASE ReadEvents(r)
      <4>1. \A S \in SUBSET Matching(cursor[r]) : Decoded(S) \subseteq 1..MaxPosition
        BY DEF Decoded, Matching
      <4> QED BY <3>5, <4>1 DEF TypeOK, ReadEvents, Goto, Phases, world
    <3>6. CASE ReadFails(r)
      <4>1. CASE TooManyFailures(r)
        BY <3>1, <3>6, <4>1, ReturnType DEF ReadFails
      <4>2. CASE ~TooManyFailures(r)
        <5>1. failures[r] + 1 \in 0..MaxPollFailures
          BY <4>2 DEF TypeOK, TooManyFailures
        <5>2. failures' \in [Runners -> 0..MaxPollFailures]
          BY <3>6, <4>2, <5>1 DEF TypeOK, ReadFails
        <5>3. phase' \in [Runners -> Phases]
          BY <3>6, <4>2 DEF TypeOK, ReadFails, Goto, Phases
        <5> QED BY <3>6, <4>2, <5>2, <5>3 DEF TypeOK, ReadFails, world
      <4> QED BY <4>1, <4>2
    <3>7. ASSUME NEW p \in events[r], Advance(r, p) PROVE TypeOK'
      BY <3>7 DEF TypeOK, Advance, Goto, Phases
    <3>8. CASE Apply(r) \/ Skip(r)
      BY <3>7, <3>8 DEF Apply, Skip
    <3>9. CASE Retry(r)
      <4>1. CASE RetriesExhausted(r)
        BY <3>1, <3>9, <4>1, ReturnType DEF Retry
      <4>2. CASE ~RetriesExhausted(r)
        <5>1. retryCount[r] + 1 \in 0..MaxRetryAttempts
          BY <4>2 DEF TypeOK, RetriesExhausted
        <5>2. retryCount' \in [Runners -> 0..MaxRetryAttempts]
          BY <3>9, <4>2, <5>1 DEF TypeOK, Retry
        <5>3. phase' \in [Runners -> Phases]
          BY <3>9, <4>2 DEF TypeOK, Retry, Goto, Phases
        <5> QED BY <3>9, <4>2, <5>2, <5>3 DEF TypeOK, Retry, world
      <4> QED BY <4>1, <4>2
    <3>10. CASE SaveCheckpoint(r)
      BY <3>10 DEF TypeOK, SaveCheckpoint, NextEvent, Goto, Phases
    <3>11. CASE SaveFails(r)
      BY <3>11 DEF TypeOK, SaveFails, NextEvent, Goto, Phases
    <3>12. CASE PageDone(r)
      <4>1. CASE mode[r] = "Batch"
        BY <3>1, <3>12, <4>1, ReturnType DEF PageDone
      <4>2. CASE mode[r] # "Batch"
        BY <3>12, <4>2 DEF TypeOK, PageDone, Goto, Phases, world, locals
      <4> QED BY <4>1, <4>2
    <3>13. CASE WakeForEvent(r) \/ WakeAfterFailure(r) \/ WakeForPoll(r)
      <4>1. CASE WakeForPoll(r)
        BY <4>1 DEF TypeOK, WakeForPoll, Goto, Phases, world
      <4>2. CASE WakeForEvent(r)
        BY <4>2 DEF TypeOK, WakeForEvent, Goto, Phases, world, locals
      <4>3. CASE WakeAfterFailure(r)
        BY <4>3 DEF TypeOK, WakeAfterFailure, Goto, Phases, world, locals
      <4> QED BY <3>13, <4>1, <4>2, <4>3
    <3>14. CASE DropGuard(r) \/ LoseGuard(r)
      BY <3>14 DEF TypeOK, DropGuard, LoseGuard, locals
    <3> QED BY <2>4, <3>2, <3>3, <3>4, <3>5, <3>6, <3>8, <3>9, <3>10, <3>11, <3>12,
               <3>13, <3>14 DEF Run, Progress, Trouble
  <2> QED BY <2>1, <2>2, <2>3, <2>4 DEF Next
<1> QED BY <1>1, <1>2, PTL DEF Spec

-------------------------------------------------------------------------------
(***************************************************************************)
(* Every event up to c that can be received has been handled.              *)
(***************************************************************************)
HandledTo(c) == \A q \in Eligible : q <= c => q \in handled

(***************************************************************************)
(* What a call knows: everything up to its cursor was handled, and its     *)
(* page has no gap between the cursor and any of its events.               *)
(***************************************************************************)
Known(r) ==
  /\ cursor[r] <= head
  /\ HandledTo(cursor[r])
  /\ phase[r] \in {"Start", "AwaitingCheckpoint"} => events[r] = {}
  /\ \A p \in events[r] : p \in Eligible /\ p <= head
  /\ phase[r] \in {"ProcessingEvents", "AwaitingEventRetrySleep"} =>
       \A p \in events[r] : cursor[r] < p
  /\ \A p \in events[r] : \A q \in Eligible :
       cursor[r] < q /\ q < p => q \in events[r]

(***************************************************************************)
(* What the world shows: handled events are committed and form a prefix,   *)
(* and the checkpoint stays within it.                                     *)
(***************************************************************************)
WorldInv ==
  /\ checkpoint <= head
  /\ HandledTo(checkpoint)
  /\ \A p \in handled : p \in Eligible /\ p <= head
  /\ \A p \in handled : \A q \in Eligible : q < p => q \in handled

(***************************************************************************)
(* As long as nothing went wrong with saves and guards, a running call is  *)
(* the leader, and its cursor is the checkpoint or about to be.            *)
(***************************************************************************)
SoleInv ==
  \A r \in Runners :
    /\ phase[r] \notin {"Start", "Done"} => leader = r
    /\ phase[r] \in {"AwaitingEvents", "ProcessingEvents", "AwaitingEventRetrySleep",
                     "AwaitingPollFailureSleep", "AwaitingPollSleep"} =>
         cursor[r] = checkpoint
    /\ phase[r] = "AwaitingCheckpointSave" => checkpoint <= cursor[r]

Inv ==
  /\ TypeOK
  /\ WorldInv
  /\ \A r \in Runners : Known(r)
  /\ disturbed \/ SoleInv
  /\ CrashRepeatsOne

(***************************************************************************)
(* A call that returns claims nothing and leaves the world alone.          *)
(***************************************************************************)
LEMMA ReturnKeeps ==
  ASSUME Inv, TypeOK', NEW r \in Runners, NEW answer, Return(r, answer)
  PROVE  Inv'
<1>1. WorldInv' /\ CrashRepeatsOne'
  BY DEF Inv, WorldInv, HandledTo, CrashRepeatsOne, Return, world
<1>2. \A s \in Runners : Known(s)'
  BY DEF Inv, TypeOK, Known, HandledTo, Return, Goto, world, Eligible
<1>3. (disturbed \/ SoleInv)'
  BY DEF Inv, TypeOK, SoleInv, Return, Goto, world
<1> QED BY <1>1, <1>2, <1>3 DEF Inv

(***************************************************************************)
(* Handling the next event keeps the invariant.                            *)
(***************************************************************************)
LEMMA AdvanceKeeps ==
  ASSUME Inv, TypeOK', NEW r \in Runners, NEW p \in events[r],
         phase[r] = "ProcessingEvents", IsNext(r, p), Advance(r, p)
  PROVE  Inv'
<1>1. /\ p \in Eligible /\ p <= head /\ cursor[r] < p
      /\ \A q \in Eligible : cursor[r] < q => ~(q < p)
  BY DEF Inv, TypeOK, Known, IsNext, Eligible
<1>2. \A q \in Eligible : q < p => q \in handled
  BY <1>1 DEF Inv, TypeOK, Known, HandledTo, Eligible
<1>3. WorldInv'
  BY <1>1, <1>2 DEF Inv, TypeOK, WorldInv, HandledTo, Advance, Eligible
<1>4. Known(r)'
  <2>1. /\ cursor'[r] = p /\ events' = events /\ head' = head
        /\ phase'[r] = "AwaitingCheckpointSave" /\ handled' = handled \cup {p}
    BY DEF Inv, TypeOK, Advance, Goto
  <2>2. HandledTo(cursor[r])'
    <3>1. \A q \in Eligible : q \in Int
      BY SelectedAssumption DEF Eligible
    <3>2. \A q \in Eligible : q <= p => q < p \/ q = p
      BY <1>1, <3>1
    <3> QED BY <1>2, <2>1, <3>2 DEF HandledTo
  <2>3. \A g \in events[r] : \A q \in Eligible :
          cursor'[r] < q /\ q < g => q \in events[r]
    BY <1>1, <2>1 DEF Inv, TypeOK, Known, Eligible
  <2>4. \A g \in events[r] : g \in Eligible /\ g <= head
    BY DEF Inv, Known
  <2> QED BY <1>1, <2>1, <2>2, <2>3, <2>4 DEF Known
<1>5. ASSUME NEW s \in Runners \ {r} PROVE Known(s)'
  BY <1>5 DEF Inv, TypeOK, Known, HandledTo, Advance, Goto, Eligible
<1>6. disturbed \/ SoleInv'
  BY <1>1 DEF Inv, TypeOK, SoleInv, Advance, Goto
<1>7. CrashRepeatsOne'
  <2> SUFFICES ASSUME ~disturbed,
                      NEW g \in handled \cup {p}, NEW h \in handled \cup {p},
                      checkpoint < g, checkpoint < h
               PROVE  g = h
    BY DEF CrashRepeatsOne, Advance
  <2>1. checkpoint = cursor[r]
    BY DEF Inv, SoleInv
  <2>2. ASSUME NEW k \in handled, checkpoint < k PROVE k = p
    <3>1. k \in Eligible /\ k \in Int /\ p \in Int
      BY DEF Inv, WorldInv, TypeOK, Eligible
    <3>2. CASE p < k
      <4>1. p \in handled
        BY <1>1, <3>1, <3>2 DEF Inv, WorldInv
      <4> QED BY <1>1, <2>1, <2>2, <4>1 DEF Inv, CrashRepeatsOne
    <3>3. ~(k < p)
      BY <1>1, <2>1, <2>2, <3>1
    <3> QED BY <3>1, <3>2, <3>3
  <2> QED BY <2>2
<1> QED BY <1>3, <1>4, <1>5, <1>6, <1>7 DEF Inv, Advance

(***************************************************************************)
(* A save, with effect or not, keeps the invariant.                        *)
(***************************************************************************)
LEMMA SaveKeeps ==
  ASSUME Inv, TypeOK', NEW r \in Runners, SaveCheckpoint(r) \/ SaveFails(r)
  PROVE  Inv'
<1>1. /\ UNCHANGED << head, leader, handled, cursor >>
      /\ NextEvent(r)
      /\ checkpoint' \in {checkpoint, cursor[r]}
      /\ phase[r] = "AwaitingCheckpointSave"
  BY DEF SaveCheckpoint, SaveFails
<1>2. WorldInv'
  BY <1>1 DEF Inv, TypeOK, WorldInv, Known, HandledTo, Eligible
<1>3. ASSUME NEW s \in Runners PROVE Known(s)'
  BY <1>1 DEF Inv, TypeOK, Known, HandledTo, NextEvent, Goto, Eligible
<1>4. CASE SaveFails(r)
  BY <1>2, <1>3, <1>4 DEF Inv, SaveFails, CrashRepeatsOne
<1>5. CASE SaveCheckpoint(r)
  <2>1. disturbed' = disturbed /\ checkpoint' = cursor[r]
    BY <1>5 DEF SaveCheckpoint
  <2>2. disturbed \/ SoleInv'
    <3> SUFFICES ASSUME SoleInv PROVE SoleInv'
      BY DEF Inv
    <3>1. \A s \in Runners : s # r => phase[s] \in {"Start", "Done"}
      BY <1>1 DEF SoleInv, Inv, TypeOK
    <3> QED BY <1>1, <2>1, <3>1 DEF Inv, TypeOK, SoleInv, NextEvent, Goto
  <2>3. CrashRepeatsOne'
    BY <1>1, <2>1 DEF Inv, TypeOK, SoleInv, CrashRepeatsOne
  <2> QED BY <1>2, <1>3, <2>1, <2>2, <2>3 DEF Inv
<1> QED BY <1>4, <1>5

(***************************************************************************)
(* The page that is read has no gap.                                       *)
(***************************************************************************)
LEMMA ReadKeeps ==
  ASSUME Inv, TypeOK', NEW r \in Runners, ReadEvents(r)
  PROVE  Inv'
<1>1. PICK S \in SUBSET Matching(cursor[r]) :
        IsPage(S, cursor[r]) /\ events' = [events EXCEPT ![r] = Decoded(S)]
  BY DEF ReadEvents
<1>2. Known(r)'
  BY <1>1 DEF Inv, TypeOK, Known, HandledTo, ReadEvents, IsPage, Matching, Decoded,
              Goto, Eligible, world
<1>3. ASSUME NEW s \in Runners \ {r} PROVE Known(s)'
  BY <1>1, <1>3 DEF Inv, TypeOK, Known, HandledTo, ReadEvents, Goto, world
<1>4. WorldInv' /\ CrashRepeatsOne'
  BY DEF Inv, WorldInv, HandledTo, CrashRepeatsOne, ReadEvents, world
<1>5. (disturbed \/ SoleInv)'
  BY DEF Inv, TypeOK, SoleInv, ReadEvents, Goto, world
<1> QED BY <1>2, <1>3, <1>4, <1>5 DEF Inv

(***************************************************************************)
(* Moving between phases without touching cursor, page or world.           *)
(***************************************************************************)
LEMMA MoveKeeps ==
  ASSUME Inv, TypeOK', NEW r \in Runners,
         UNCHANGED << world, cursor, events >>,
         \/ WakeForEvent(r) \/ WakeAfterFailure(r) \/ WakeForPoll(r)
         \/ PageDone(r) /\ Goto(r, "AwaitingPollSleep")
         \/ Retry(r) /\ Goto(r, "AwaitingEventRetrySleep")
         \/ ReadFails(r) /\ Goto(r, "AwaitingPollFailureSleep")
  PROVE  Inv'
<1> DEFINE from == phase[r]
           to == phase'[r]
<1>1. /\ \A s \in Runners : s # r => phase'[s] = phase[s]
      /\ \/ from = "AwaitingEventRetrySleep" /\ to = "ProcessingEvents"
         \/ from = "ProcessingEvents" /\ to = "AwaitingEventRetrySleep"
         \/ /\ from \in {"AwaitingPollFailureSleep", "AwaitingPollSleep",
                         "ProcessingEvents", "AwaitingEvents"}
            /\ to \in {"AwaitingEvents", "AwaitingPollSleep", "AwaitingPollFailureSleep"}
  BY DEF Inv, TypeOK, WakeForEvent, WakeAfterFailure, WakeForPoll, PageDone, Retry,
         ReadFails, Goto
<1>2. \A s \in Runners : Known(s)'
  BY <1>1 DEF Inv, TypeOK, Known, HandledTo, world
<1>3. WorldInv' /\ CrashRepeatsOne'
  BY DEF Inv, WorldInv, HandledTo, CrashRepeatsOne, world
<1>4. (disturbed \/ SoleInv)'
  BY <1>1 DEF Inv, TypeOK, SoleInv, world
<1> QED BY <1>2, <1>3, <1>4 DEF Inv

(***************************************************************************)
(* Becoming the leader, loading the checkpoint, and losing the guard.      *)
(***************************************************************************)
LEMMA LeadKeeps ==
  ASSUME Inv, TypeOK', NEW r \in Runners,
         BecomeLeader(r) \/ LoadCheckpoint(r) \/ DropGuard(r) \/ LoseGuard(r)
  PROVE  Inv'
<1>1. UNCHANGED << head, checkpoint, handled, events >>
  BY DEF BecomeLeader, LoadCheckpoint, DropGuard, LoseGuard, world, locals
<1>2. WorldInv'
  BY <1>1 DEF Inv, WorldInv, HandledTo
<1>3. CrashRepeatsOne'
  BY <1>1 DEF Inv, CrashRepeatsOne, BecomeLeader, LoadCheckpoint, DropGuard, LoseGuard,
              world
<1>4. CASE BecomeLeader(r)
  BY <1>1, <1>2, <1>3, <1>4 DEF Inv, TypeOK, Known, HandledTo, SoleInv, BecomeLeader,
     TryAcquire, Goto, locals
<1>5. CASE LoadCheckpoint(r)
  <2>1. \A s \in Runners : Known(s)'
    <3>1. ASSUME NEW s \in Runners, s # r PROVE Known(s)'
      BY <1>1, <1>5, <3>1 DEF Inv, TypeOK, Known, HandledTo, LoadCheckpoint, Goto
    <3>2. Known(r)'
      <4>1. events[r] = {}
        BY <1>5 DEF Inv, Known, LoadCheckpoint
      <4> QED BY <1>1, <1>5, <4>1 DEF Inv, TypeOK, WorldInv, Known, HandledTo,
                                     LoadCheckpoint, Goto
    <3> QED BY <3>1, <3>2
  <2> QED BY <1>2, <1>3, <1>5, <2>1 DEF Inv, TypeOK, SoleInv, LoadCheckpoint, Goto, world
<1>6. CASE DropGuard(r)
  BY <1>1, <1>2, <1>3, <1>6 DEF Inv, TypeOK, Known, HandledTo, SoleInv, DropGuard, locals
<1>7. CASE LoseGuard(r)
  BY <1>1, <1>2, <1>3, <1>7 DEF Inv, TypeOK, Known, HandledTo, SoleInv, LoseGuard, locals
<1> QED BY <1>4, <1>5, <1>6, <1>7

(***************************************************************************)
(* An append adds one position, beyond everything known so far.            *)
(***************************************************************************)
LEMMA PublishKeeps ==
  ASSUME Inv, TypeOK', Publish
  PROVE  Inv'
<1>1. /\ head' = head + 1 /\ head \in Nat
      /\ UNCHANGED << checkpoint, leader, handled, disturbed, phase, cursor, events >>
  BY DEF Inv, TypeOK, Publish, locals
<1>2. WorldInv'
  BY <1>1 DEF Inv, TypeOK, WorldInv, HandledTo, Eligible
<1>3. ASSUME NEW r \in Runners PROVE Known(r)'
  BY <1>1 DEF Inv, TypeOK, Known, HandledTo, Eligible
<1>4. (disturbed \/ SoleInv)' /\ CrashRepeatsOne'
  BY <1>1 DEF Inv, SoleInv, CrashRepeatsOne
<1> QED BY <1>2, <1>3, <1>4 DEF Inv

(***************************************************************************)
(* The invariant holds throughout.                                         *)
(***************************************************************************)
THEOREM Invariance == Spec => []Inv
<1>1. Init /\ TypeOK => Inv
  <2> SUFFICES ASSUME Init, TypeOK PROVE Inv
    OBVIOUS
  <2>1. WorldInv
    BY DEF Init, WorldInv, HandledTo, Eligible
  <2>2. \A r \in Runners : Known(r)
    BY DEF Init, Known, HandledTo, Eligible
  <2> QED BY <2>1, <2>2 DEF Init, Inv, SoleInv, CrashRepeatsOne
<1>2. Inv /\ TypeOK' /\ [Next]_vars => Inv'
  <2> SUFFICES ASSUME Inv, TypeOK', [Next]_vars PROVE Inv'
    OBVIOUS
  <2>1. CASE UNCHANGED vars \/ AllReturned
    BY <2>1 DEF Inv, WorldInv, Known, HandledTo, SoleInv, CrashRepeatsOne, AllReturned,
                vars, world, locals
  <2>2. CASE Publish
    BY <2>2, PublishKeeps
  <2>3. ASSUME NEW r \in Runners, Run(r) PROVE Inv'
    <3>1. CASE NotLeader(r) \/ LoadFails(r) \/ Fatal(r) \/ Crash(r)
      BY <3>1, ReturnKeeps DEF NotLeader, LoadFails, Fatal, Crash
    <3>2. CASE BecomeLeader(r) \/ LoadCheckpoint(r) \/ DropGuard(r) \/ LoseGuard(r)
      BY <3>2, LeadKeeps
    <3>3. CASE ReadEvents(r)
      BY <3>3, ReadKeeps
    <3>4. CASE Apply(r) \/ Skip(r)
      BY <3>4, AdvanceKeeps DEF Apply, Skip
    <3>5. CASE SaveCheckpoint(r) \/ SaveFails(r)
      BY <3>5, SaveKeeps
    <3>6. CASE WakeForEvent(r) \/ WakeAfterFailure(r) \/ WakeForPoll(r)
      <4>1. UNCHANGED << world, cursor, events >>
        BY <3>6 DEF WakeForEvent, WakeAfterFailure, WakeForPoll, locals
      <4> QED BY <3>6, <4>1, MoveKeeps
    <3>7. CASE PageDone(r)
      <4>1. CASE mode[r] = "Batch"
        BY <3>7, <4>1, ReturnKeeps DEF PageDone
      <4>2. CASE mode[r] # "Batch"
        <5>1. UNCHANGED << world, cursor, events >> /\ Goto(r, "AwaitingPollSleep")
          BY <3>7, <4>2 DEF PageDone, locals
        <5> QED BY <3>7, <5>1, MoveKeeps
      <4> QED BY <4>1, <4>2
    <3>8. CASE Retry(r)
      <4>1. CASE RetriesExhausted(r)
        BY <3>8, <4>1, ReturnKeeps DEF Retry
      <4>2. CASE ~RetriesExhausted(r)
        <5>1. UNCHANGED << world, cursor, events >> /\ Goto(r, "AwaitingEventRetrySleep")
          BY <3>8, <4>2 DEF Retry
        <5> QED BY <3>8, <5>1, MoveKeeps
      <4> QED BY <4>1, <4>2
    <3>9. CASE ReadFails(r)
      <4>1. CASE TooManyFailures(r)
        BY <3>9, <4>1, ReturnKeeps DEF ReadFails
      <4>2. CASE ~TooManyFailures(r)
        <5>1. /\ UNCHANGED << world, cursor, events >>
              /\ Goto(r, "AwaitingPollFailureSleep")
          BY <3>9, <4>2 DEF ReadFails
        <5> QED BY <3>9, <5>1, MoveKeeps
      <4> QED BY <4>1, <4>2
    <3> QED BY <2>3, <3>1, <3>2, <3>3, <3>4, <3>5, <3>6, <3>7, <3>8, <3>9
            DEF Run, Progress, Trouble
  <2> QED BY <2>1, <2>2, <2>3 DEF Next
<1> QED BY <1>1, <1>2, TypeCorrect, PTL DEF Spec

(***************************************************************************)
(* As long as no save fails and no guard is lost, a crash repeats at most  *)
(* one event: the one applied but not yet saved.                           *)
(***************************************************************************)
THEOREM AtMostOneRepeat == Spec => []CrashRepeatsOne
BY Invariance, PTL DEF Inv

-------------------------------------------------------------------------------
(***************************************************************************)
(* The refinement: a step of the pipelines is a step of the abstract       *)
(* delivery, or leaves its three variables alone.                          *)
(***************************************************************************)
LEMMA StepRefines ==
  ASSUME Inv, [Next]_vars
  PROVE  [AtLeastOnce!Next]_(AtLeastOnce!vars)
<1> USE DEF AtLeastOnce!vars
<1>1. CASE UNCHANGED vars \/ AllReturned
  BY <1>1 DEF AllReturned, vars, world
<1>2. CASE Publish
  BY <1>2 DEF Publish, AtLeastOnce!Next, AtLeastOnce!Publish
<1>3. ASSUME NEW r \in Runners, Run(r)
      PROVE  [AtLeastOnce!Next]_(AtLeastOnce!vars)
  <2>1. ASSUME NEW answer, Return(r, answer) PROVE UNCHANGED AtLeastOnce!vars
    BY <2>1 DEF Return, world
  <2>2. CASE Apply(r) \/ Skip(r)
    <3>1. PICK p \in events[r] :
            phase[r] = "ProcessingEvents" /\ IsNext(r, p) /\ Advance(r, p)
      BY <2>2 DEF Apply, Skip
    <3>2. /\ p \in Eligible /\ p <= head
          /\ \A q \in Eligible : q < p => q \in handled
      <4>1. /\ p \in Eligible /\ p <= head /\ p \in Int
            /\ \A q \in Eligible : cursor[r] < q => ~(q < p)
        BY <3>1 DEF Inv, TypeOK, Known, IsNext, Eligible
      <4> QED BY <4>1 DEF Inv, TypeOK, Known, HandledTo, Eligible
    <3>3. AtLeastOnce!HandledUpTo(p - 1)
      <4> SUFFICES ASSUME NEW q \in Eligible, q <= p - 1 PROVE q \in handled
        BY DEF AtLeastOnce!HandledUpTo
      <4>1. p \in Int /\ q \in Int
        BY <3>2 DEF Eligible
      <4> QED BY <3>2, <4>1
    <3>4. handled' = handled \cup {p} /\ UNCHANGED << head, checkpoint >>
      BY <3>1 DEF Advance
    <3>5. AtLeastOnce!Handle
      BY <3>2, <3>3, <3>4 DEF AtLeastOnce!Handle
    <3> QED BY <3>5 DEF AtLeastOnce!Next
  <2>3. CASE SaveCheckpoint(r) \/ SaveFails(r)
    <3>1. /\ UNCHANGED << head, handled >>
          /\ checkpoint' \in {checkpoint, cursor[r]}
      BY <2>3 DEF SaveCheckpoint, SaveFails
    <3>2. cursor[r] \in 0..head /\ HandledTo(cursor[r])
      BY DEF Inv, TypeOK, Known
    <3>3. CASE checkpoint' = checkpoint
      BY <3>1, <3>3
    <3>4. CASE checkpoint' = cursor[r]
      <4>1. cursor[r] \in 0..MaxPosition /\ AtLeastOnce!HandledUpTo(cursor[r])
        BY <3>2 DEF Inv, TypeOK, HandledTo, AtLeastOnce!HandledUpTo
      <4>2. AtLeastOnce!Save
        BY <3>1, <3>4, <4>1 DEF AtLeastOnce!Save
      <4> QED BY <4>2 DEF AtLeastOnce!Next
    <3> QED BY <3>1, <3>3, <3>4
  <2>4. CASE \/ BecomeLeader(r) \/ LoadCheckpoint(r) \/ ReadEvents(r)
             \/ WakeForEvent(r) \/ WakeAfterFailure(r) \/ WakeForPoll(r)
             \/ DropGuard(r) \/ LoseGuard(r)
    BY <2>4 DEF BecomeLeader, LoadCheckpoint, ReadEvents, WakeForEvent, WakeAfterFailure,
                WakeForPoll, DropGuard, LoseGuard, world
  <2>5. CASE \/ NotLeader(r) \/ LoadFails(r) \/ Fatal(r) \/ Crash(r)
             \/ PageDone(r) \/ Retry(r) \/ ReadFails(r)
    BY <2>1, <2>5 DEF NotLeader, LoadFails, Fatal, Crash, PageDone, Retry, ReadFails, world
  <2> QED BY <1>3, <2>2, <2>3, <2>4, <2>5 DEF Run, Progress, Trouble
<1> QED BY <1>1, <1>2, <1>3 DEF Next

(***************************************************************************)
(* Polling projections implement at-least-once delivery in order.          *)
(***************************************************************************)
THEOREM ImplementsAtLeastOnce == Spec => DeliversAtLeastOnce
<1>1. Init => AtLeastOnce!Init
  BY DEF Init, AtLeastOnce!Init
<1> QED BY <1>1, StepRefines, Invariance, PTL
        DEF Spec, DeliversAtLeastOnce, AtLeastOnce!Spec
===============================================================================
