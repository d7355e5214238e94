--------------------- MODULE TransactionalProjectionProofs ---------------------
(***************************************************************************)
(* Proofs about TransactionalProjection: type correctness, the exactly-    *)
(* once invariant, the truth of what calls report, and the implementation  *)
(* of ExactlyOnceDelivery, for any number of calls, events and retries.    *)
(***************************************************************************)
EXTENDS TransactionalProjection, FiniteSetTheorems, TLAPS

USE RetriesAssumption, MaxPositionAssumption, NoRunnerAssumption

-------------------------------------------------------------------------------
(***************************************************************************)
(* A page is a set of selected positions of its range.                     *)
(***************************************************************************)
LEMMA PageType ==
  ASSUME NEW from \in Nat, NEW to \in Nat, NEW some \in ReadEnvelopes(from, to)
  PROVE  some \subseteq Nat
  BY SelectedAssumption DEF ReadEnvelopes, FirstOf

(***************************************************************************)
(* Committing keeps the types of the destination.                          *)
(***************************************************************************)
LEMMA EffectType ==
  ASSUME TypeOK, NEW r \in Runners, TakesEffect(r), staged[r] # "nothing"
  PROVE  /\ readModel' \in Seq(Nat) /\ progress' \in Nat
         /\ boundTo' \in Identities \cup {None} /\ skipped' \subseteq Nat
<1>1. staged[r] \in {"effect", "skip", "reset"} /\ position[r] \in Nat /\ identity[r] \in Identities
  BY DEF TypeOK
<1>2. CASE staged[r] = "reset"  BY <1>2 DEF TakesEffect, TypeOK
<1>3. CASE staged[r] = "effect"
  <2>1. /\ readModel' = Append(readModel, position[r])
        /\ progress' = position[r] /\ boundTo' = identity[r] /\ skipped' = skipped
    BY <1>3 DEF TakesEffect
  <2>2. readModel \in Seq(Nat) /\ skipped \subseteq Nat  BY DEF TypeOK
  <2>3. Append(readModel, position[r]) \in Seq(Nat)  BY <1>1, <2>2
  <2>. QED  BY <1>1, <2>1, <2>2, <2>3
<1>4. CASE staged[r] = "skip"  BY <1>1, <1>4 DEF TakesEffect, TypeOK
<1>. QED  BY <1>1, <1>2, <1>3, <1>4

(***************************************************************************)
(* An open transaction belongs to a live session that is committing, and   *)
(* the lock to at most one session.                                        *)
(***************************************************************************)
Fenced ==
  /\ \A r \in Runners : session[r] <=> leader = r
  /\ \A r \in Runners : staged[r] # "nothing" <=> session[r] /\ phase[r] = "Committing"

TypeAndFence == TypeOK /\ Fenced

(***************************************************************************)
(* Returning keeps the types and closes the transaction of the call.       *)
(***************************************************************************)
LEMMA ReturnType ==
  ASSUME TypeOK, NEW r \in Runners, NEW answer \in Outcomes, Return(r, answer)
  PROVE  /\ phase' \in [Runners -> Phases] /\ outcome' \in [Runners -> Outcomes]
         /\ after' \in [Runners -> Nat] /\ through' \in [Runners -> Nat]
         /\ page' \in [Runners -> SUBSET Nat] /\ position' \in [Runners -> Nat]
         /\ attempt' \in [Runners -> 0..(MaxRetries + 1)]
         /\ staged' \in [Runners -> {"nothing", "effect", "skip", "reset"}]
         /\ staged'[r] = "nothing" /\ phase'[r] = "Done"
         /\ \A q \in Runners \ {r} : staged'[q] = staged[q] /\ phase'[q] = phase[q]
  BY DEF Return, TypeOK, Phases

(***************************************************************************)
(* Moving on keeps the types and moves only the call itself.               *)
(***************************************************************************)
LEMMA GotoType ==
  ASSUME TypeOK, NEW r \in Runners, NEW where \in Phases, Goto(r, where)
  PROVE  /\ phase' \in [Runners -> Phases] /\ outcome' \in [Runners -> Outcomes]
         /\ phase'[r] = where
         /\ \A q \in Runners \ {r} : phase'[q] = phase[q]
  BY DEF Goto, TypeOK

(***************************************************************************)
(* A call that fails keeps types and fence; its session lives on for a     *)
(* while.                                                                  *)
(***************************************************************************)
LEMMA FailKeeps ==
  ASSUME TypeAndFence, NEW r \in Runners, NEW error \in Outcomes, Fail(r, error)
  PROVE  TypeAndFence'
<1>1. TypeOK'  BY ReturnType DEF Fail, TypeAndFence, TypeOK, lock, destination, config
<1>2. Fenced'  BY ReturnType DEF Fail, TypeAndFence, Fenced, lock
<1>. QED  BY <1>1, <1>2 DEF TypeAndFence

(***************************************************************************)
(* A call that releases the lock before it returns keeps types and fence.  *)
(***************************************************************************)
LEMMA ReleaseKeeps ==
  ASSUME TypeAndFence, NEW r \in Runners, NEW answer \in Outcomes,
         Release(r), Return(r, answer), UNCHANGED << frontier, destination, config >>
  PROVE  TypeAndFence'
<1>1. TypeOK'  BY ReturnType DEF Release, TypeAndFence, TypeOK, destination, config
<1>2. Fenced'
  <2>1. leader = r /\ leader' = None
    BY DEF Release, TypeAndFence, Fenced
  <2>2. \A q \in Runners : ~session'[q]
    BY <2>1 DEF Release, TypeAndFence, Fenced, TypeOK
  <2>3. \A q \in Runners : staged'[q] = "nothing"
    BY <2>1, ReturnType DEF TypeAndFence, Fenced
  <2>. QED  BY <2>1, <2>2, <2>3 DEF Fenced
<1>. QED  BY <1>1, <1>2 DEF TypeAndFence

(***************************************************************************)
(* Each step of a call keeps types and fence.                              *)
(***************************************************************************)
LEMMA RunKeepsFence ==
  ASSUME TypeAndFence, NEW r \in Runners, Run(r)
  PROVE  TypeAndFence'
<1>. USE DEF TypeAndFence
<1>1. CASE Acquire(r)
  <2>1. AfterAcquire(r) \in Phases /\ AfterAcquire(r) # "Committing"
    BY DEF AfterAcquire, Phases
  <2>2. TypeOK'
    BY <1>1, <2>1, GotoType DEF Acquire, TypeOK, destination, config, cursor
  <2>3. Fenced'
    BY <1>1, <2>1, GotoType DEF Acquire, TypeOK, Fenced, LockIsFree
  <2>. QED  BY <2>2, <2>3
<1>2. CASE Busy(r)
  BY <1>2, FailKeeps DEF Busy, Outcomes
<1>3. CASE LoadProgress(r)
  <2>1. TypeOK'
    BY <1>3, GotoType DEF LoadProgress, Phases, TypeOK, lock, destination, config
  <2>2. Fenced'
    BY <1>3, GotoType DEF LoadProgress, Phases, Fenced, lock
  <2>. QED  BY <2>1, <2>2
<1>4. CASE HighWatermark(r)
  <2>0. phase' \in [Runners -> Phases] /\ outcome' \in [Runners -> Outcomes]
    BY <1>4, GotoType DEF HighWatermark, Phases
  <2>3. frontier \in Nat
    BY DEF TypeOK
  <2>4. through' \in [Runners -> Nat]
    BY <1>4, <2>3 DEF HighWatermark, TypeOK
  <2>1. TypeOK'
    BY <1>4, <2>0, <2>4 DEF HighWatermark, TypeOK, lock, destination, config
  <2>2. Fenced'
    BY <1>4, GotoType DEF HighWatermark, Phases, Fenced, lock
  <2>. QED  BY <2>1, <2>2
<1>5. CASE ReadPage(r)
  <2>1. PICK envelopes \in ReadEnvelopes(after[r], through[r]) :
          /\ page' = [page EXCEPT ![r] = envelopes]
          /\ Goto(r, IF envelopes = {} THEN "CaughtUp" ELSE "Envelope")
    BY <1>5 DEF ReadPage
  <2>2. envelopes \subseteq Nat
    BY PageType DEF TypeOK
  <2>3. TypeOK'
    BY <1>5, <2>1, <2>2, GotoType DEF ReadPage, Phases, TypeOK, lock, destination, config
  <2>4. Fenced'
    BY <1>5, <2>1, GotoType DEF ReadPage, Phases, Fenced, lock
  <2>. QED  BY <2>3, <2>4
<1>6. CASE TakeEnvelope(r)
  <2>0. phase' \in [Runners -> Phases] /\ outcome' \in [Runners -> Outcomes]
    BY <1>6, GotoType DEF TakeEnvelope, Phases
  <2>1. PICK p \in page[r] : /\ position' = [position EXCEPT ![r] = p]
                             /\ after' = [after EXCEPT ![r] = p]
                             /\ page' = [page EXCEPT ![r] = @ \ {p}]
    BY <1>6 DEF TakeEnvelope
  <2>3. p \in Nat /\ page[r] \ {p} \in SUBSET Nat
    BY DEF TypeOK
  <2>4. attempt' \in [Runners -> 0..(MaxRetries + 1)]
    BY <1>6 DEF TakeEnvelope, TypeOK
  <2>5. TypeOK'
    BY <1>6, <2>0, <2>1, <2>3, <2>4 DEF TakeEnvelope, TypeOK, lock, destination, config
  <2>2. Fenced'
    BY <1>6, GotoType DEF TakeEnvelope, Phases, Fenced, lock
  <2>. QED  BY <2>2, <2>5
<1>7. CASE Begin(r)
  <2>1. TypeOK'
    BY <1>7, GotoType DEF Begin, NextEnvelope, Phases, TypeOK, lock, destination, config, cursor
  <2>2. Fenced'
    BY <1>7, GotoType DEF Begin, NextEnvelope, Phases, Fenced, TypeOK, lock
  <2>. QED  BY <2>1, <2>2
<1>8. CASE Apply(r)
  <2>1. TypeOK'
    BY <1>8, GotoType DEF Apply, Phases, TypeOK, lock, destination, config, cursor
  <2>2. Fenced'
    BY <1>8, GotoType DEF Apply, Phases, Fenced, TypeOK, lock
  <2>. QED  BY <2>1, <2>2
<1>9. CASE Commit(r)
  <2>1. staged[r] # "nothing" /\ TakesEffect(r)
    BY <1>9 DEF Commit, Fenced
  <2>2. /\ phase' \in [Runners -> Phases] /\ outcome' \in [Runners -> Outcomes]
        /\ phase'[r] # "Committing"
        /\ \A q \in Runners \ {r} : phase'[q] = phase[q]
    <3>1. staged[r] \in {"effect", "skip", "reset"}
      BY <2>1 DEF TypeOK
    <3>2. CASE staged[r] = "effect"
      BY <1>9, <3>2, GotoType DEF Commit, Phases
    <3>3. CASE staged[r] = "skip"
      BY <1>9, <3>3, GotoType DEF Commit, NextEnvelope, Phases
    <3>4. CASE staged[r] = "reset"
      BY <1>9, <3>4, GotoType DEF Commit, AfterReset, Phases
    <3>. QED  BY <3>1, <3>2, <3>3, <3>4
  <2>3. TypeOK'
    BY <1>9, <2>1, <2>2, EffectType DEF Commit, TypeOK, lock, config, cursor
  <2>4. Fenced'
    BY <1>9, <2>2 DEF Commit, Fenced, TypeOK, lock
  <2>. QED  BY <2>3, <2>4
<1>10. CASE AfterCommit(r)
  <2>1. TypeOK'
    BY <1>10, GotoType DEF AfterCommit, NextEnvelope, Phases, TypeOK, lock, destination, config,
                           cursor
  <2>2. Fenced'
    BY <1>10, GotoType DEF AfterCommit, NextEnvelope, Phases, Fenced, lock
  <2>. QED  BY <2>1, <2>2
<1>11. CASE ReleaseCaughtUp(r) \/ ReleaseStopped(r) \/ ReleaseReset(r)
  BY <1>11, ReleaseKeeps DEF ReleaseCaughtUp, ReleaseStopped, ReleaseReset, Outcomes
<1>12. CASE Sleep(r)
  <2>1. TypeOK'
    BY <1>12, GotoType DEF Sleep, Phases, TypeOK, lock, destination, config, cursor
  <2>2. Fenced'
    BY <1>12, GotoType DEF Sleep, Phases, Fenced, lock
  <2>. QED  BY <2>1, <2>2
<1>13. CASE StageReset(r)
  <2>1. TypeOK'
    BY <1>13, GotoType DEF StageReset, Phases, TypeOK, lock, destination, config, cursor
  <2>2. Fenced'
    BY <1>13, GotoType DEF StageReset, Phases, Fenced, TypeOK, lock
  <2>. QED  BY <2>1, <2>2
<1>14. CASE IdentityMismatch(r) \/ LeadershipLost(r)
  BY <1>14, FailKeeps DEF IdentityMismatch, LeadershipLost, Outcomes
<1>. QED
  BY <1>1, <1>2, <1>3, <1>4, <1>5, <1>6, <1>7, <1>8, <1>9, <1>10, <1>11, <1>12, <1>13, <1>14
  DEF Run

(***************************************************************************)
(* Failures, decisions and crashes keep types and fence.                   *)
(***************************************************************************)
LEMMA DisturbKeepsFence ==
  ASSUME TypeAndFence, NEW r \in Runners, Disturb(r)
  PROVE  TypeAndFence'
<1>. USE DEF TypeAndFence
<1>1. CASE AcquireFails(r) \/ SourceFails(r) \/ DecodeFails(r) \/ AfterCommitFails(r) \/ ResetFails(r)
           \/ StatementFails(r) \/ Crash(r)
  BY <1>1, FailKeeps
  DEF AcquireFails, SourceFails, DecodeFails, AfterCommitFails, ResetFails, StatementFails, Crash,
      Outcomes
<1>2. ASSUME NEW decision \in Decisions, ApplyFails(r, decision)
      PROVE  TypeAndFence'
  <2>1. CASE Return(r, "RetryExhausted") \/ Return(r, "Application")
    <3>1. TypeOK'
      BY <1>2, <2>1, ReturnType DEF ApplyFails, Outcomes, TypeOK, lock, destination, config
    <3>2. Fenced'
      BY <1>2, <2>1, ReturnType DEF ApplyFails, Outcomes, Fenced, lock
    <3>. QED  BY <3>1, <3>2
  <2>2. CASE /\ Goto(r, "Beginning") /\ ~RetriesExhausted(r)
             /\ attempt' = [attempt EXCEPT ![r] = @ + 1]
             /\ UNCHANGED << after, through, page, position, staged >>
    <3>0. phase' \in [Runners -> Phases] /\ outcome' \in [Runners -> Outcomes]
      BY <2>2, GotoType DEF Phases
    <3>3. attempt[r] \in 0..(MaxRetries + 1) /\ ~(attempt[r] > MaxRetries)
      BY <2>2 DEF RetriesExhausted, TypeOK
    <3>4. attempt[r] + 1 \in 0..(MaxRetries + 1)
      BY <3>3
    <3>5. attempt' \in [Runners -> 0..(MaxRetries + 1)]
      BY <2>2, <3>4 DEF TypeOK
    <3>1. TypeOK'
      BY <1>2, <2>2, <3>0, <3>5 DEF ApplyFails, TypeOK, lock, destination, config
    <3>2. Fenced'
      BY <1>2, <2>2, GotoType DEF ApplyFails, Phases, Fenced, lock
    <3>. QED  BY <3>1, <3>2
  <2>3. CASE (Goto(r, "Skipping") \/ Goto(r, "Stopping")) /\ UNCHANGED << cursor, staged >>
    <3>1. TypeOK'
      BY <1>2, <2>3, GotoType DEF ApplyFails, Phases, TypeOK, lock, destination, config, cursor
    <3>2. Fenced'
      BY <1>2, <2>3, GotoType DEF ApplyFails, Phases, Fenced, lock
    <3>. QED  BY <3>1, <3>2
  <2>. QED  BY <1>2, <2>1, <2>2, <2>3 DEF ApplyFails, Decisions
<1>3. CASE CommitIndeterminate(r)
  <2>1. Return(r, "CommitIndeterminate") /\ "CommitIndeterminate" \in Outcomes
    BY <1>3 DEF CommitIndeterminate, Outcomes
  <2>2. /\ readModel' \in Seq(Nat) /\ progress' \in Nat
        /\ boundTo' \in Identities \cup {None} /\ skipped' \subseteq Nat
    <3>1. CASE UNCHANGED destination
      BY <3>1 DEF destination, TypeOK
    <3>2. CASE session[r] /\ TakesEffect(r)
      <4>1. staged[r] # "nothing"
        BY <1>3, <3>2 DEF CommitIndeterminate, Fenced
      <4>. QED  BY <3>2, <4>1, EffectType
    <3>. QED  BY <1>3, <3>1, <3>2 DEF CommitIndeterminate
  <2>3. TypeOK'
    BY <1>3, <2>1, <2>2, ReturnType DEF CommitIndeterminate, TypeOK, lock, config
  <2>4. Fenced'
    BY <1>3, <2>1, ReturnType DEF CommitIndeterminate, Fenced, lock
  <2>. QED  BY <2>3, <2>4
<1>4. CASE ReleaseCancelled(r)
  BY <1>4, ReleaseKeeps DEF ReleaseCancelled, Outcomes
<1>5. CASE SessionDies(r)
  <2>1. TypeOK'
    BY <1>5 DEF SessionDies, TypeOK, destination, config, cursor
  <2>2. Fenced'
    BY <1>5 DEF SessionDies, TypeOK, Fenced
  <2>. QED  BY <2>1, <2>2
<1>. QED  BY <1>1, <1>2, <1>3, <1>4, <1>5 DEF Disturb

(***************************************************************************)
(* Types and fence always hold: at most one session has the lock, and only *)
(* that session has a transaction.                                         *)
(***************************************************************************)
LEMMA FenceInvariance == Spec => []TypeAndFence
<1>1. Init => TypeAndFence
  BY DEF Init, TypeAndFence, TypeOK, Fenced, Phases, Outcomes
<1>2. TypeAndFence /\ [Next]_vars => TypeAndFence'
  <2>. SUFFICES ASSUME TypeAndFence, [Next]_vars PROVE TypeAndFence'
    OBVIOUS
  <2>1. CASE Publish
    BY <2>1 DEF Publish, TypeAndFence, TypeOK, Fenced, lock, destination, config, cursor
  <2>2. CASE UNCHANGED vars
    BY <2>2 DEF vars, TypeAndFence, TypeOK, Fenced, lock, destination, config, cursor
  <2>. QED
    BY <2>1, <2>2, RunKeepsFence, DisturbKeepsFence DEF Next, AllReturned
<1>. QED  BY <1>1, <1>2, PTL DEF Spec

(***************************************************************************)
(* Every variable keeps its type: in particular an event is applied at     *)
(* most max_retries + 1 times in a row.                                    *)
(***************************************************************************)
THEOREM TypeCorrect == Spec => []TypeOK
<1>1. TypeAndFence => TypeOK  BY DEF TypeAndFence
<1>. QED  BY <1>1, FenceInvariance, PTL

-------------------------------------------------------------------------------
(***************************************************************************)
(* What a call knows.  Its page is a gapless initial segment of the        *)
(* selected positions after `after`, up to a mark the source had reached.  *)
(* This is about the call's own variables and survives the loss of its     *)
(* session.                                                                *)
(***************************************************************************)
Fresh(r) ==
  phase[r] \in {"Start", "Loading", "Resetting", "Releasing"} \/ staged[r] = "reset"

Cursor(r) ==
  /\ page[r] \subseteq Selected
  /\ \A p \in page[r] : after[r] < p /\ p <= through[r]
  /\ \A p \in page[r], q \in Selected : after[r] < q /\ q < p => q \in page[r]
  /\ through[r] <= frontier
  /\ Fresh(r) => page[r] = {}

(***************************************************************************)
(* As long as its session lives, a call also knows the destination:        *)
(* between events `after` is the committed progress, and the event it      *)
(* works on is the next one due.                                           *)
(***************************************************************************)
Due(p) == /\ p \in Selected /\ progress < p
          /\ \A q \in Selected : q <= progress \/ p <= q

BetweenEvents(r) == phase[r] \in {"Draining", "Paging", "Envelope", "Notifying", "CaughtUp"}

InFlight(r) == \/ phase[r] \in {"Beginning", "Applying", "Skipping", "Stopping"}
               \/ staged[r] \in {"effect", "skip"}

Knows(r) ==
  /\ BetweenEvents(r) => after[r] = progress
  /\ InFlight(r) => /\ position[r] = after[r] /\ position[r] <= through[r]
                    /\ Due(position[r])
  /\ phase[r] = "CaughtUp" => \A p \in Selected : p <= through[r] => p <= after[r]

Delivered == ExactlyOnce /\ \A p \in skipped : p <= progress

Inv == /\ TypeAndFence
       /\ \A r \in Runners : Cursor(r)
       /\ \A r \in Runners : session[r] => Knows(r)
       /\ Delivered

(***************************************************************************)
(* Delivery positions start at one.                                        *)
(***************************************************************************)
LEMMA SelectedPositive == \A p \in Selected : p \in Nat /\ 0 < p
  BY SelectedAssumption

(***************************************************************************)
(* Appending an effect adds its position to the effects.                   *)
(***************************************************************************)
LEMMA AppendElements ==
  ASSUME NEW s \in Seq(Nat), NEW e \in Nat
  PROVE  ToSet(Append(s, e)) = ToSet(s) \cup {e}
<1>1. /\ DOMAIN Append(s, e) = 1..(Len(s) + 1) /\ DOMAIN s = 1..Len(s) /\ Len(s) \in Nat
      /\ Append(s, e)[Len(s) + 1] = e
      /\ \A i \in 1..Len(s) : Append(s, e)[i] = s[i]
  OBVIOUS
<1>2. ToSet(Append(s, e)) \subseteq ToSet(s) \cup {e}
  <2>. SUFFICES ASSUME NEW i \in 1..(Len(s) + 1) PROVE Append(s, e)[i] \in ToSet(s) \cup {e}
    BY <1>1 DEF ToSet
  <2>1. i \in 1..Len(s) \/ i = Len(s) + 1  BY <1>1
  <2>. QED  BY <1>1, <2>1 DEF ToSet
<1>3. e \in ToSet(Append(s, e))
  <2>1. Len(s) + 1 \in DOMAIN Append(s, e)  BY <1>1
  <2>. QED  BY <1>1, <2>1 DEF ToSet
<1>4. ToSet(s) \subseteq ToSet(Append(s, e))
  <2>. SUFFICES ASSUME NEW i \in 1..Len(s) PROVE s[i] \in ToSet(Append(s, e))
    BY <1>1 DEF ToSet
  <2>1. i \in DOMAIN Append(s, e)  BY <1>1
  <2>. QED  BY <1>1, <2>1 DEF ToSet
<1>. QED  BY <1>2, <1>3, <1>4

(***************************************************************************)
(* A transaction that takes effect keeps the read model exact: its event   *)
(* is the next one due.                                                    *)
(***************************************************************************)
LEMMA EffectDelivers ==
  ASSUME Inv, NEW r \in Runners, session[r], staged[r] # "nothing", TakesEffect(r)
  PROVE  Delivered'
<1>1. /\ staged[r] \in {"reset", "effect", "skip"} /\ readModel \in Seq(Nat) /\ progress \in Nat
      /\ position[r] \in Nat /\ skipped \subseteq Nat
  BY DEF Inv, TypeAndFence, TypeOK
<1>2. /\ \A i, j \in 1..Len(readModel) : i < j => readModel[i] < readModel[j]
      /\ ToSet(readModel) = {p \in Selected : p <= progress} \ skipped
      /\ \A p \in skipped : p <= progress
  BY DEF Inv, Delivered, ExactlyOnce
<1>3. ASSUME staged[r] \in {"effect", "skip"}
      PROVE  /\ position[r] \in Selected /\ progress < position[r]
             /\ \A q \in Selected : q <= progress \/ position[r] <= q
  BY <1>3 DEF Inv, Knows, InFlight, Due
<1>4. CASE staged[r] = "reset"
  <2>1. readModel' = << >> /\ progress' = 0 /\ skipped' = {}
    BY <1>4 DEF TakesEffect
  <2>2. ToSet(<< >>) = {}
    BY DEF ToSet
  <2>3. {p \in Selected : p <= 0} = {}
    BY SelectedPositive
  <2>. QED  BY <2>1, <2>2, <2>3 DEF Delivered, ExactlyOnce
<1>5. CASE staged[r] = "effect"
  <2>1. readModel' = Append(readModel, position[r]) /\ progress' = position[r] /\ skipped' = skipped
    BY <1>5 DEF TakesEffect
  <2>2. ToSet(readModel') = ToSet(readModel) \cup {position[r]}
    BY <1>1, <2>1, AppendElements
  <2>3. {p \in Selected : p <= position[r]} = {p \in Selected : p <= progress} \cup {position[r]}
    <3>1. \A p \in Selected : p <= position[r] <=> p <= progress \/ p = position[r]
      BY <1>1, <1>3, <1>5, SelectedPositive
    <3>. QED  BY <1>3, <1>5, <3>1
  <2>4. position[r] \notin skipped
    BY <1>1, <1>2, <1>3, <1>5
  <2>5. ToSet(readModel') = {p \in Selected : p <= progress'} \ skipped'
    BY <1>2, <2>1, <2>2, <2>3, <2>4
  <2>6. \A i \in 1..Len(readModel) : readModel[i] <= progress
    <3>. SUFFICES ASSUME NEW i \in 1..Len(readModel) PROVE readModel[i] <= progress
      OBVIOUS
    <3>1. readModel[i] \in ToSet(readModel)
      BY <1>1 DEF ToSet
    <3>. QED  BY <1>2, <3>1
  <2>7. \A i, j \in 1..Len(readModel') : i < j => readModel'[i] < readModel'[j]
    <3>. SUFFICES ASSUME NEW i \in 1..Len(readModel'), NEW j \in 1..Len(readModel'), i < j
                  PROVE  readModel'[i] < readModel'[j]
      OBVIOUS
    <3>1. /\ Len(readModel') = Len(readModel) + 1 /\ Len(readModel) \in Nat
          /\ readModel'[Len(readModel) + 1] = position[r]
          /\ \A k \in 1..Len(readModel) : readModel'[k] = readModel[k] /\ readModel[k] \in Nat
      BY <1>1, <2>1
    <3>2. i \in 1..Len(readModel)
      BY <3>1
    <3>3. CASE j \in 1..Len(readModel)
      BY <1>2, <3>1, <3>2, <3>3
    <3>4. CASE j = Len(readModel) + 1
      BY <1>1, <1>3, <1>5, <2>6, <3>1, <3>2, <3>4
    <3>. QED  BY <3>1, <3>3, <3>4
  <2>8. \A p \in skipped' : p <= progress'
    BY <1>1, <1>2, <1>3, <1>5, <2>1
  <2>. QED  BY <2>5, <2>7, <2>8 DEF Delivered, ExactlyOnce
<1>6. CASE staged[r] = "skip"
  <2>1. /\ readModel' = readModel /\ progress' = position[r]
        /\ skipped' = skipped \cup {position[r]}
    BY <1>6 DEF TakesEffect
  <2>2. {p \in Selected : p <= position[r]} \ (skipped \cup {position[r]})
          = {p \in Selected : p <= progress} \ skipped
    <3>1. \A p \in Selected : p <= position[r] <=> p <= progress \/ p = position[r]
      BY <1>1, <1>3, <1>6, SelectedPositive
    <3>2. ~(position[r] <= progress)
      BY <1>1, <1>3, <1>6
    <3>. QED  BY <3>1, <3>2
  <2>3. \A p \in skipped' : p <= progress'
    BY <1>1, <1>2, <1>3, <1>6, <2>1
  <2>. QED  BY <1>2, <2>1, <2>2, <2>3 DEF Delivered, ExactlyOnce
<1>. QED  BY <1>1, <1>4, <1>5, <1>6

-------------------------------------------------------------------------------
(***************************************************************************)
(* A call that takes no part in a step.                                    *)
(***************************************************************************)
Idle(q) ==
  /\ session'[q] = session[q] /\ phase'[q] = phase[q] /\ staged'[q] = staged[q]
  /\ after'[q] = after[q] /\ through'[q] = through[q] /\ page'[q] = page[q]
  /\ position'[q] = position[q]

(***************************************************************************)
(* No step of one call changes the variables or the session of another.    *)
(***************************************************************************)
LEMMA OthersIdle ==
  ASSUME TypeAndFence, NEW r \in Runners, NEW q \in Runners \ {r}, Run(r) \/ Disturb(r)
  PROVE  Idle(q) /\ frontier' = frontier /\ (UNCHANGED destination \/ session[r])
<1>. USE DEF TypeAndFence, TypeOK, Idle
<1>1. CASE Acquire(r)  BY <1>1 DEF Acquire, Goto, cursor
<1>2. ASSUME NEW error, Fail(r, error) PROVE Idle(q) /\ frontier' = frontier /\ UNCHANGED destination
  BY <1>2 DEF Fail, Return, lock
<1>3. CASE \/ Busy(r) \/ IdentityMismatch(r) \/ LeadershipLost(r) \/ SourceFails(r) \/ DecodeFails(r)
           \/ AfterCommitFails(r) \/ ResetFails(r) \/ StatementFails(r) \/ Crash(r) \/ AcquireFails(r)
  BY <1>2, <1>3 DEF Busy, IdentityMismatch, LeadershipLost, SourceFails, DecodeFails,
                    AfterCommitFails, ResetFails, StatementFails, Crash, AcquireFails
<1>4. CASE LoadProgress(r)  BY <1>4 DEF LoadProgress, Goto, lock
<1>5. CASE HighWatermark(r)  BY <1>5 DEF HighWatermark, Goto, lock
<1>6. CASE ReadPage(r)  BY <1>6 DEF ReadPage, Goto, lock
<1>7. CASE TakeEnvelope(r)  BY <1>7 DEF TakeEnvelope, Goto, lock
<1>8. CASE Begin(r)  BY <1>8 DEF Begin, NextEnvelope, Goto, lock, cursor
<1>9. CASE Apply(r)  BY <1>9 DEF Apply, Goto, lock, cursor
<1>10. CASE Commit(r)
  <2>0. staged[r] \in {"effect", "skip", "reset"}
    BY <1>10 DEF Commit, Fenced
  <2>1. phase'[q] = phase[q]
    BY <1>10, <2>0 DEF Commit, NextEnvelope, Goto
  <2>. QED  BY <1>10, <2>1 DEF Commit, lock, cursor
<1>11. CASE AfterCommit(r)  BY <1>11 DEF AfterCommit, NextEnvelope, Goto, lock, cursor
<1>12. CASE ReleaseCaughtUp(r) \/ ReleaseStopped(r) \/ ReleaseReset(r) \/ ReleaseCancelled(r)
  BY <1>12 DEF ReleaseCaughtUp, ReleaseStopped, ReleaseReset, ReleaseCancelled, Release, Return
<1>13. CASE Sleep(r)  BY <1>13 DEF Sleep, Goto, lock, cursor
<1>14. CASE StageReset(r)  BY <1>14 DEF StageReset, Goto, lock, cursor
<1>15. ASSUME NEW decision \in Decisions, ApplyFails(r, decision)
       PROVE  Idle(q) /\ frontier' = frontier /\ UNCHANGED destination
  <2>1. \/ Return(r, "RetryExhausted") \/ Return(r, "Application")
        \/ /\ Goto(r, "Beginning") \/ Goto(r, "Skipping") \/ Goto(r, "Stopping")
           /\ UNCHANGED << after, through, page, position, staged >>
    BY <1>15 DEF ApplyFails, Decisions, cursor
  <2>2. CASE Return(r, "RetryExhausted") \/ Return(r, "Application")
    BY <1>15, <2>2 DEF ApplyFails, Return, lock
  <2>3. CASE /\ Goto(r, "Beginning") \/ Goto(r, "Skipping") \/ Goto(r, "Stopping")
             /\ UNCHANGED << after, through, page, position, staged >>
    BY <1>15, <2>3 DEF ApplyFails, Goto, lock
  <2>. QED  BY <2>1, <2>2, <2>3
<1>16. CASE CommitIndeterminate(r)  BY <1>16 DEF CommitIndeterminate, Return, lock
<1>17. CASE SessionDies(r)  BY <1>17 DEF SessionDies, cursor
<1>. QED
  BY <1>1, <1>3, <1>4, <1>5, <1>6, <1>7, <1>8, <1>9, <1>10, <1>11, <1>12, <1>13, <1>14, <1>15,
     <1>16, <1>17 DEF Run, Disturb

(***************************************************************************)
(* What a call knows survives the steps of the others, as long as the      *)
(* stepping call does not hold the session.                                *)
(***************************************************************************)
LEMMA OthersKeepKnowledge ==
  ASSUME Inv, NEW r \in Runners, NEW q \in Runners \ {r}, Run(r) \/ Disturb(r)
  PROVE  Cursor(q)' /\ (session[q] => session[r] \/ Knows(q)')
<1>1. Idle(q) /\ frontier' = frontier /\ (UNCHANGED destination \/ session[r])
  BY OthersIdle DEF Inv, TypeAndFence
<1>2. Cursor(q)'
  BY <1>1 DEF Inv, Cursor, Fresh, Idle
<1>3. ASSUME session[q], UNCHANGED destination PROVE Knows(q)'
  BY <1>1, <1>3 DEF Inv, Knows, BetweenEvents, InFlight, Due, Idle, destination
<1>. QED  BY <1>1, <1>2, <1>3

(***************************************************************************)
(* A call that has returned claims nothing.                                *)
(***************************************************************************)
LEMMA ReturnKeepsKnowledge ==
  ASSUME TypeOK, NEW r \in Runners, NEW answer, Return(r, answer), frontier' = frontier
  PROVE  Cursor(r)' /\ Knows(r)'
<1>1. /\ phase'[r] = "Done" /\ staged'[r] = "nothing" /\ page'[r] = {} /\ through'[r] = 0
      /\ frontier \in Nat
  BY DEF Return, TypeOK
<1>. QED  BY <1>1 DEF Cursor, Fresh, Knows, BetweenEvents, InFlight

(***************************************************************************)
(* A page has no gaps, and it is empty only when nothing is left: a batch  *)
(* size of at least one makes an empty page mean the end.                  *)
(***************************************************************************)
LEMMA PageIsSegment ==
  ASSUME NEW from \in Nat, NEW to \in Nat, NEW some \in ReadEnvelopes(from, to)
  PROVE  /\ some \subseteq Selected
         /\ \A p \in some : from < p /\ p <= to
         /\ \A p \in some, q \in Selected : from < q /\ q < p => q \in some
         /\ some = {} => \A p \in Selected : p <= to => p <= from
<1>. DEFINE range == {p \in Selected : from < p /\ p <= to}
<1>1. /\ some \subseteq range
      /\ \A p \in some, q \in range \ some : p < q
      /\ \/ Cardinality(some) = BatchSize
         \/ some = range /\ Cardinality(some) < BatchSize
  BY DEF ReadEnvelopes, FirstOf
<1>2. some \subseteq Selected /\ \A p \in some : from < p /\ p <= to
  BY <1>1
<1>3. ASSUME NEW p \in some, NEW q \in Selected, from < q, q < p PROVE q \in some
  <2>1. q \in range
    BY <1>2, <1>3, SelectedPositive
  <2>2. ~(p < q)
    BY <1>2, <1>3, SelectedPositive
  <2>. QED  BY <1>1, <2>1, <2>2
<1>4. ASSUME some = {}, NEW p \in Selected, p <= to PROVE p <= from
  <2>1. Cardinality(some) # BatchSize
    BY <1>4, FS_EmptySet, BatchSizeAssumption
  <2>2. p \notin range
    BY <1>1, <1>4, <2>1
  <2>. QED  BY <1>4, <2>2, SelectedPositive
<1>. QED  BY <1>2, <1>3, <1>4

(***************************************************************************)
(* The first event of a page is the next one due.                          *)
(***************************************************************************)
LEMMA TakeKeepsKnowledge ==
  ASSUME Inv, NEW r \in Runners, TakeEnvelope(r)
  PROVE  Cursor(r)' /\ (session[r] => Knows(r)')
<1>1. PICK p \in page[r] : /\ \A q \in page[r] : p <= q
                           /\ position' = [position EXCEPT ![r] = p]
                           /\ after' = [after EXCEPT ![r] = p]
                           /\ page' = [page EXCEPT ![r] = @ \ {p}]
  BY DEF TakeEnvelope
<1>2. /\ position'[r] = p /\ after'[r] = p /\ page'[r] = page[r] \ {p} /\ through'[r] = through[r]
      /\ phase[r] = "Envelope" /\ phase'[r] = "Beginning" /\ staged'[r] = staged[r]
      /\ frontier' = frontier /\ progress' = progress
  BY <1>1 DEF TakeEnvelope, Goto, Inv, TypeAndFence, TypeOK, destination
<1>3. /\ page[r] \subseteq Selected /\ through[r] <= frontier
      /\ \A q \in page[r] : after[r] < q /\ q <= through[r]
      /\ \A q \in page[r], s \in Selected : after[r] < s /\ s < q => s \in page[r]
  BY DEF Inv, Cursor
<1>4. staged[r] = "nothing"
  BY <1>2 DEF Inv, TypeAndFence, Fenced
<1>5. p \in Selected /\ p \in Nat /\ after[r] \in Nat /\ progress \in Nat
  BY <1>3, SelectedPositive DEF Inv, TypeAndFence, TypeOK
<1>6. \A q \in page[r] : q \in Nat
  BY <1>3, SelectedPositive
<1>7. Cursor(r)'
  <2>1. page'[r] \subseteq Selected
    BY <1>2, <1>3
  <2>2. \A q \in page'[r] : after'[r] < q /\ q <= through'[r]
    BY <1>1, <1>2, <1>3, <1>5, <1>6
  <2>3. \A q \in page'[r], s \in Selected : after'[r] < s /\ s < q => s \in page'[r]
    <3>. SUFFICES ASSUME NEW q \in page[r], NEW s \in Selected, p < s, s < q
                  PROVE  s \in page[r] \ {p}
      BY <1>2
    <3>1. after[r] < s /\ s # p
      BY <1>3, <1>5, SelectedPositive
    <3>. QED  BY <1>3, <3>1
  <2>4. through'[r] <= frontier' /\ ~Fresh(r)'
    BY <1>2, <1>3, <1>4 DEF Fresh
  <2>. QED  BY <2>1, <2>2, <2>3, <2>4 DEF Cursor
<1>8. ASSUME session[r] PROVE Knows(r)'
  <2>1. after[r] = progress
    BY <1>2, <1>8 DEF Inv, Knows, BetweenEvents
  <2>2. ASSUME NEW q \in Selected PROVE q <= progress \/ p <= q
    BY <1>1, <1>3, <1>5, <2>1, SelectedPositive
  <2>3. progress < p /\ p <= through[r]
    BY <1>3, <2>1
  <2>4. Due(p)'
    BY <1>2, <1>5, <2>2, <2>3 DEF Due
  <2>5. InFlight(r)' /\ ~BetweenEvents(r)'
    BY <1>2 DEF InFlight, BetweenEvents
  <2>. QED  BY <1>2, <2>3, <2>4, <2>5 DEF Knows, Due
<1>. QED  BY <1>7, <1>8

(***************************************************************************)
(* A step that moves no cursor keeps it, unless it makes the call fresh.   *)
(***************************************************************************)
LEMMA CursorStays ==
  ASSUME Inv, NEW r \in Runners, frontier' = frontier, after'[r] = after[r],
         through'[r] = through[r], page'[r] = page[r], Fresh(r)' => Fresh(r)
  PROVE  Cursor(r)'
  BY DEF Inv, Cursor

(***************************************************************************)
(* An event that is being worked on stays the next one due until its       *)
(* transaction commits.                                                    *)
(***************************************************************************)
LEMMA FlightContinues ==
  ASSUME Inv, NEW r \in Runners, session[r] => InFlight(r),
         after'[r] = after[r], through'[r] = through[r], position'[r] = position[r],
         progress' = progress, ~BetweenEvents(r)'
  PROVE  session[r] => Knows(r)'
<1>. SUFFICES ASSUME session[r] PROVE Knows(r)'
  OBVIOUS
<1>1. /\ position[r] = after[r] /\ position[r] <= through[r] /\ Due(position[r])
  BY DEF Inv, Knows
<1>2. phase'[r] # "CaughtUp"
  BY DEF BetweenEvents
<1>3. Due(position[r])'
  BY <1>1 DEF Due
<1>. QED  BY <1>1, <1>2, <1>3 DEF Knows, Due

(***************************************************************************)
(* Every step of a call keeps what the call knows.                         *)
(***************************************************************************)
LEMMA OwnKnowledge ==
  ASSUME Inv, NEW r \in Runners, Run(r) \/ Disturb(r)
  PROVE  Cursor(r)' /\ (session'[r] => Knows(r)')
<1>0. /\ TypeOK /\ TypeOK' /\ Fenced /\ Fenced'
  BY RunKeepsFence, DisturbKeepsFence DEF Inv, TypeAndFence
<1>a. /\ after[r] \in Nat /\ through[r] \in Nat /\ frontier \in Nat /\ progress \in Nat
  BY <1>0 DEF TypeOK
<1>b. ASSUME phase[r] # "Committing" PROVE staged[r] = "nothing"
  BY <1>0, <1>b DEF Fenced
<1>c. ASSUME phase'[r] # "Committing" PROVE staged'[r] = "nothing"
  BY <1>0, <1>c DEF Fenced
<1>1. CASE Acquire(r)
  <2>1. /\ phase[r] = "Start" /\ phase'[r] \in {"Loading", "Resetting"} /\ frontier' = frontier
        /\ after'[r] = after[r] /\ through'[r] = through[r] /\ page'[r] = page[r]
    BY <1>0, <1>1 DEF Acquire, Goto, AfterAcquire, cursor, TypeOK
  <2>2. Cursor(r)'
    BY <2>1, CursorStays DEF Fresh
  <2>3. Knows(r)'
    BY <1>c, <2>1 DEF Knows, BetweenEvents, InFlight
  <2>. QED  BY <2>2, <2>3
<1>2. ASSUME NEW answer, Return(r, answer), frontier' = frontier PROVE Cursor(r)' /\ Knows(r)'
  BY <1>0, <1>2, ReturnKeepsKnowledge
<1>3. CASE \/ Busy(r) \/ IdentityMismatch(r) \/ LeadershipLost(r) \/ SourceFails(r) \/ DecodeFails(r)
           \/ AfterCommitFails(r) \/ ResetFails(r) \/ StatementFails(r) \/ Crash(r) \/ AcquireFails(r)
  BY <1>2, <1>3 DEF Busy, IdentityMismatch, LeadershipLost, SourceFails, DecodeFails,
                    AfterCommitFails, ResetFails, StatementFails, Crash, AcquireFails, Fail
<1>4. CASE LoadProgress(r)
  <2>1. /\ phase[r] = "Loading" /\ phase'[r] = "Draining" /\ frontier' = frontier
        /\ after'[r] = progress /\ progress' = progress
        /\ through'[r] = through[r] /\ page'[r] = page[r]
    BY <1>0, <1>4 DEF LoadProgress, Goto, destination, TypeOK
  <2>2. page[r] = {} /\ through[r] <= frontier
    BY <2>1 DEF Inv, Cursor, Fresh
  <2>3. Cursor(r)'
    BY <2>1, <2>2 DEF Cursor
  <2>4. Knows(r)'
    BY <1>c, <2>1 DEF Knows, BetweenEvents, InFlight
  <2>. QED  BY <2>3, <2>4
<1>5. CASE HighWatermark(r)
  <2>1. /\ phase[r] = "Draining" /\ phase'[r] = (IF frontier = 0 THEN "CaughtUp" ELSE "Paging")
        /\ frontier' = frontier /\ through'[r] = frontier /\ after'[r] = after[r]
        /\ page'[r] = page[r] /\ progress' = progress /\ session'[r] = session[r]
    BY <1>0, <1>5 DEF HighWatermark, Goto, destination, lock, TypeOK
  <2>2. /\ page[r] \subseteq Selected /\ through[r] <= frontier
        /\ \A p \in page[r] : after[r] < p /\ p <= through[r]
        /\ \A p \in page[r], q \in Selected : after[r] < q /\ q < p => q \in page[r]
    BY DEF Inv, Cursor
  <2>3. \A p \in page[r] : p <= frontier
    BY <1>a, <2>2, SelectedPositive
  <2>4. ~Fresh(r)'
    BY <1>c, <2>1 DEF Fresh
  <2>5. Cursor(r)'
    BY <1>a, <2>1, <2>2, <2>3, <2>4 DEF Cursor
  <2>6. ASSUME session[r] PROVE Knows(r)'
    <3>1. after[r] = progress
      BY <2>1, <2>6 DEF Inv, Knows, BetweenEvents
    <3>2. ~InFlight(r)'
      BY <1>c, <2>1 DEF InFlight
    <3>3. phase'[r] = "CaughtUp" => \A p \in Selected : p <= through'[r] => p <= after'[r]
      BY <2>1, SelectedPositive
    <3>. QED  BY <2>1, <3>1, <3>2, <3>3 DEF Knows
  <2>. QED  BY <2>1, <2>5, <2>6
<1>6. CASE ReadPage(r)
  <2>1. PICK envelopes \in ReadEnvelopes(after[r], through[r]) :
          /\ page' = [page EXCEPT ![r] = envelopes]
          /\ Goto(r, IF envelopes = {} THEN "CaughtUp" ELSE "Envelope")
    BY <1>6 DEF ReadPage
  <2>2. /\ phase[r] = "Paging" /\ page'[r] = envelopes
        /\ phase'[r] = (IF envelopes = {} THEN "CaughtUp" ELSE "Envelope")
        /\ frontier' = frontier /\ through'[r] = through[r] /\ after'[r] = after[r]
        /\ progress' = progress /\ session'[r] = session[r]
    BY <1>0, <1>6, <2>1 DEF ReadPage, Goto, destination, lock, TypeOK
  <2>3. /\ envelopes \subseteq Selected
        /\ \A p \in envelopes : after[r] < p /\ p <= through[r]
        /\ \A p \in envelopes, q \in Selected : after[r] < q /\ q < p => q \in envelopes
        /\ envelopes = {} => \A p \in Selected : p <= through[r] => p <= after[r]
    BY <1>a, PageIsSegment
  <2>4. ~Fresh(r)' /\ ~InFlight(r)'
    BY <1>c, <2>2 DEF Fresh, InFlight
  <2>5. through[r] <= frontier
    BY DEF Inv, Cursor
  <2>6. Cursor(r)'
    BY <2>2, <2>3, <2>4, <2>5 DEF Cursor
  <2>7. ASSUME session[r] PROVE Knows(r)'
    <3>1. after[r] = progress
      BY <2>2, <2>7 DEF Inv, Knows, BetweenEvents
    <3>2. phase'[r] = "CaughtUp" => \A p \in Selected : p <= through'[r] => p <= after'[r]
      BY <2>2, <2>3
    <3>. QED  BY <2>2, <2>4, <3>1, <3>2 DEF Knows
  <2>. QED  BY <2>2, <2>6, <2>7
<1>7. CASE TakeEnvelope(r)
  <2>1. session'[r] = session[r]
    BY <1>7 DEF TakeEnvelope, lock
  <2>. QED  BY <1>7, <2>1, TakeKeepsKnowledge
<1>8. CASE Begin(r)
  <2>1. /\ phase[r] \in {"Beginning", "Skipping"} /\ session[r] /\ session' = session
        /\ UNCHANGED << cursor, destination, frontier >>
    BY <1>8 DEF Begin, lock
  <2>2. InFlight(r)
    BY <2>1 DEF InFlight
  <2>3. Pending(r)
    BY <2>1, <2>2 DEF Inv, Knows, Due, Pending
  <2>4. \/ phase'[r] = "Committing" /\ staged'[r] = "skip"
        \/ phase'[r] = "Applying" /\ staged'[r] = staged[r]
    BY <1>0, <1>8, <2>3 DEF Begin, Goto, TypeOK
  <2>5. staged[r] = "nothing"
    BY <1>b, <2>1
  <2>6. ~Fresh(r)' /\ ~BetweenEvents(r)'
    BY <2>4, <2>5 DEF Fresh, BetweenEvents
  <2>7. Cursor(r)'
    BY <2>1, <2>6, CursorStays DEF cursor
  <2>8. Knows(r)'
    BY <2>1, <2>2, <2>6, FlightContinues DEF cursor, destination
  <2>. QED  BY <2>7, <2>8
<1>9. CASE Apply(r)
  <2>1. /\ phase[r] = "Applying" /\ session[r] /\ phase'[r] = "Committing" /\ staged'[r] = "effect"
        /\ UNCHANGED << cursor, destination, frontier >>
    BY <1>0, <1>9 DEF Apply, Goto, TypeOK
  <2>2. InFlight(r) /\ ~Fresh(r)' /\ ~BetweenEvents(r)'
    BY <2>1 DEF InFlight, Fresh, BetweenEvents
  <2>3. Cursor(r)'
    BY <2>1, <2>2, CursorStays DEF cursor
  <2>4. Knows(r)'
    BY <2>1, <2>2, FlightContinues DEF cursor, destination
  <2>. QED  BY <2>3, <2>4
<1>10. CASE Commit(r)
  <2>1. /\ phase[r] = "Committing" /\ session[r] /\ TakesEffect(r)
        /\ UNCHANGED << cursor, frontier >>
    BY <1>10 DEF Commit
  <2>2. staged[r] \in {"effect", "skip", "reset"}
    BY <1>0, <2>1 DEF Fenced, TypeOK
  <2>3. CASE staged[r] = "reset"
    <3>1. phase'[r] \in {"Loading", "Releasing"}
      BY <1>0, <1>10, <2>3 DEF Commit, Goto, AfterReset, TypeOK
    <3>2. Cursor(r)'
      BY <2>1, <2>3, CursorStays DEF Fresh, cursor
    <3>3. Knows(r)'
      BY <1>c, <3>1 DEF Knows, BetweenEvents, InFlight
    <3>. QED  BY <3>2, <3>3
  <2>4. CASE staged[r] \in {"effect", "skip"}
    <3>1. phase'[r] \in {"Notifying", "Paging", "Envelope"}
      <4>1. CASE staged[r] = "effect"  BY <1>0, <1>10, <4>1 DEF Commit, Goto, TypeOK
      <4>2. CASE staged[r] = "skip"
        BY <1>0, <1>10, <4>2 DEF Commit, Goto, NextEnvelope, TypeOK
      <4>. QED  BY <2>4, <4>1, <4>2
    <3>2. progress' = position[r]
      BY <2>1, <2>4 DEF TakesEffect
    <3>3. position[r] = after[r]
      BY <2>1, <2>4 DEF Inv, Knows, InFlight
    <3>4. ~Fresh(r)' /\ ~InFlight(r)'
      BY <1>c, <3>1 DEF Fresh, InFlight
    <3>5. Cursor(r)'
      BY <2>1, <3>4, CursorStays DEF cursor
    <3>6. Knows(r)'
      BY <2>1, <3>1, <3>2, <3>3, <3>4 DEF Knows, cursor
    <3>. QED  BY <3>5, <3>6
  <2>. QED  BY <2>2, <2>3, <2>4
<1>11. CASE AfterCommit(r) \/ Sleep(r)
  <2>1. /\ phase[r] \in {"Notifying", "CaughtUp"} /\ phase'[r] \in {"Draining", "Paging", "Envelope"}
        /\ UNCHANGED << cursor, destination, frontier, session >>
    BY <1>0, <1>11 DEF AfterCommit, Sleep, Goto, NextEnvelope, TypeOK, lock
  <2>2. ~Fresh(r)' /\ ~InFlight(r)' /\ BetweenEvents(r)
    BY <1>c, <2>1 DEF Fresh, InFlight, BetweenEvents
  <2>3. Cursor(r)'
    BY <2>1, <2>2, CursorStays DEF cursor
  <2>4. ASSUME session[r] PROVE Knows(r)'
    BY <2>1, <2>2, <2>4 DEF Inv, Knows, cursor, destination
  <2>. QED  BY <2>1, <2>3, <2>4
<1>12. CASE ReleaseCaughtUp(r) \/ ReleaseStopped(r) \/ ReleaseReset(r) \/ ReleaseCancelled(r)
  BY <1>2, <1>12 DEF ReleaseCaughtUp, ReleaseStopped, ReleaseReset, ReleaseCancelled
<1>13. CASE StageReset(r)
  <2>1. /\ phase[r] = "Resetting" /\ phase'[r] = "Committing" /\ staged'[r] = "reset"
        /\ UNCHANGED << cursor, frontier >>
    BY <1>0, <1>13 DEF StageReset, Goto, TypeOK
  <2>2. Cursor(r)'
    BY <2>1, CursorStays DEF Fresh, cursor
  <2>3. Knows(r)'
    BY <2>1 DEF Knows, BetweenEvents, InFlight
  <2>. QED  BY <2>2, <2>3
<1>14. ASSUME NEW decision \in Decisions, ApplyFails(r, decision)
       PROVE  Cursor(r)' /\ (session'[r] => Knows(r)')
  <2>1. \/ Return(r, "RetryExhausted") \/ Return(r, "Application")
        \/ /\ Goto(r, "Beginning") \/ Goto(r, "Skipping") \/ Goto(r, "Stopping")
           /\ UNCHANGED << after, through, page, position, staged >>
    BY <1>14 DEF ApplyFails, Decisions, cursor
  <2>2. phase[r] = "Applying" /\ session[r] /\ UNCHANGED << frontier, destination >>
    BY <1>14 DEF ApplyFails
  <2>3. CASE Return(r, "RetryExhausted") \/ Return(r, "Application")
    BY <1>2, <2>2, <2>3
  <2>4. CASE /\ Goto(r, "Beginning") \/ Goto(r, "Skipping") \/ Goto(r, "Stopping")
             /\ UNCHANGED << after, through, page, position, staged >>
    <3>1. phase'[r] \in {"Beginning", "Skipping", "Stopping"}
      BY <1>0, <2>4 DEF Goto, TypeOK
    <3>2. InFlight(r) /\ ~Fresh(r)' /\ ~BetweenEvents(r)'
      BY <1>c, <2>2, <3>1 DEF InFlight, Fresh, BetweenEvents
    <3>3. Cursor(r)'
      BY <2>2, <2>4, <3>2, CursorStays
    <3>4. Knows(r)'
      BY <2>2, <2>4, <3>2, FlightContinues DEF destination
    <3>. QED  BY <3>3, <3>4
  <2>. QED  BY <2>1, <2>3, <2>4
<1>15. CASE CommitIndeterminate(r)
  BY <1>2, <1>15 DEF CommitIndeterminate
<1>16. CASE SessionDies(r)
  <2>1. /\ ~session'[r] /\ phase' = phase /\ staged'[r] = "nothing" /\ UNCHANGED << cursor, frontier >>
    BY <1>0, <1>16 DEF SessionDies, TypeOK
  <2>2. Cursor(r)'
    BY <2>1, CursorStays DEF Fresh, cursor
  <2>. QED  BY <2>1, <2>2
<1>. QED
  BY <1>1, <1>3, <1>4, <1>5, <1>6, <1>7, <1>8, <1>9, <1>10, <1>11, <1>12, <1>13, <1>14, <1>15, <1>16
  DEF Run, Disturb

-------------------------------------------------------------------------------
(***************************************************************************)
(* The reports that name an event.                                         *)
(***************************************************************************)
Troubles == {"Stopped", "Decode", "RetryExhausted", "Application"}

(***************************************************************************)
(* A step of a call changes the destination only by a commit of its live   *)
(* session, and reports only from the phases that may.                     *)
(***************************************************************************)
LEMMA StepShape ==
  ASSUME TypeAndFence, NEW r \in Runners, Run(r) \/ Disturb(r)
  PROVE  /\ frontier' = frontier
         /\ \/ UNCHANGED destination
            \/ session[r] /\ staged[r] # "nothing" /\ TakesEffect(r)
         /\ \A q \in Runners \ {r} : outcome'[q] = outcome[q]
         /\ outcome'[r] # outcome[r] =>
              /\ outcome'[r] = "CaughtUp" => session[r] /\ phase[r] = "CaughtUp"
              /\ outcome'[r] \in Troubles => session[r] /\ phase[r] \in {"Applying", "Stopping"}
<1>. USE DEF TypeAndFence, Troubles
<1>0. outcome \in [Runners -> Outcomes] /\ staged \in [Runners -> {"nothing", "effect", "skip", "reset"}]
  BY DEF TypeOK
<1>1. CASE \/ Acquire(r) \/ LoadProgress(r) \/ HighWatermark(r) \/ TakeEnvelope(r) \/ Apply(r)
           \/ AfterCommit(r) \/ Sleep(r) \/ StageReset(r) \/ SessionDies(r)
  BY <1>1 DEF Acquire, LoadProgress, HighWatermark, TakeEnvelope, Apply, AfterCommit, Sleep,
              StageReset, SessionDies, NextEnvelope, Goto
<1>2. CASE ReadPage(r) \/ Begin(r)
  BY <1>2 DEF ReadPage, Begin, NextEnvelope, Goto
<1>3. CASE \/ Busy(r) \/ IdentityMismatch(r) \/ LeadershipLost(r) \/ SourceFails(r)
           \/ AfterCommitFails(r) \/ ResetFails(r) \/ StatementFails(r) \/ Crash(r) \/ AcquireFails(r)
  BY <1>0, <1>3 DEF Busy, IdentityMismatch, LeadershipLost, SourceFails, AfterCommitFails, ResetFails,
                    StatementFails, Crash, AcquireFails, Fail, Return
<1>4. CASE DecodeFails(r)
  BY <1>0, <1>4 DEF DecodeFails, Fail, Return
<1>5. CASE ReleaseCaughtUp(r) \/ ReleaseStopped(r) \/ ReleaseReset(r) \/ ReleaseCancelled(r)
  BY <1>0, <1>5 DEF ReleaseCaughtUp, ReleaseStopped, ReleaseReset, ReleaseCancelled, Release, Return
<1>6. ASSUME NEW decision \in Decisions, ApplyFails(r, decision)
      PROVE  /\ frontier' = frontier /\ UNCHANGED destination
             /\ \A q \in Runners \ {r} : outcome'[q] = outcome[q]
             /\ outcome'[r] # outcome[r] =>
                  session[r] /\ phase[r] = "Applying" /\ outcome'[r] # "CaughtUp"
  <2>1. \/ Return(r, "RetryExhausted") \/ Return(r, "Application")
        \/ Goto(r, "Beginning") \/ Goto(r, "Skipping") \/ Goto(r, "Stopping")
    BY <1>6 DEF ApplyFails, Decisions
  <2>. QED  BY <1>0, <1>6, <2>1 DEF ApplyFails, Return, Goto
<1>7. CASE Commit(r)
  <2>1. session[r] /\ staged[r] \in {"effect", "skip", "reset"}
    BY <1>0, <1>7 DEF Commit, Fenced
  <2>2. outcome' = outcome
    <3>1. CASE staged[r] = "effect"  BY <1>7, <3>1 DEF Commit, Goto
    <3>2. CASE staged[r] = "skip"  BY <1>7, <3>2 DEF Commit, NextEnvelope, Goto
    <3>3. CASE staged[r] = "reset"  BY <1>7, <3>3 DEF Commit, Goto
    <3>. QED  BY <2>1, <3>1, <3>2, <3>3
  <2>. QED  BY <1>7, <2>1, <2>2 DEF Commit
<1>8. CASE CommitIndeterminate(r)
  <2>1. session[r] => staged[r] # "nothing"
    BY <1>8 DEF CommitIndeterminate, Fenced
  <2>. QED  BY <1>0, <1>8, <2>1 DEF CommitIndeterminate, Return
<1>. QED
  BY <1>1, <1>2, <1>3, <1>4, <1>5, <1>6, <1>7, <1>8 DEF Run, Disturb

(***************************************************************************)
(* Every step keeps the invariant.  A call that is not stepping and still  *)
(* has its session holds the lock, so the stepping call has none and       *)
(* cannot change the destination behind its back.                          *)
(***************************************************************************)
LEMMA CallKeepsInv ==
  ASSUME Inv, NEW r \in Runners, Run(r) \/ Disturb(r)
  PROVE  Inv'
<1>1. TypeAndFence /\ TypeAndFence'
  BY RunKeepsFence, DisturbKeepsFence DEF Inv
<1>2. \A q \in Runners : Cursor(q)'
  BY OwnKnowledge, OthersKeepKnowledge
<1>3. ASSUME NEW q \in Runners \ {r}, session'[q] PROVE Knows(q)'
  <2>1. session[q]
    BY <1>1, <1>3, OthersIdle DEF Idle
  <2>2. ~session[r]
    BY <1>1, <2>1 DEF TypeAndFence, Fenced
  <2>. QED  BY <2>1, <2>2, OthersKeepKnowledge
<1>4. \A q \in Runners : session'[q] => Knows(q)'
  BY <1>3, OwnKnowledge
<1>5. Delivered'
  <2>1. CASE UNCHANGED destination
    BY <2>1 DEF Inv, Delivered, ExactlyOnce, destination
  <2>2. CASE session[r] /\ staged[r] # "nothing" /\ TakesEffect(r)
    BY <2>2, EffectDelivers
  <2>. QED  BY <1>1, <2>1, <2>2, StepShape
<1>. QED  BY <1>1, <1>2, <1>4, <1>5 DEF Inv

(***************************************************************************)
(* New events in the source take nothing away from what the calls know.    *)
(***************************************************************************)
LEMMA PublishKeepsInv ==
  ASSUME Inv, Publish
  PROVE  Inv'
<1>1. TypeAndFence'
  BY DEF Inv, Publish, TypeAndFence, TypeOK, Fenced, lock, destination, config, cursor
<1>2. frontier \in Nat /\ frontier' \in Nat /\ frontier < frontier' /\ through \in [Runners -> Nat]
  BY DEF Inv, Publish, TypeAndFence, TypeOK
<1>3. UNCHANGED << lock, destination, phase, cursor, staged >>
  BY DEF Publish
<1>4. ASSUME NEW r \in Runners PROVE Cursor(r)'
  <2>1. Cursor(r) /\ through[r] <= frontier /\ through[r] \in Nat
    BY <1>2 DEF Inv, Cursor
  <2>2. through'[r] <= frontier'
    BY <1>2, <1>3, <2>1 DEF cursor
  <2>. QED  BY <1>3, <2>1, <2>2 DEF Cursor, Fresh, cursor
<1>5. ASSUME NEW r \in Runners, session'[r] PROVE Knows(r)'
  BY <1>3, <1>5 DEF Inv, Knows, BetweenEvents, InFlight, Due, lock, cursor, destination
<1>6. Delivered'
  BY <1>3 DEF Inv, Delivered, ExactlyOnce, destination
<1>. QED  BY <1>1, <1>4, <1>5, <1>6 DEF Inv

(***************************************************************************)
(* The invariant holds at the start.                                       *)
(***************************************************************************)
LEMMA InitInv == Init => Inv
<1>. SUFFICES ASSUME Init PROVE Inv
  OBVIOUS
<1>1. TypeAndFence
  BY DEF Init, TypeAndFence, TypeOK, Fenced, Phases, Outcomes
<1>2. \A r \in Runners : Cursor(r) /\ Knows(r)
  BY DEF Init, Cursor, Fresh, Knows, BetweenEvents, InFlight
<1>3. Delivered
  <2>1. readModel = << >> /\ progress = 0 /\ skipped = {}
    BY DEF Init
  <2>2. ToSet(<< >>) = {}
    BY DEF ToSet
  <2>3. {p \in Selected : p <= 0} = {}
    BY SelectedPositive
  <2>. QED  BY <2>1, <2>2, <2>3 DEF Delivered, ExactlyOnce
<1>. QED  BY <1>1, <1>2, <1>3 DEF Inv

(***************************************************************************)
(* The invariant is inductive.                                             *)
(***************************************************************************)
LEMMA InvInductive == Inv /\ [Next]_vars => Inv'
<1>. SUFFICES ASSUME Inv, [Next]_vars PROVE Inv'
  OBVIOUS
<1>1. CASE UNCHANGED vars
  BY <1>1 DEF vars, Inv, TypeAndFence, TypeOK, Fenced, Cursor, Fresh, Knows, BetweenEvents, InFlight,
              Due, Delivered, ExactlyOnce, lock, destination, config, cursor
<1>. QED  BY <1>1, CallKeepsInv, PublishKeepsInv DEF Next, AllReturned

(***************************************************************************)
(* The invariant always holds.                                             *)
(***************************************************************************)
LEMMA Invariance == Spec => []Inv
  BY InitInv, InvInductive, PTL DEF Spec

(***************************************************************************)
(* The read model always holds the effects of exactly the selected events  *)
(* up to the committed progress that were not skipped, each once and in    *)
(* order, for any number of concurrent calls, crashes, lost sessions and   *)
(* indeterminate commits.                                                  *)
(***************************************************************************)
THEOREM EffectsAreExact == Spec => []ExactlyOnce
<1>1. Inv => ExactlyOnce
  BY DEF Inv, Delivered
<1>. QED  BY <1>1, Invariance, PTL

(***************************************************************************)
(* The step property behind ReportsAreTrue.                                *)
(***************************************************************************)
Reports ==
  \A r \in Runners :
    /\ outcome[r] = "none" /\ outcome'[r] = "CaughtUp" =>
         \A p \in Selected : p <= through[r] => p <= progress
    /\ outcome[r] = "none" /\ outcome'[r] \in Troubles =>
         /\ progress < position[r]
         /\ \A p \in Selected : p <= progress \/ position[r] <= p

(***************************************************************************)
(* A step that reports, reports the truth.                                 *)
(***************************************************************************)
LEMMA StepReports == Inv /\ [Next]_vars => Reports
<1>. SUFFICES ASSUME Inv, [Next]_vars, NEW r \in Runners, outcome[r] = "none",
                     outcome'[r] \in Troubles \cup {"CaughtUp"}
              PROVE  /\ outcome'[r] = "CaughtUp" =>
                          \A p \in Selected : p <= through[r] => p <= progress
                     /\ outcome'[r] \in Troubles =>
                          /\ progress < position[r]
                          /\ \A p \in Selected : p <= progress \/ position[r] <= p
  BY DEF Reports
<1>0. outcome'[r] # outcome[r]
  BY DEF Troubles
<1>1. PICK q \in Runners : Run(q) \/ Disturb(q)
  BY <1>0 DEF Next, Publish, AllReturned, vars
<1>2. TypeAndFence
  BY DEF Inv
<1>3. q = r
  BY <1>0, <1>1, <1>2, StepShape
<1>4. /\ outcome'[r] = "CaughtUp" => session[r] /\ phase[r] = "CaughtUp"
      /\ outcome'[r] \in Troubles => session[r] /\ phase[r] \in {"Applying", "Stopping"}
  BY <1>0, <1>1, <1>2, <1>3, StepShape
<1>5. ASSUME outcome'[r] = "CaughtUp", NEW p \in Selected, p <= through[r] PROVE p <= progress
  BY <1>4, <1>5 DEF Inv, Knows, BetweenEvents
<1>6. ASSUME outcome'[r] \in Troubles
      PROVE  progress < position[r] /\ \A p \in Selected : p <= progress \/ position[r] <= p
  BY <1>4, <1>6 DEF Inv, Knows, InFlight, Due
<1>. QED  BY <1>5, <1>6

(***************************************************************************)
(* A call that reports that it caught up has committed every selected      *)
(* event up to its high-water mark; one that stops, cannot decode, gives   *)
(* up or fails does so at the next event due.                              *)
(***************************************************************************)
THEOREM ReportsHold == Spec => ReportsAreTrue
<1>1. Inv /\ [Next]_vars => [Reports]_vars
  BY StepReports
<1>2. [][Reports]_vars => ReportsAreTrue
  BY PTL DEF Reports, Troubles, ReportsAreTrue
<1>. QED  BY <1>1, <1>2, Invariance, PTL DEF Spec

(***************************************************************************)
(* A commit that takes effect is a step of ExactlyOnceDelivery.            *)
(***************************************************************************)
LEMMA EffectIsDelivery ==
  ASSUME Inv, NEW r \in Runners, session[r], staged[r] # "nothing", TakesEffect(r),
         frontier' = frontier
  PROVE  Delivery!Next
<1>1. staged[r] \in {"reset", "effect", "skip"} /\ position[r] \in Nat /\ through[r] \in Nat
      /\ frontier \in Nat
  BY DEF Inv, TypeAndFence, TypeOK
<1>2. ASSUME staged[r] \in {"effect", "skip"}
      PROVE  position[r] \in 1..frontier /\ Delivery!Due(position[r])
  <2>1. position[r] <= through[r] /\ through[r] <= frontier /\ Due(position[r])
    BY <1>2 DEF Inv, Knows, InFlight, Cursor
  <2>2. position[r] \in Selected
    BY <2>1 DEF Due
  <2>3. position[r] <= frontier /\ position[r] \in 1..frontier
    BY <1>1, <2>1, <2>2, SelectedPositive
  <2>. QED  BY <2>1, <2>3 DEF Due, Delivery!Due
<1>3. CASE staged[r] = "reset"
  BY <1>3 DEF TakesEffect, Delivery!Reset, Delivery!Next
<1>4. CASE staged[r] = "effect"
  <2>1. Delivery!Deliver
    BY <1>2, <1>4 DEF TakesEffect, Delivery!Deliver
  <2>. QED  BY <2>1 DEF Delivery!Next
<1>5. CASE staged[r] = "skip"
  <2>1. Delivery!Skip
    BY <1>2, <1>5 DEF TakesEffect, Delivery!Skip
  <2>. QED  BY <2>1 DEF Delivery!Next
<1>. QED  BY <1>1, <1>3, <1>4, <1>5

(***************************************************************************)
(* The facility implements ExactlyOnceDelivery: a commit that takes effect *)
(* delivers or skips the next event due, or resets; everything else is     *)
(* invisible.                                                              *)
(***************************************************************************)
THEOREM ImplementsExactlyOnce == Spec => DeliversExactlyOnce
<1>1. Init => Delivery!Init
  BY DEF Init, Delivery!Init
<1>2. Inv /\ [Next]_vars => [Delivery!Next]_(Delivery!vars)
  <2>. SUFFICES ASSUME Inv, [Next]_vars PROVE [Delivery!Next]_(Delivery!vars)
    OBVIOUS
  <2>1. CASE UNCHANGED vars
    BY <2>1 DEF vars, destination, Delivery!vars
  <2>2. CASE Publish
    <3>1. Delivery!Publish
      BY <2>2 DEF Publish, Delivery!Publish, destination
    <3>. QED  BY <3>1 DEF Delivery!Next
  <2>3. ASSUME NEW r \in Runners, Run(r) \/ Disturb(r) PROVE [Delivery!Next]_(Delivery!vars)
    <3>1. /\ frontier' = frontier
          /\ \/ UNCHANGED destination
             \/ session[r] /\ staged[r] # "nothing" /\ TakesEffect(r)
      BY <2>3, StepShape DEF Inv
    <3>2. CASE UNCHANGED destination
      BY <3>1, <3>2 DEF destination, Delivery!vars
    <3>. QED  BY <3>1, <3>2, EffectIsDelivery
  <2>. QED  BY <2>1, <2>2, <2>3 DEF Next, AllReturned
<1>. QED  BY <1>1, <1>2, Invariance, PTL DEF Spec, DeliversExactlyOnce, Delivery!Spec
===============================================================================
