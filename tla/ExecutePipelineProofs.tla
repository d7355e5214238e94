------------------------- MODULE ExecutePipelineProofs -------------------------
(***************************************************************************)
(* Theorems about ExecutePipeline, for any number of commands and streams, *)
(* any declarations, resolvers, handlers and retry policy.                 *)
(***************************************************************************)
EXTENDS ExecutePipeline, FiniteSetTheorems, TLAPS

(***************************************************************************)
(* The events a command appends to a stream are a sequence of events.      *)
(***************************************************************************)
LEMMA BatchType ==
  ASSUME NEW c \in Commands, NEW n \in Nat
  PROVE  Batch(c, n) \in Seq(Event)
  BY DEF Batch, Event

(***************************************************************************)
(* Elements and tails of a sequence.                                       *)
(***************************************************************************)
LEMMA ElementAndRest ==
  ASSUME NEW S, NEW q \in Seq(S), NEW k \in 1..Len(q)
  PROVE  q[k] \in S /\ SubSeq(q, k + 1, Len(q)) \in Seq(S)
  OBVIOUS

(***************************************************************************)
(* What the resolver adds to the queue is a list of streams.               *)
(***************************************************************************)
LEMMA NewlyScheduledType ==
  ASSUME NEW related \in Seq(Streams), NEW known, NEW fresh \in NewlyScheduled(related, known)
  PROVE  fresh \in Seq(Streams) /\ ToSet(fresh) \subseteq Streams
<1>1. ToSet(related) \subseteq Streams
  BY DEF ToSet
<1>2. PICK n \in 0..Len(related) : fresh \in [1..n -> ToSet(related)]
  BY DEF NewlyScheduled
<1>3. fresh \in Seq(Streams)
  BY <1>1, <1>2
<1>. QED  BY <1>3 DEF ToSet

(***************************************************************************)
(* The type invariant: every pipeline variable keeps its type; in          *)
(* particular no command is retried more than max_retries times.           *)
(***************************************************************************)
THEOREM TypeCorrect == Spec => []TypeOK
<1>1. Init => TypeOK
  BY MaxRetriesAssumption DEF Init, TypeOK, NoVersions, NoEvents, Phases, Outcomes, Event
<1>2. ASSUME TypeOK, [Next]_vars PROVE TypeOK'
  <2>. USE <1>2 DEF TypeOK
  <2>1. ASSUME NEW c \in Commands, Start(c) PROVE TypeOK'
    <3>1. ToSet(Declared[c]) \subseteq Streams
      BY DeclaredAssumption DEF ToSet
    <3>2. scheduled' \in [Commands -> SUBSET Streams]
      BY <2>1, <3>1 DEF Start
    <3>3. queue' \in [Commands -> Seq(Streams)]
      BY <2>1, DeclaredAssumption DEF Start
    <3>4. /\ visited' \in [Commands -> SUBSET Streams]
          /\ read' \in [Commands -> SUBSET Streams]
      BY <2>1 DEF Start
    <3>5. /\ expected' \in [Commands -> [Streams -> Nat]]
          /\ folded' \in [Commands -> [Streams -> Seq(Event)]]
      BY <2>1 DEF Start, NoVersions, NoEvents
    <3>6. phase' \in [Commands -> Phases]
      BY <2>1 DEF Start, Phases
    <3>. QED  BY <2>1, <3>2, <3>3, <3>4, <3>5, <3>6 DEF Start, reading
  <2>2. ASSUME NEW c \in Commands, OpenStream(c) PROVE TypeOK'
    <3>1. PICK k \in 1..Len(queue[c]) :
            /\ queue' = [queue EXCEPT ![c] = SubSeq(@, k + 1, Len(@))]
            /\ visited' = [visited EXCEPT ![c] = @ \cup {queue[c][k]}]
            /\ current' = [current EXCEPT ![c] = queue[c][k]]
            /\ opened' = [opened EXCEPT ![c] = ReadStream(queue[c][k])]
      BY <2>2 DEF OpenStream
    <3>2. queue[c][k] \in Streams /\ SubSeq(queue[c], k + 1, Len(queue[c])) \in Seq(Streams)
      BY ElementAndRest
    <3>3. queue' \in [Commands -> Seq(Streams)]
      BY <3>1, <3>2
    <3>4. /\ visited' \in [Commands -> SUBSET Streams]
          /\ current' \in [Commands -> Streams \cup {None}]
          /\ opened' \in [Commands -> Seq(Event)]
      BY <3>1, <3>2 DEF ReadStream
    <3>5. \A d \in Commands : phase'[d] = "AwaitingStreamRead" => current'[d] # None
      BY <2>2, <3>1, <3>2, NoneAssumption DEF OpenStream
    <3>. QED  BY <2>2, <3>3, <3>4, <3>5 DEF OpenStream, Phases
  <2>3. ASSUME NEW c \in Commands, ApplyEvent(c) PROVE TypeOK'
    <3>. /\ opened[c] \in Seq(Event) /\ eventCount[c] \in Nat
         /\ current[c] \in Streams /\ folded[c][current[c]] \in Seq(Event)
      BY <2>3 DEF ApplyEvent
    <3>1. opened[c][eventCount[c] + 1] \in Event
      BY <2>3 DEF ApplyEvent
    <3>2. Append(folded[c][current[c]], opened[c][eventCount[c] + 1]) \in Seq(Event)
      BY <3>1
    <3>3. folded' \in [Commands -> [Streams -> Seq(Event)]]
      BY <2>3, <3>2 DEF ApplyEvent
    <3>4. eventCount' \in [Commands -> Nat]
      BY <2>3 DEF ApplyEvent
    <3>. QED  BY <2>3, <3>3, <3>4 DEF ApplyEvent
  <2>4. ASSUME NEW c \in Commands, EndStream(c) PROVE TypeOK'
    <3>0. PICK related \in Resolver[c] : \E fresh \in NewlyScheduled(related, scheduled[c]) :
            /\ queue' = [queue EXCEPT ![c] = @ \o fresh]
            /\ scheduled' = [scheduled EXCEPT ![c] = @ \cup ToSet(fresh)]
      BY <2>4 DEF EndStream
    <3>1. PICK fresh \in NewlyScheduled(related, scheduled[c]) :
            /\ queue' = [queue EXCEPT ![c] = @ \o fresh]
            /\ scheduled' = [scheduled EXCEPT ![c] = @ \cup ToSet(fresh)]
      BY <3>0
    <3>2. fresh \in Seq(Streams) /\ ToSet(fresh) \subseteq Streams
      BY NewlyScheduledType, ResolverAssumption
    <3>3. queue' \in [Commands -> Seq(Streams)] /\ scheduled' \in [Commands -> SUBSET Streams]
      BY <3>1, <3>2
    <3>4. expected' \in [Commands -> [Streams -> Nat]] /\ read' \in [Commands -> SUBSET Streams]
      BY <2>4 DEF EndStream, VersionAfter
    <3>5. /\ current' \in [Commands -> Streams \cup {None}]
          /\ opened' \in [Commands -> Seq(Event)]
          /\ eventCount' \in [Commands -> Nat]
          /\ phase' \in [Commands -> Phases]
      BY <2>4 DEF EndStream, Phases
    <3>. QED  BY <2>4, <3>3, <3>4, <3>5 DEF EndStream
  <2>5. ASSUME NEW c \in Commands, ReadFails(c) PROVE TypeOK'
    BY <2>5 DEF ReadFails, Finish, pipeline, reading, Phases, Outcomes
  <2>6. ASSUME NEW c \in Commands, Handle(c) PROVE TypeOK'
    <3>1. writes' \in [Commands -> [Streams -> Nat]]
      <4>1. \A batch \in Emits[c] : batch \in [Streams -> Nat]
        BY EmitsAssumption
      <4>2. UNCHANGED writes \/ \E batch \in Emits[c] : writes' = [writes EXCEPT ![c] = batch]
        BY <2>6 DEF Handle
      <4>3. CASE UNCHANGED writes
        BY <4>3
      <4>4. ASSUME NEW batch \in Emits[c], writes' = [writes EXCEPT ![c] = batch]
            PROVE  writes' \in [Commands -> [Streams -> Nat]]
        BY <4>1, <4>4
      <4>. QED  BY <4>2, <4>3, <4>4
    <3>2. phase' \in [Commands -> Phases] /\ outcome' \in [Commands -> Outcomes]
      BY <2>6 DEF Handle, Finish, Phases, Outcomes
    <3>3. \A d \in Commands : phase'[d] = "AwaitingStreamRead" => current'[d] # None
      BY <2>6 DEF Handle, Finish, reading
    <3>. QED  BY <2>6, <3>1, <3>2, <3>3 DEF Handle, pipeline, reading
  <2>7. ASSUME NEW c \in Commands, HandlerRejects(c) PROVE TypeOK'
    BY <2>7 DEF HandlerRejects, Finish, pipeline, reading, Phases, Outcomes
  <2>8. ASSUME NEW c \in Commands, Land(c)
        PROVE  streams' \in [Streams -> Seq(Event)] /\ landed' \in [Commands -> Nat]
    <3>1. \A s \in Streams : streams[s] \o Batch(c, writes[c][s]) \in Seq(Event)
      BY BatchType
    <3>. QED  BY <2>8, <3>1 DEF Land
  <2>9. ASSUME NEW c \in Commands, AppendSucceeds(c) PROVE TypeOK'
    BY <2>8, <2>9 DEF AppendSucceeds, Finish, pipeline, reading, Phases, Outcomes
  <2>10. ASSUME NEW c \in Commands, AppendConflicts(c) PROVE TypeOK'
    <3>1. attempt' \in [Commands -> 0..MaxRetries]
      <4>1. \/ UNCHANGED attempt
            \/ attempt[c] < MaxRetries /\ attempt' = [attempt EXCEPT ![c] = attempt[c] + 1]
        BY <2>10 DEF AppendConflicts, MayRetry
      <4>2. attempt[c] < MaxRetries => attempt[c] + 1 \in 0..MaxRetries
        BY MaxRetriesAssumption
      <4>. QED  BY <4>1, <4>2
    <3>2. phase' \in [Commands -> Phases] /\ outcome' \in [Commands -> Outcomes]
      BY <2>10 DEF AppendConflicts, Finish, Phases, Outcomes
    <3>3. \A d \in Commands : phase'[d] = "AwaitingStreamRead" => current'[d] # None
      BY <2>10 DEF AppendConflicts, Finish, reading
    <3>. QED  BY <2>10, <3>1, <3>2, <3>3 DEF AppendConflicts, reading
  <2>11. ASSUME NEW c \in Commands, AppendFails(c) PROVE TypeOK'
    BY <2>8, <2>11 DEF AppendFails, Finish, pipeline, reading, Phases, Outcomes
  <2>12. ASSUME NEW c \in Commands, Wake(c) PROVE TypeOK'
    BY <2>12 DEF Wake, pipeline, reading, Phases
  <2>13. CASE UNCHANGED vars
    BY <2>13 DEF vars, pipeline, reading
  <2>. QED
    BY <1>2, <2>1, <2>2, <2>3, <2>4, <2>5, <2>6, <2>7, <2>9, <2>10, <2>11, <2>12, <2>13
       DEF Next, Step, AllReturned
<1>. QED  BY <1>1, <1>2, PTL DEF Spec

-------------------------------------------------------------------------------
(***************************************************************************)
(* What a pipeline knows of the store.  Of every stream it has read it     *)
(* holds a prefix, and the version it expects is that prefix's length; of  *)
(* the stream being read, the folded events are a prefix of what was       *)
(* opened, and that is a prefix of the stream; of other streams it holds   *)
(* nothing.                                                                *)
(***************************************************************************)
HoldsPrefixes(c) ==
  phase[c] \in {"ReadingStreams", "AwaitingStreamRead", "AwaitingAppend"} =>
    /\ \A s \in read[c] : /\ IsPrefix(folded[c][s], streams[s])
                          /\ expected[c][s] = Len(folded[c][s])
    /\ \A s \in Streams \ visited[c] : folded[c][s] = << >>

HoldsCurrent(c) ==
  phase[c] = "AwaitingStreamRead" =>
    /\ current[c] \notin read[c]
    /\ visited[c] = read[c] \cup {current[c]}
    /\ IsPrefix(opened[c], streams[current[c]])
    /\ eventCount[c] <= Len(opened[c])
    /\ folded[c][current[c]] = SubSeq(opened[c], 1, eventCount[c])

(***************************************************************************)
(* Between reads nothing is half read, a batch writes only to streams that *)
(* were read, and a command's batch is in the store only once it is done.  *)
(***************************************************************************)
Settled(c) ==
  /\ phase[c] \in {"ReadingStreams", "AwaitingAppend"} => visited[c] = read[c]
  /\ phase[c] = "AwaitingAppend" => /\ \A s \in Streams \ read[c] : writes[c][s] = 0
                                    /\ writes[c] \in Emits[c]
  /\ phase[c] # "Done" => landed[c] = 0
  /\ (phase[c] = "Done") <=> (outcome[c] # "none")

ReadInv(c) == HoldsPrefixes(c) /\ HoldsCurrent(c) /\ Settled(c)

(***************************************************************************)
(* The inductive invariant.                                                *)
(***************************************************************************)
Inv == TypeOK /\ \A c \in Commands : ReadInv(c)

-------------------------------------------------------------------------------
(***************************************************************************)
(* Prefixes of sequences.                                                  *)
(***************************************************************************)
LEMMA PrefixReflexive ==
  ASSUME NEW S, NEW q \in Seq(S) PROVE IsPrefix(q, q)
  BY DEF IsPrefix

(***************************************************************************)
(* A prefix of a prefix is a prefix.                                       *)
(***************************************************************************)
LEMMA PrefixTransitive ==
  ASSUME NEW S, NEW p \in Seq(S), NEW q \in Seq(S), NEW r \in Seq(S),
         IsPrefix(p, q), IsPrefix(q, r)
  PROVE  IsPrefix(p, r)
  BY DEF IsPrefix

(***************************************************************************)
(* Appending a batch keeps what was stored before as a prefix.             *)
(***************************************************************************)
LEMMA PrefixOfConcat ==
  ASSUME NEW S, NEW p \in Seq(S), NEW q \in Seq(S) PROVE IsPrefix(p, p \o q)
  BY DEF IsPrefix

(***************************************************************************)
(* A prefix as long as the whole is the whole: what a matching version     *)
(* means.                                                                  *)
(***************************************************************************)
LEMMA FullPrefix ==
  ASSUME NEW S, NEW p \in Seq(S), NEW q \in Seq(S), IsPrefix(p, q), Len(p) = Len(q)
  PROVE  p = q
  BY DEF IsPrefix

(***************************************************************************)
(* Folding one more event extends the folded prefix by one.                *)
(***************************************************************************)
LEMMA FoldOneMore ==
  ASSUME NEW S, NEW q \in Seq(S), NEW n \in Nat, n < Len(q)
  PROVE  Append(SubSeq(q, 1, n), q[n + 1]) = SubSeq(q, 1, n + 1)
  OBVIOUS

(***************************************************************************)
(* Folding all events folds the stream, folding none folds nothing.        *)
(***************************************************************************)
LEMMA FoldAll ==
  ASSUME NEW S, NEW q \in Seq(S)
  PROVE  SubSeq(q, 1, Len(q)) = q /\ SubSeq(q, 1, 0) = << >>
  OBVIOUS

(***************************************************************************)
(* Streams only grow: no step removes or changes a stored event.           *)
(***************************************************************************)
LEMMA StreamsGrow ==
  ASSUME TypeOK, [Next]_vars, NEW s \in Streams
  PROVE  IsPrefix(streams[s], streams'[s])
<1>1. streams[s] \in Seq(Event)
  BY DEF TypeOK
<1>2. CASE UNCHANGED streams
  BY <1>1, <1>2, PrefixReflexive
<1>3. ASSUME NEW c \in Commands, Land(c) PROVE IsPrefix(streams[s], streams'[s])
  <2>1. writes[c][s] \in Nat
    BY DEF TypeOK
  <2>2. streams'[s] = streams[s] \o Batch(c, writes[c][s])
    BY <1>3 DEF Land
  <2>. QED  BY <1>1, <2>1, <2>2, BatchType, PrefixOfConcat
<1>4. UNCHANGED streams \/ \E c \in Commands : Land(c)
  BY DEF Next, Step, AllReturned, vars, Start, OpenStream, ApplyEvent, EndStream, ReadFails,
         Handle, HandlerRejects, AppendSucceeds, AppendConflicts, AppendFails, Wake
<1>. QED  BY <1>2, <1>3, <1>4

(***************************************************************************)
(* Steps of others leave a pipeline's knowledge true.                      *)
(***************************************************************************)
Idle(c) ==
  /\ phase'[c] = phase[c] /\ read'[c] = read[c] /\ visited'[c] = visited[c]
  /\ folded'[c] = folded[c] /\ expected'[c] = expected[c] /\ current'[c] = current[c]
  /\ opened'[c] = opened[c] /\ eventCount'[c] = eventCount[c] /\ writes'[c] = writes[c]
  /\ landed'[c] = landed[c] /\ outcome'[c] = outcome[c]
  /\ queue'[c] = queue[c] /\ scheduled'[c] = scheduled[c]

(***************************************************************************)
(* A step of one command leaves the variables of the others alone.         *)
(***************************************************************************)
LEMMA OthersIdle ==
  ASSUME TypeOK, NEW c \in Commands, Step(c), NEW d \in Commands, d # c
  PROVE  Idle(d)
<1>. USE DEF Idle, TypeOK
<1>1. CASE Start(c)
  BY <1>1 DEF Start, reading
<1>2. CASE OpenStream(c)
  BY <1>2 DEF OpenStream
<1>3. CASE ApplyEvent(c)
  BY <1>3 DEF ApplyEvent
<1>4. CASE EndStream(c)
  BY <1>4 DEF EndStream
<1>5. CASE ReadFails(c)
  BY <1>5 DEF ReadFails, Finish, pipeline, reading
<1>6. CASE Handle(c)
  BY <1>6 DEF Handle, Finish, pipeline, reading
<1>7. CASE HandlerRejects(c)
  BY <1>7 DEF HandlerRejects, Finish, pipeline, reading
<1>8. CASE AppendSucceeds(c)
  BY <1>8 DEF AppendSucceeds, Land, Finish, pipeline, reading
<1>9. CASE AppendConflicts(c)
  BY <1>9 DEF AppendConflicts, Finish, reading
<1>10. CASE AppendFails(c)
  BY <1>10 DEF AppendFails, Land, Finish, pipeline, reading
<1>11. CASE Wake(c)
  BY <1>11 DEF Wake, pipeline, reading
<1>. QED
  BY <1>1, <1>2, <1>3, <1>4, <1>5, <1>6, <1>7, <1>8, <1>9, <1>10, <1>11 DEF Step

(***************************************************************************)
(* What a command knows survives the growth of the streams.                *)
(***************************************************************************)
LEMMA OthersKeepKnowledge ==
  ASSUME TypeOK, TypeOK', NEW c \in Commands, ReadInv(c), Idle(c),
         \A s \in Streams : IsPrefix(streams[s], streams'[s])
  PROVE  ReadInv(c)'
<1>0. \A s \in Streams : /\ streams[s] \in Seq(Event) /\ streams'[s] \in Seq(Event)
                         /\ folded[c][s] \in Seq(Event)
  BY DEF TypeOK
<1>1. HoldsPrefixes(c)'
  <2>1. SUFFICES ASSUME phase'[c] \in {"ReadingStreams", "AwaitingStreamRead", "AwaitingAppend"},
                        NEW s \in read'[c]
                 PROVE  IsPrefix(folded'[c][s], streams'[s])
    BY DEF HoldsPrefixes, ReadInv, Idle
  <2>2. s \in Streams /\ IsPrefix(folded[c][s], streams[s])
    BY <2>1 DEF HoldsPrefixes, ReadInv, Idle, TypeOK
  <2>. QED  BY <1>0, <2>2, PrefixTransitive DEF Idle
<1>2. HoldsCurrent(c)'
  <2>1. SUFFICES ASSUME phase'[c] = "AwaitingStreamRead"
                 PROVE  IsPrefix(opened'[c], streams'[current'[c]])
    BY DEF HoldsCurrent, ReadInv, Idle
  <2>2. current[c] \in Streams /\ opened[c] \in Seq(Event)
    BY <2>1 DEF TypeOK, Idle
  <2>3. IsPrefix(opened[c], streams[current[c]])
    BY <2>1 DEF HoldsCurrent, ReadInv, Idle
  <2>. QED  BY <1>0, <2>2, <2>3, PrefixTransitive DEF Idle
<1>3. Settled(c)'
  BY DEF Settled, ReadInv, Idle
<1>. QED  BY <1>1, <1>2, <1>3 DEF ReadInv

(***************************************************************************)
(* Each step of a pipeline keeps its own knowledge true.                   *)
(***************************************************************************)
LEMMA OpenKeepsKnowledge ==
  ASSUME TypeOK, TypeOK', NEW c \in Commands, ReadInv(c), OpenStream(c)
  PROVE  ReadInv(c)'
<1>1. PICK k \in 1..Len(queue[c]) :
        /\ queue[c][k] \notin visited[c]
        /\ visited' = [visited EXCEPT ![c] = @ \cup {queue[c][k]}]
        /\ current' = [current EXCEPT ![c] = queue[c][k]]
        /\ opened' = [opened EXCEPT ![c] = ReadStream(queue[c][k])]
  BY DEF OpenStream
<1>2. queue[c][k] \in Streams
  <2>1. queue[c] \in Seq(Streams)
    BY DEF TypeOK
  <2>. QED  BY <2>1, ElementAndRest
<1>3. /\ visited'[c] = visited[c] \cup {queue[c][k]}
      /\ current'[c] = queue[c][k]
      /\ opened'[c] = streams[queue[c][k]]
      /\ eventCount'[c] = 0 /\ phase'[c] = "AwaitingStreamRead"
      /\ read' = read /\ folded' = folded /\ expected' = expected /\ streams' = streams
  <2>1. visited'[c] = visited[c] \cup {queue[c][k]}
    BY <1>1 DEF TypeOK
  <2>2. current'[c] = queue[c][k]
    BY <1>1 DEF TypeOK
  <2>3. opened'[c] = streams[queue[c][k]]
    BY <1>1 DEF TypeOK, ReadStream
  <2>4. eventCount'[c] = 0 /\ phase'[c] = "AwaitingStreamRead"
    BY DEF OpenStream, TypeOK
  <2>5. read' = read /\ folded' = folded /\ expected' = expected /\ streams' = streams
    BY DEF OpenStream
  <2>. QED  BY <2>1, <2>2, <2>3, <2>4, <2>5
<1>4. visited[c] = read[c]
  BY DEF OpenStream, ReadInv, Settled
<1>5. HoldsPrefixes(c)'
  BY <1>3 DEF HoldsPrefixes, ReadInv, OpenStream
<1>6. streams[queue[c][k]] \in Seq(Event) /\ folded[c][queue[c][k]] = << >>
  BY <1>1, <1>2 DEF TypeOK, HoldsPrefixes, ReadInv, OpenStream
<1>7. HoldsCurrent(c)'
  <2>1. current'[c] \notin read'[c] /\ visited'[c] = read'[c] \cup {current'[c]}
    BY <1>1, <1>3, <1>4
  <2>2. IsPrefix(opened'[c], streams'[current'[c]])
    BY <1>3, <1>6, PrefixReflexive
  <2>3. eventCount'[c] <= Len(opened'[c])
    BY <1>3, <1>6
  <2>4. folded'[c][current'[c]] = SubSeq(opened'[c], 1, eventCount'[c])
    <3>1. SubSeq(streams[queue[c][k]], 1, 0) = << >>
      BY <1>6, FoldAll
    <3>. QED  BY <1>3, <1>6, <3>1
  <2>. QED  BY <2>1, <2>2, <2>3, <2>4 DEF HoldsCurrent
<1>8. Settled(c)'
  BY <1>3 DEF Settled, ReadInv, OpenStream
<1>. QED  BY <1>5, <1>7, <1>8 DEF ReadInv

(***************************************************************************)
(* Applying the next event extends the folded prefix.                      *)
(***************************************************************************)
LEMMA ApplyKeepsKnowledge ==
  ASSUME TypeOK, TypeOK', NEW c \in Commands, ReadInv(c), ApplyEvent(c)
  PROVE  ReadInv(c)'
<1>1. /\ current[c] \in Streams /\ opened[c] \in Seq(Event) /\ eventCount[c] \in Nat
      /\ eventCount[c] < Len(opened[c])
  BY DEF ApplyEvent, TypeOK
<1>2. /\ current[c] \notin read[c] /\ visited[c] = read[c] \cup {current[c]}
      /\ IsPrefix(opened[c], streams[current[c]])
      /\ folded[c][current[c]] = SubSeq(opened[c], 1, eventCount[c])
  BY DEF ApplyEvent, ReadInv, HoldsCurrent
<1>3. /\ eventCount'[c] = eventCount[c] + 1
      /\ folded'[c][current[c]] = Append(folded[c][current[c]], opened[c][eventCount[c] + 1])
      /\ \A s \in Streams \ {current[c]} : folded'[c][s] = folded[c][s]
  BY <1>1 DEF ApplyEvent, TypeOK
<1>4. folded'[c][current[c]] = SubSeq(opened[c], 1, eventCount[c] + 1)
  BY <1>1, <1>2, <1>3, FoldOneMore
<1>5. /\ phase' = phase /\ read' = read /\ visited' = visited /\ expected' = expected
      /\ streams' = streams /\ current' = current /\ opened' = opened
      /\ writes' = writes /\ landed' = landed /\ outcome' = outcome
  BY DEF ApplyEvent
<1>6. read[c] \subseteq Streams
  BY DEF TypeOK
<1>7. HoldsPrefixes(c)'
  BY <1>2, <1>3, <1>5, <1>6 DEF HoldsPrefixes, ReadInv
<1>8. HoldsCurrent(c)'
  <2>1. eventCount'[c] <= Len(opened'[c])
    BY <1>1, <1>3, <1>5
  <2>2. folded'[c][current'[c]] = SubSeq(opened'[c], 1, eventCount'[c])
    BY <1>3, <1>4, <1>5
  <2>. QED  BY <1>2, <1>5, <2>1, <2>2 DEF HoldsCurrent
<1>9. Settled(c)'
  BY <1>5 DEF Settled, ReadInv
<1>. QED  BY <1>7, <1>8, <1>9 DEF ReadInv

(***************************************************************************)
(* At the end of a stream the counted version covers the snapshot read.    *)
(***************************************************************************)
LEMMA EndKeepsKnowledge ==
  ASSUME TypeOK, TypeOK', NEW c \in Commands, ReadInv(c), EndStream(c)
  PROVE  ReadInv(c)'
<1>1. /\ current[c] \in Streams /\ opened[c] \in Seq(Event)
      /\ eventCount[c] = Len(opened[c])
  BY DEF EndStream, StreamEnded, TypeOK
<1>2. /\ visited[c] = read[c] \cup {current[c]}
      /\ IsPrefix(opened[c], streams[current[c]])
      /\ folded[c][current[c]] = SubSeq(opened[c], 1, eventCount[c])
  BY DEF EndStream, ReadInv, HoldsCurrent
<1>3. folded[c][current[c]] = opened[c]
  BY <1>1, <1>2, FoldAll
<1>4. /\ read'[c] = read[c] \cup {current[c]}
      /\ expected'[c][current[c]] = eventCount[c]
      /\ \A s \in Streams \ {current[c]} : expected'[c][s] = expected[c][s]
      /\ phase'[c] = "ReadingStreams"
  BY <1>1 DEF EndStream, VersionAfter, TypeOK
<1>5. /\ visited' = visited /\ folded' = folded /\ streams' = streams
      /\ landed' = landed /\ outcome' = outcome
  BY DEF EndStream
<1>6. read[c] \subseteq Streams
  BY DEF TypeOK
<1>7. HoldsPrefixes(c)'
  BY <1>1, <1>2, <1>3, <1>4, <1>5, <1>6 DEF HoldsPrefixes, ReadInv, EndStream
<1>8. HoldsCurrent(c)' /\ Settled(c)'
  BY <1>2, <1>4, <1>5 DEF HoldsCurrent, Settled, ReadInv, EndStream
<1>. QED  BY <1>7, <1>8 DEF ReadInv

(***************************************************************************)
(* Building the batch changes nothing that was read.                       *)
(***************************************************************************)
LEMMA HandleKeepsKnowledge ==
  ASSUME TypeOK, TypeOK', NEW c \in Commands, ReadInv(c), Handle(c)
  PROVE  ReadInv(c)'
<1>1. PICK batch \in Emits[c] :
        IF \A s \in Streams \ read[c] : batch[s] = 0
        THEN /\ writes' = [writes EXCEPT ![c] = batch]
             /\ phase' = [phase EXCEPT ![c] = "AwaitingAppend"]
             /\ UNCHANGED outcome
        ELSE /\ Finish(c, "UndeclaredStream")
             /\ UNCHANGED writes
  BY DEF Handle
<1>2. /\ phase[c] = "ReadingStreams" /\ visited' = visited /\ read' = read
      /\ folded' = folded /\ expected' = expected /\ streams' = streams /\ landed' = landed
  BY DEF Handle, AllRead, pipeline
<1>3. CASE \A s \in Streams \ read[c] : batch[s] = 0
  <2>1. writes'[c] = batch /\ phase'[c] = "AwaitingAppend" /\ outcome'[c] = outcome[c]
    BY <1>1, <1>3 DEF TypeOK
  <2>2. HoldsPrefixes(c)'
    BY <1>2, <2>1 DEF HoldsPrefixes, ReadInv
  <2>3. HoldsCurrent(c)' /\ Settled(c)'
    BY <1>2, <1>3, <2>1 DEF HoldsCurrent, Settled, ReadInv
  <2>. QED  BY <2>2, <2>3 DEF ReadInv
<1>4. CASE ~ \A s \in Streams \ read[c] : batch[s] = 0
  <2>1. phase'[c] = "Done" /\ outcome'[c] = "UndeclaredStream"
    BY <1>1, <1>4 DEF Finish, TypeOK
  <2>. QED  BY <2>1 DEF ReadInv, HoldsPrefixes, HoldsCurrent, Settled
<1>. QED  BY <1>3, <1>4

(***************************************************************************)
(* The remaining steps begin an attempt with nothing read, or end one.     *)
(***************************************************************************)
LEMMA StartKeepsKnowledge ==
  ASSUME TypeOK, TypeOK', NEW c \in Commands, ReadInv(c), Start(c)
  PROVE  ReadInv(c)'
<1>1. /\ phase[c] = "Init" /\ phase'[c] = "ReadingStreams"
      /\ read'[c] = {} /\ visited'[c] = {} /\ folded'[c] = NoEvents
  BY DEF Start, TypeOK
<1>2. landed' = landed /\ outcome' = outcome
  BY DEF Start
<1>3. HoldsPrefixes(c)'
  BY <1>1 DEF HoldsPrefixes, NoEvents
<1>4. HoldsCurrent(c)' /\ Settled(c)'
  BY <1>1, <1>2 DEF HoldsCurrent, Settled, ReadInv
<1>. QED  BY <1>3, <1>4 DEF ReadInv

(***************************************************************************)
(* Ending an attempt, well or badly, forgets or keeps what was read.       *)
(***************************************************************************)
LEMMA EndingKeepsKnowledge ==
  ASSUME TypeOK, TypeOK', NEW c \in Commands, ReadInv(c),
         \/ ReadFails(c) \/ HandlerRejects(c) \/ AppendSucceeds(c) \/ AppendConflicts(c)
         \/ AppendFails(c) \/ Wake(c)
  PROVE  ReadInv(c)'
<1>1. ASSUME NEW answer, Finish(c, answer), answer # "none" PROVE ReadInv(c)'
  <2>1. phase'[c] = "Done" /\ outcome'[c] = answer
    BY <1>1 DEF Finish, TypeOK
  <2>. QED  BY <1>1, <2>1 DEF ReadInv, HoldsPrefixes, HoldsCurrent, Settled
<1>2. ASSUME phase[c] # "Done", phase'[c] \in {"AwaitingRetrySleep", "Init"},
             landed' = landed, outcome' = outcome
      PROVE  ReadInv(c)'
  BY <1>2 DEF ReadInv, HoldsPrefixes, HoldsCurrent, Settled
<1>3. CASE ReadFails(c) \/ HandlerRejects(c) \/ AppendSucceeds(c) \/ AppendFails(c)
  BY <1>1, <1>3 DEF ReadFails, HandlerRejects, AppendSucceeds, AppendFails
<1>4. CASE AppendConflicts(c)
  BY <1>1, <1>2, <1>4 DEF AppendConflicts, TypeOK
<1>5. CASE Wake(c)
  BY <1>2, <1>5 DEF Wake, TypeOK
<1>. QED  BY <1>3, <1>4, <1>5

(***************************************************************************)
(* The inductive invariant holds in every reachable state.                 *)
(***************************************************************************)
THEOREM Invariance == Spec => []Inv
<1>1. Init => Inv
  <2>. SUFFICES ASSUME Init PROVE Inv
    OBVIOUS
  <2>1. TypeOK
    BY MaxRetriesAssumption DEF Init, TypeOK, NoVersions, NoEvents, Phases, Outcomes, Event
  <2>2. ASSUME NEW c \in Commands PROVE ReadInv(c)
    BY <2>2 DEF Init, ReadInv, HoldsPrefixes, HoldsCurrent, Settled
  <2>. QED  BY <2>1, <2>2 DEF Inv
<1>2. ASSUME Inv, TypeOK', [Next]_vars PROVE Inv'
  <2>1. TypeOK
    BY <1>2 DEF Inv
  <2>2. \A s \in Streams : IsPrefix(streams[s], streams'[s])
    BY <1>2, <2>1, StreamsGrow
  <2>3. ASSUME NEW c \in Commands, Step(c), NEW d \in Commands PROVE ReadInv(d)'
    <3>1. CASE d # c
      <4>1. Idle(d)
        BY <2>1, <2>3, <3>1, OthersIdle
      <4>. QED  BY <1>2, <2>1, <2>2, <4>1, OthersKeepKnowledge DEF Inv
    <3>2. CASE d = c
      BY <1>2, <2>1, <2>3, <3>2, StartKeepsKnowledge, OpenKeepsKnowledge, ApplyKeepsKnowledge,
         EndKeepsKnowledge, HandleKeepsKnowledge, EndingKeepsKnowledge DEF Step, Inv
    <3>. QED  BY <3>1, <3>2
  <2>4. ASSUME UNCHANGED vars, NEW d \in Commands PROVE ReadInv(d)'
    <3>1. Idle(d)
      BY <2>4 DEF vars, pipeline, reading, Idle
    <3>. QED  BY <1>2, <2>1, <2>2, <3>1, OthersKeepKnowledge DEF Inv
  <2>. QED  BY <1>2, <2>3, <2>4 DEF Inv, Next, AllReturned
<1>. QED  BY <1>1, <1>2, TypeCorrect, PTL DEF Spec

-------------------------------------------------------------------------------
(***************************************************************************)
(* A command whose expected versions all match holds the streams it read   *)
(* as they are: a prefix of full length is the whole stream.               *)
(***************************************************************************)
LEMMA MatchingVersionsAreCurrent ==
  ASSUME Inv, NEW c \in Commands, phase[c] = "AwaitingAppend",
         \A s \in read[c] : CurrentVersion(s) = expected[c][s]
  PROVE  \A s \in read[c] : folded[c][s] = streams[s]
<1>. SUFFICES ASSUME NEW s \in read[c] PROVE folded[c][s] = streams[s]
  OBVIOUS
<1>1. s \in Streams /\ streams[s] \in Seq(Event) /\ folded[c][s] \in Seq(Event)
  BY DEF Inv, TypeOK
<1>2. IsPrefix(folded[c][s], streams[s]) /\ expected[c][s] = Len(folded[c][s])
  BY DEF Inv, ReadInv, HoldsPrefixes
<1>. QED  BY <1>1, <1>2, FullPrefix DEF CurrentVersion

(***************************************************************************)
(* Whenever a step makes events of c visible, c had folded the streams it  *)
(* read as they stood: the check in append_events suffices, whatever the   *)
(* caller is told about the outcome.                                       *)
(***************************************************************************)
THEOREM DecidesOnThePresent == Spec => LandedIsCurrent
<1>1. ASSUME Inv, [Next]_vars, NEW c \in Commands, landed'[c] # landed[c]
      PROVE  \A s \in read[c] : folded[c][s] = streams[s]
  <2>1. PICK d \in Commands : Step(d)
    BY <1>1 DEF Next, AllReturned, vars
  <2>2. d = c
    BY <1>1, <2>1, OthersIdle DEF Idle, Inv
  <2>3. AppendSucceeds(c) \/ AppendFails(c)
    BY <1>1, <2>1, <2>2 DEF Step, Start, OpenStream, ApplyEvent, EndStream, ReadFails, Handle,
         HandlerRejects, AppendConflicts, Wake
  <2>4. /\ phase[c] = "AwaitingAppend" /\ Land(c)
        /\ VersionsMatch(read[c], expected[c], writes[c])
    BY <1>1, <2>3 DEF AppendSucceeds, AppendFails
  <2>5. ~IsEmptyBatch(writes[c])
    BY <1>1, <2>4 DEF Land, Inv, TypeOK
  <2>. QED  BY <1>1, <2>4, <2>5, MatchingVersionsAreCurrent DEF VersionsMatch
<1>2. Inv /\ [Next]_vars =>
        [\A c \in Commands :
           landed'[c] # landed[c] => \A s \in read[c] : folded[c][s] = streams[s]]_vars
  BY <1>1
<1>. QED  BY <1>2, Invariance, PTL DEF Spec, LandedIsCurrent

(***************************************************************************)
(* With a store that checks the versions of empty batches too, a command   *)
(* that succeeds has decided on the present, whether it appends events or  *)
(* finds nothing to do.                                                    *)
(***************************************************************************)
THEOREM SuccessOnThePresent ==
  ASSUME ChecksEmptyAppends
  PROVE  Spec => SuccessIsCurrent
<1>1. ASSUME Inv, [Next]_vars, NEW c \in Commands, outcome[c] # "Success", outcome'[c] = "Success"
      PROVE  \A s \in read[c] : folded[c][s] = streams[s]
  <2>1. PICK d \in Commands : Step(d)
    BY <1>1 DEF Next, AllReturned, vars
  <2>2. d = c
    BY <1>1, <2>1, OthersIdle DEF Idle, Inv
  <2>3. ASSUME NEW answer, Finish(c, answer) PROVE answer = "Success"
    BY <1>1, <2>3 DEF Finish, Inv, TypeOK
  <2>4. AppendSucceeds(c)
    BY <1>1, <2>1, <2>2, <2>3 DEF Step, Start, OpenStream, ApplyEvent, EndStream, ReadFails,
         Handle, HandlerRejects, AppendConflicts, AppendFails, Wake
  <2>. QED  BY <1>1, <2>4, MatchingVersionsAreCurrent DEF AppendSucceeds, VersionsMatch
<1>2. Inv /\ [Next]_vars =>
        [\A c \in Commands :
           outcome[c] # "Success" /\ outcome'[c] = "Success" =>
             \A s \in read[c] : folded[c][s] = streams[s]]_vars
  BY <1>1
<1>. QED  BY <1>2, Invariance, PTL DEF Spec, SuccessIsCurrent

-------------------------------------------------------------------------------
(***************************************************************************)
(* Refinement of SerialCommands.  A step that neither writes nor returns   *)
(* is a stutter; a step that returns without writing is End; an accepted   *)
(* append is Run.                                                          *)
(***************************************************************************)
Statuses == [c \in Commands |-> StatusOf(c)]
Views == [c \in Commands |-> ViewOf(c)]

(***************************************************************************)
(* Views do not move while nothing lands: a command whose events are in    *)
(* the store is done and folds nothing any more.                           *)
(***************************************************************************)
LEMMA ViewsStay ==
  ASSUME Inv, NEW c \in Commands, Step(c), landed' = landed
  PROVE  Views' = Views
<1>1. ASSUME NEW d \in Commands PROVE ViewOf(d)' = ViewOf(d)
  <2>1. CASE d # c
    <3>1. folded'[d] = folded[d] /\ landed'[d] = landed[d]
      BY <2>1, OthersIdle DEF Inv, Idle
    <3>. QED  BY <3>1 DEF ViewOf
  <2>2. CASE d = c
    <3>1. phase[c] # "Done"
      BY DEF Step, Start, OpenStream, ApplyEvent, EndStream, ReadFails, Handle, HandlerRejects,
             AllRead, AppendSucceeds, AppendConflicts, AppendFails, Wake
    <3>2. landed[c] = 0
      BY <3>1 DEF Inv, ReadInv, Settled
    <3>. QED  BY <2>2, <3>2 DEF ViewOf
  <2>. QED  BY <2>1, <2>2
<1>. QED  BY <1>1 DEF Views

(***************************************************************************)
(* The abstract statuses change only with the outcomes.                    *)
(***************************************************************************)
LEMMA StatusesStay ==
  ASSUME outcome' = outcome
  PROVE  Statuses' = Statuses
  BY DEF Statuses, StatusOf

(***************************************************************************)
(* Returning changes the status of that command only.                      *)
(***************************************************************************)
LEMMA ReturnChangesStatus ==
  ASSUME Inv, NEW c \in Commands, NEW answer \in Outcomes \ {"none"}, phase[c] # "Done",
         outcome' = [outcome EXCEPT ![c] = answer]
  PROVE  /\ Statuses[c] = "running"
         /\ \E status \in {"succeeded", "failed"} : Statuses' = [Statuses EXCEPT ![c] = status]
<1>1. outcome[c] = "none"
  BY DEF Inv, ReadInv, Settled
<1>2. Statuses[c] = "running"
  BY <1>1 DEF Statuses, StatusOf
<1>3. outcome'[c] = answer /\ \A d \in Commands \ {c} : outcome'[d] = outcome[d]
  BY DEF Inv, TypeOK
<1>4. CASE answer = "Success"
  <2>1. \A d \in Commands : StatusOf(d)' = IF d = c THEN "succeeded" ELSE StatusOf(d)
    BY <1>3, <1>4 DEF StatusOf
  <2>2. Statuses' = [Statuses EXCEPT ![c] = "succeeded"]
    BY <2>1 DEF Statuses
  <2>. QED  BY <1>2, <2>2
<1>5. CASE answer # "Success"
  <2>1. \A d \in Commands : StatusOf(d)' = IF d = c THEN "failed" ELSE StatusOf(d)
    BY <1>3, <1>5 DEF StatusOf
  <2>2. Statuses' = [Statuses EXCEPT ![c] = "failed"]
    BY <2>1 DEF Statuses
  <2>. QED  BY <1>2, <2>2
<1>. QED  BY <1>4, <1>5

(***************************************************************************)
(* A batch without events leaves the store as it is.                       *)
(***************************************************************************)
LEMMA EmptyLandStays ==
  ASSUME TypeOK, NEW c \in Commands, Land(c), IsEmptyBatch(writes[c])
  PROVE  streams' = streams /\ landed' = landed
<1>1. \A s \in Streams : streams[s] \o Batch(c, writes[c][s]) = streams[s]
  <2>. SUFFICES ASSUME NEW s \in Streams PROVE streams[s] \o Batch(c, writes[c][s]) = streams[s]
    OBVIOUS
  <2>1. writes[c][s] = 0 /\ streams[s] \in Seq(Event)
    BY DEF IsEmptyBatch, TypeOK
  <2>2. Batch(c, 0) = << >>
    BY DEF Batch
  <2>. QED  BY <2>1, <2>2
<1>2. streams' = streams
  BY <1>1 DEF Land, TypeOK
<1>3. landed' = landed
  BY DEF Land, TypeOK
<1>. QED  BY <1>2, <1>3

(***************************************************************************)
(* An accepted append that lands events shows the whole streams read.      *)
(***************************************************************************)
LEMMA LandShowsView ==
  ASSUME Inv, NEW c \in Commands, Step(c), phase[c] = "AwaitingAppend", Land(c),
         folded' = folded, VersionsMatch(read[c], expected[c], writes[c]),
         ~IsEmptyBatch(writes[c])
  PROVE  Views' = [Views EXCEPT ![c] =
                     [s \in Streams |-> IF s \in read[c] THEN streams[s] ELSE << >>]]
<1>1. \A s \in read[c] : folded[c][s] = streams[s]
  BY MatchingVersionsAreCurrent DEF VersionsMatch
<1>2. \A s \in Streams \ read[c] : folded[c][s] = << >>
  BY DEF Inv, ReadInv, Settled, HoldsPrefixes
<1>3. folded[c] = [s \in Streams |-> IF s \in read[c] THEN streams[s] ELSE << >>]
  BY <1>1, <1>2 DEF Inv, TypeOK
<1>4. landed'[c] = landed[c] + 1 /\ landed[c] \in Nat
  BY DEF Land, Inv, TypeOK
<1>5. ViewOf(c)' = folded[c]
  BY <1>4 DEF ViewOf
<1>6. ASSUME NEW d \in Commands \ {c} PROVE ViewOf(d)' = ViewOf(d)
  BY <1>6, OthersIdle DEF Inv, Idle, ViewOf
<1>. QED  BY <1>3, <1>5, <1>6 DEF Views

(***************************************************************************)
(* Commands run as if one at a time: every behaviour of the pipelines, for *)
(* any number of them and any declarations, resolvers and handlers, is one *)
(* of SerialCommands.                                                      *)
(***************************************************************************)
THEOREM Serializable == Spec => RunsSerially
<1>1. Init => Serial!Init
  <2>. SUFFICES ASSUME Init PROVE Serial!Init
    OBVIOUS
  <2>1. \A c \in Commands : StatusOf(c) = "running" /\ ViewOf(c) = NoEvents
    BY DEF Init, StatusOf, ViewOf
  <2>. QED  BY <2>1 DEF Init, Serial!Init, Serial!Unseen, NoEvents
<1>2. ASSUME Inv, [Next]_vars PROVE [Serial!Next]_(Serial!vars)
  <2>1. ASSUME NEW c \in Commands, Step(c), streams' = streams, landed' = landed,
               outcome' = outcome
        PROVE  UNCHANGED Serial!vars
    BY <1>2, <2>1, ViewsStay, StatusesStay DEF Serial!vars, Views, Statuses
  <2>2. ASSUME NEW c \in Commands, Step(c), streams' = streams, landed' = landed,
               phase[c] # "Done", NEW answer \in Outcomes \ {"none"}, Finish(c, answer)
        PROVE  Serial!Next
    <3>1. Views' = Views
      BY <1>2, <2>2, ViewsStay
    <3>2. /\ Statuses[c] = "running"
          /\ \E status \in {"succeeded", "failed"} :
               Statuses' = [Statuses EXCEPT ![c] = status]
      BY <1>2, <2>2, ReturnChangesStatus DEF Finish
    <3>3. Serial!End(c)
      BY <2>2, <3>1, <3>2 DEF Serial!End, Views, Statuses
    <3>. QED  BY <3>3 DEF Serial!Next
  <2>3. ASSUME NEW c \in Commands, Step(c), phase[c] = "AwaitingAppend", Land(c),
               VersionsMatch(read[c], expected[c], writes[c]), folded' = folded,
               NEW answer \in Outcomes \ {"none"}, Finish(c, answer)
        PROVE  Serial!Next
    <3>1. CASE IsEmptyBatch(writes[c])
      BY <1>2, <2>2, <2>3, <3>1, EmptyLandStays DEF Inv
    <3>2. CASE ~IsEmptyBatch(writes[c])
      <4>1. Views' = [Views EXCEPT ![c] =
                        [s \in Streams |-> IF s \in read[c] THEN streams[s] ELSE << >>]]
        BY <1>2, <2>3, <3>2, LandShowsView
      <4>2. /\ Statuses[c] = "running"
            /\ \E status \in {"succeeded", "failed"} :
                 Statuses' = [Statuses EXCEPT ![c] = status]
        BY <1>2, <2>3, ReturnChangesStatus DEF Finish
      <4>3. /\ read[c] \in SUBSET Streams /\ writes[c] \in Emits[c]
            /\ \A s \in Streams \ read[c] : writes[c][s] = 0
        BY <1>2, <2>3 DEF Inv, TypeOK, ReadInv, Settled
      <4>4. streams' = [s \in Streams |-> streams[s] \o Serial!Batch(c, writes[c][s])]
        BY <2>3 DEF Land, Batch, Serial!Batch
      <4>5. Serial!Run(c)
        BY <4>1, <4>2, <4>3, <4>4 DEF Serial!Run, Views, Statuses
      <4>. QED  BY <4>5 DEF Serial!Next
    <3>. QED  BY <3>1, <3>2
  <2>4. ASSUME NEW c \in Commands, Step(c) PROVE [Serial!Next]_(Serial!vars)
    <3>1. CASE Start(c) \/ OpenStream(c) \/ ApplyEvent(c) \/ EndStream(c) \/ Wake(c)
      BY <2>1, <2>4, <3>1 DEF Start, OpenStream, ApplyEvent, EndStream, Wake
    <3>2. CASE ReadFails(c) \/ HandlerRejects(c)
      BY <2>2, <2>4, <3>2 DEF ReadFails, HandlerRejects, AllRead, Outcomes
    <3>3. CASE Handle(c)
      <4>1. /\ phase[c] # "Done" /\ streams' = streams /\ landed' = landed
            /\ outcome' = outcome \/ Finish(c, "UndeclaredStream")
        BY <3>3 DEF Handle, AllRead
      <4>. QED  BY <2>1, <2>2, <2>4, <4>1 DEF Outcomes
    <3>4. CASE AppendConflicts(c)
      <4>1. /\ phase[c] # "Done" /\ streams' = streams /\ landed' = landed
            /\ outcome' = outcome \/ Finish(c, "ConcurrencyError")
        BY <3>4 DEF AppendConflicts
      <4>. QED  BY <2>1, <2>2, <2>4, <4>1 DEF Outcomes
    <3>5. CASE AppendSucceeds(c)
      BY <2>3, <2>4, <3>5 DEF AppendSucceeds, pipeline, Outcomes
    <3>6. CASE AppendFails(c)
      BY <2>2, <2>3, <2>4, <3>6 DEF AppendFails, pipeline, Outcomes
    <3>. QED  BY <2>4, <3>1, <3>2, <3>3, <3>4, <3>5, <3>6 DEF Step
  <2>5. CASE UNCHANGED vars
    <3>1. UNCHANGED << streams, landed, outcome, folded >>
      BY <2>5 DEF vars, pipeline
    <3>. QED  BY <3>1 DEF Serial!vars, StatusOf, ViewOf
  <2>. QED  BY <1>2, <2>4, <2>5 DEF Next, AllReturned
<1>. QED  BY <1>1, <1>2, Invariance, PTL DEF Spec, RunsSerially, Serial!Spec

-------------------------------------------------------------------------------
(***************************************************************************)
(* Discovery.  While a pipeline reads, what was ever scheduled has been    *)
(* visited or waits in the queue.                                          *)
(***************************************************************************)
Tracked(c) ==
  phase[c] \in {"ReadingStreams", "AwaitingStreamRead", "AwaitingAppend"} =>
    /\ ToSet(Declared[c]) \subseteq scheduled[c]
    /\ scheduled[c] = visited[c] \cup ToSet(queue[c])
    /\ phase[c] = "AwaitingAppend" => ToSet(queue[c]) \subseteq visited[c]

DiscoveryInv == \A c \in Commands : Tracked(c)

(***************************************************************************)
(* The elements of a sequence by their indices.                            *)
(***************************************************************************)
LEMMA ToSetByIndex ==
  ASSUME NEW S, NEW q \in Seq(S)
  PROVE  ToSet(q) = {q[i] : i \in 1..Len(q)}
<1>1. DOMAIN q = 1..Len(q)
  OBVIOUS
<1>. QED  BY <1>1 DEF ToSet

(***************************************************************************)
(* Popping visited streams off the queue, and the next one, loses none.    *)
(***************************************************************************)
LEMMA PopKeepsStreams ==
  ASSUME NEW S, NEW q \in Seq(S), NEW k \in 1..Len(q), NEW seen,
         \A j \in 1..(k - 1) : q[j] \in seen
  PROVE  seen \cup {q[k]} \cup ToSet(SubSeq(q, k + 1, Len(q))) = seen \cup ToSet(q)
<1>. DEFINE rest == SubSeq(q, k + 1, Len(q))
<1>1. /\ Len(rest) = Len(q) - k
      /\ rest \in Seq(S)
      /\ \A i \in 1..(Len(q) - k) : rest[i] = q[k + i]
  OBVIOUS
<1>2. ToSet(q) = {q[i] : i \in 1..Len(q)} /\ ToSet(rest) = {rest[i] : i \in 1..Len(rest)}
  BY <1>1, ToSetByIndex
<1>3. ASSUME NEW x \in ToSet(rest) PROVE x \in ToSet(q)
  <2>1. PICK i \in 1..(Len(q) - k) : x = rest[i]
    BY <1>1, <1>2, <1>3
  <2>2. x = q[k + i] /\ k + i \in 1..Len(q)
    BY <1>1, <2>1
  <2>. QED  BY <1>2, <2>2
<1>4. ASSUME NEW x \in ToSet(q), x \notin seen, x # q[k] PROVE x \in ToSet(rest)
  <2>1. PICK i \in 1..Len(q) : x = q[i]
    BY <1>2, <1>4
  <2>2. i > k
    BY <1>4, <2>1
  <2>3. i - k \in 1..(Len(q) - k) /\ rest[i - k] = q[i]
    BY <1>1, <2>1, <2>2
  <2>. QED  BY <1>1, <1>2, <2>1, <2>3
<1>5. q[k] \in ToSet(q)
  BY <1>2
<1>. HIDE DEF rest
<1>6. seen \cup {q[k]} \cup ToSet(rest) = seen \cup ToSet(q)
  BY <1>3, <1>4, <1>5
<1>. QED  BY <1>6 DEF rest

(***************************************************************************)
(* A concatenation holds the elements of both parts.                       *)
(***************************************************************************)
LEMMA ConcatKeepsStreams ==
  ASSUME NEW S, NEW p \in Seq(S), NEW q \in Seq(S)
  PROVE  ToSet(p \o q) = ToSet(p) \cup ToSet(q)
<1>1. /\ p \o q \in Seq(S) /\ Len(p \o q) = Len(p) + Len(q)
      /\ \A i \in 1..Len(p) : (p \o q)[i] = p[i]
      /\ \A i \in 1..Len(q) : (p \o q)[Len(p) + i] = q[i]
  OBVIOUS
<1>2. /\ ToSet(p) = {p[i] : i \in 1..Len(p)} /\ ToSet(q) = {q[i] : i \in 1..Len(q)}
      /\ ToSet(p \o q) = {(p \o q)[i] : i \in 1..Len(p \o q)}
  BY <1>1, ToSetByIndex
<1>3. ASSUME NEW x \in ToSet(p \o q) PROVE x \in ToSet(p) \cup ToSet(q)
  <2>1. PICK i \in 1..(Len(p) + Len(q)) : x = (p \o q)[i]
    BY <1>1, <1>2, <1>3
  <2>2. CASE i \in 1..Len(p)
    BY <1>1, <1>2, <2>1, <2>2
  <2>3. CASE i \notin 1..Len(p)
    <3>1. i - Len(p) \in 1..Len(q) /\ Len(p) + (i - Len(p)) = i
      BY <2>1, <2>3
    <3>2. x = q[i - Len(p)]
      BY <1>1, <2>1, <3>1
    <3>. QED  BY <1>2, <3>1, <3>2
  <2>. QED  BY <2>2, <2>3
<1>4. ToSet(p) \subseteq ToSet(p \o q)
  BY <1>1, <1>2
<1>5. ASSUME NEW x \in ToSet(q) PROVE x \in ToSet(p \o q)
  <2>1. PICK i \in 1..Len(q) : x = q[i]
    BY <1>2, <1>5
  <2>2. Len(p) + i \in 1..Len(p \o q) /\ x = (p \o q)[Len(p) + i]
    BY <1>1, <2>1
  <2>. QED  BY <1>2, <2>2
<1>. QED  BY <1>3, <1>4, <1>5

(***************************************************************************)
(* When the handler has run, every stream declared or discovered had been  *)
(* read to its end, for any resolver, whatever it names and repeats.       *)
(***************************************************************************)
THEOREM DiscoveryIsClosed == Spec => []DiscoveryClosed
<1>1. Init => DiscoveryInv
  BY DEF Init, DiscoveryInv, Tracked
<1>2. ASSUME Inv, DiscoveryInv, [Next]_vars PROVE DiscoveryInv'
  <2>1. TypeOK
    BY <1>2 DEF Inv
  <2>2. ASSUME NEW c \in Commands, Start(c) PROVE Tracked(c)'
    <3>1. /\ phase'[c] = "ReadingStreams" /\ queue'[c] = Declared[c]
          /\ scheduled'[c] = ToSet(Declared[c]) /\ visited'[c] = {}
      BY <2>1, <2>2 DEF Start, TypeOK
    <3>. QED  BY <3>1 DEF Tracked
  <2>3. ASSUME NEW c \in Commands, OpenStream(c) PROVE Tracked(c)'
    <3>1. PICK k \in 1..Len(queue[c]) :
            /\ \A j \in 1..(k - 1) : queue[c][j] \in visited[c]
            /\ queue' = [queue EXCEPT ![c] = SubSeq(@, k + 1, Len(@))]
            /\ visited' = [visited EXCEPT ![c] = @ \cup {queue[c][k]}]
      BY <2>3 DEF OpenStream
    <3>2. queue'[c] = SubSeq(queue[c], k + 1, Len(queue[c])) /\ queue[c] \in Seq(Streams)
      BY <2>1, <3>1 DEF TypeOK
    <3>3. visited'[c] = visited[c] \cup {queue[c][k]}
      BY <2>1, <3>1 DEF TypeOK
    <3>4. visited'[c] \cup ToSet(queue'[c]) = visited[c] \cup ToSet(queue[c])
      <4>1. visited[c] \cup {queue[c][k]} \cup ToSet(SubSeq(queue[c], k + 1, Len(queue[c])))
              = visited[c] \cup ToSet(queue[c])
        BY <3>1, <3>2, PopKeepsStreams
      <4>. QED  BY <3>2, <3>3, <4>1
    <3>5. phase'[c] = "AwaitingStreamRead" /\ scheduled' = scheduled
      BY <2>1, <2>3 DEF OpenStream, TypeOK
    <3>. QED  BY <1>2, <2>3, <3>4, <3>5 DEF DiscoveryInv, Tracked, OpenStream
  <2>4. ASSUME NEW c \in Commands, EndStream(c) PROVE Tracked(c)'
    <3>1. PICK related \in Resolver[c] : \E fresh \in NewlyScheduled(related, scheduled[c]) :
            /\ queue' = [queue EXCEPT ![c] = @ \o fresh]
            /\ scheduled' = [scheduled EXCEPT ![c] = @ \cup ToSet(fresh)]
      BY <2>4 DEF EndStream
    <3>2. PICK fresh \in NewlyScheduled(related, scheduled[c]) :
            /\ queue' = [queue EXCEPT ![c] = @ \o fresh]
            /\ scheduled' = [scheduled EXCEPT ![c] = @ \cup ToSet(fresh)]
      BY <3>1
    <3>3. queue[c] \in Seq(Streams) /\ fresh \in Seq(Streams)
      BY <2>1, NewlyScheduledType, ResolverAssumption DEF TypeOK
    <3>4. queue'[c] = queue[c] \o fresh /\ scheduled'[c] = scheduled[c] \cup ToSet(fresh)
      BY <2>1, <3>2 DEF TypeOK
    <3>5. ToSet(queue'[c]) = ToSet(queue[c]) \cup ToSet(fresh)
      BY <3>3, <3>4, ConcatKeepsStreams
    <3>6. phase'[c] = "ReadingStreams" /\ visited' = visited
      BY <2>1, <2>4 DEF EndStream, TypeOK
    <3>. QED  BY <1>2, <2>4, <3>4, <3>5, <3>6 DEF DiscoveryInv, Tracked, EndStream
  <2>5. ASSUME NEW c \in Commands, ApplyEvent(c) PROVE Tracked(c)'
    BY <1>2, <2>5 DEF ApplyEvent, DiscoveryInv, Tracked
  <2>6. ASSUME NEW c \in Commands, Handle(c) PROVE Tracked(c)'
    <3>1. phase'[c] \in {"AwaitingAppend", "Done"}
      BY <2>1, <2>6 DEF Handle, Finish, TypeOK
    <3>. QED  BY <1>2, <2>6, <3>1 DEF Handle, AllRead, pipeline, DiscoveryInv, Tracked
  <2>7. ASSUME NEW c \in Commands,
               \/ ReadFails(c) \/ HandlerRejects(c) \/ AppendSucceeds(c) \/ AppendConflicts(c)
               \/ AppendFails(c) \/ Wake(c)
        PROVE  Tracked(c)'
    <3>1. phase'[c] \in {"Init", "AwaitingRetrySleep", "Done"}
      BY <2>1, <2>7 DEF ReadFails, HandlerRejects, AppendSucceeds, AppendConflicts, AppendFails,
           Wake, Finish, TypeOK
    <3>. QED  BY <3>1 DEF Tracked
  <2>8. ASSUME NEW c \in Commands, Idle(c) PROVE Tracked(c)'
    BY <1>2, <2>8 DEF DiscoveryInv, Tracked, Idle
  <2>9. ASSUME NEW c \in Commands, Step(c), NEW d \in Commands PROVE Tracked(d)'
    BY <2>1, <2>2, <2>3, <2>4, <2>5, <2>6, <2>7, <2>8, <2>9, OthersIdle DEF Step
  <2>10. ASSUME UNCHANGED vars, NEW d \in Commands PROVE Tracked(d)'
    <3>1. Idle(d)
      BY <2>10 DEF vars, pipeline, reading, Idle
    <3>. QED  BY <2>8, <3>1
  <2>. QED  BY <1>2, <2>9, <2>10 DEF DiscoveryInv, Next, AllReturned
<1>3. Inv /\ DiscoveryInv => DiscoveryClosed
  BY DEF DiscoveryInv, Tracked, DiscoveryClosed, Inv, ReadInv, Settled
<1>. QED  BY <1>1, <1>2, <1>3, Invariance, PTL DEF Spec

-------------------------------------------------------------------------------
(***************************************************************************)
(* A command's batch is in the store whole, once, or not at all; and every *)
(* conflict a command meets was caused by another that got through.        *)
(***************************************************************************)
(***************************************************************************)
(* What the store holds of each command, by what the command returned.     *)
(***************************************************************************)
Held(c) ==
  CASE outcome[c] = "Success" -> HoldsBatch(c)
    [] outcome[c] = "EventStoreError" -> HoldsBatch(c) \/ HoldsNothing(c)
    [] OTHER -> HoldsNothing(c)

(***************************************************************************)
(* While nothing lands, the store holds what it held.                      *)
(***************************************************************************)
LEMMA HeldStays ==
  ASSUME NEW c \in Commands, streams' = streams
  PROVE  /\ HoldsNothing(c) => HoldsNothing(c)'
         /\ writes'[c] = writes[c] /\ HoldsBatch(c) => HoldsBatch(c)'
<1>1. HoldsNothing(c) => HoldsNothing(c)'
  BY DEF HoldsNothing
<1>2. writes'[c] = writes[c] /\ HoldsBatch(c) => HoldsBatch(c)'
  BY DEF HoldsBatch
<1>. QED  BY <1>1, <1>2

(***************************************************************************)
(* The events of a batch, by index.                                        *)
(***************************************************************************)
LEMMA BatchElements ==
  ASSUME NEW c \in Commands, NEW n \in Nat
  PROVE  /\ Batch(c, n) \in Seq(Event) /\ Len(Batch(c, n)) = n
         /\ \A i \in 1..n : Batch(c, n)[i] = << c, i >>
<1>1. Batch(c, n) \in Seq(Event)
  BY BatchType
<1>2. Len(Batch(c, n)) = n
  BY DEF Batch
<1>3. \A i \in 1..n : Batch(c, n)[i] = << c, i >>
  BY DEF Batch
<1>. QED  BY <1>1, <1>2, <1>3

(***************************************************************************)
(* A concatenation holds the first part, then the second.                  *)
(***************************************************************************)
LEMMA ConcatElements ==
  ASSUME NEW S, NEW p \in Seq(S), NEW q \in Seq(S)
  PROVE  /\ p \o q \in Seq(S) /\ Len(p \o q) = Len(p) + Len(q)
         /\ DOMAIN (p \o q) = 1..Len(p \o q)
         /\ \A i \in 1..Len(p) : (p \o q)[i] = p[i]
         /\ \A i \in 1..Len(q) : (p \o q)[Len(p) + i] = q[i]
  OBVIOUS

(***************************************************************************)
(* A stream after a batch landed: what it held, then the batch's events.   *)
(***************************************************************************)
LEMMA LandedStream ==
  ASSUME TypeOK, NEW c \in Commands, Land(c), NEW s \in Streams
  PROVE  /\ streams[s] \in Seq(Event) /\ writes[c][s] \in Nat
         /\ Len(streams'[s]) = Len(streams[s]) + writes[c][s]
         /\ DOMAIN streams'[s] = 1..Len(streams'[s])
         /\ \A i \in 1..Len(streams[s]) : streams'[s][i] = streams[s][i]
         /\ \A i \in 1..writes[c][s] : streams'[s][Len(streams[s]) + i] = << c, i >>
<1>1. writes[c][s] \in Nat /\ streams[s] \in Seq(Event)
  BY DEF TypeOK
<1>2. streams'[s] = streams[s] \o Batch(c, writes[c][s])
  BY DEF Land
<1>3. /\ Batch(c, writes[c][s]) \in Seq(Event)
      /\ Len(Batch(c, writes[c][s])) = writes[c][s]
      /\ \A i \in 1..writes[c][s] : Batch(c, writes[c][s])[i] = << c, i >>
  BY <1>1, BatchElements
<1>. DEFINE batch == Batch(c, writes[c][s])
<1>. HIDE DEF batch
<1>4. /\ Len(streams[s] \o batch) = Len(streams[s]) + Len(batch)
      /\ DOMAIN (streams[s] \o batch) = 1..Len(streams[s] \o batch)
      /\ \A i \in 1..Len(streams[s]) : (streams[s] \o batch)[i] = streams[s][i]
      /\ \A i \in 1..Len(batch) : (streams[s] \o batch)[Len(streams[s]) + i] = batch[i]
  <2>1. batch \in Seq(Event)
    BY <1>3 DEF batch
  <2>. QED  BY <1>1, <2>1, ConcatElements
<1>5. Len(batch) = writes[c][s] /\ streams'[s] = streams[s] \o batch
  BY <1>2, <1>3 DEF batch
<1>6. \A i \in 1..writes[c][s] : batch[i] = << c, i >>
  BY <1>3 DEF batch
<1>. QED  BY <1>1, <1>4, <1>5, <1>6

(***************************************************************************)
(* A command of which the store held nothing is held whole, as one block   *)
(* at the end of each stream, after its batch landed.                      *)
(***************************************************************************)
LEMMA OwnBatchIsHeld ==
  ASSUME TypeOK, NEW c \in Commands, Land(c), writes' = writes, HoldsNothing(c)
  PROVE  HoldsBatch(c)'
<1>. SUFFICES ASSUME NEW s \in Streams
              PROVE  \E k \in 0..Len(streams'[s]) :
                       /\ k + writes[c][s] <= Len(streams'[s])
                       /\ \A i \in DOMAIN streams'[s] :
                            IF i \in (k + 1)..(k + writes[c][s])
                            THEN streams'[s][i] = << c, i - k >>
                            ELSE streams'[s][i][1] # c
  BY DEF HoldsBatch
<1>. DEFINE k == Len(streams[s])
            n == writes[c][s]
<1>1. /\ k \in Nat /\ n \in Nat /\ Len(streams'[s]) = k + n
      /\ DOMAIN streams'[s] = 1..Len(streams'[s])
      /\ \A i \in 1..k : streams'[s][i] = streams[s][i]
      /\ \A i \in 1..n : streams'[s][k + i] = << c, i >>
  BY LandedStream
<1>2. \A i \in 1..k : streams[s][i][1] # c
  BY DEF HoldsNothing, TypeOK
<1>. HIDE DEF k, n
<1>3. ASSUME NEW i \in 1..(k + n), i \in (k + 1)..(k + n)
      PROVE  streams'[s][i] = << c, i - k >>
  <2>1. i - k \in 1..n /\ k + (i - k) = i
    BY <1>1, <1>3
  <2>. QED  BY <1>1, <2>1
<1>4. ASSUME NEW i \in 1..(k + n), i \notin (k + 1)..(k + n)
      PROVE  streams'[s][i][1] # c
  <2>1. i \in 1..k
    BY <1>1, <1>4
  <2>. QED  BY <1>1, <1>2, <2>1
<1>5. k \in 0..Len(streams'[s]) /\ k + n <= Len(streams'[s])
  BY <1>1
<1>6. \A i \in DOMAIN streams'[s] :
        IF i \in (k + 1)..(k + n) THEN streams'[s][i] = << c, i - k >>
                                  ELSE streams'[s][i][1] # c
  BY <1>1, <1>3, <1>4
<1>. QED  BY <1>5, <1>6 DEF n

(***************************************************************************)
(* Another command's batch, landing behind it, leaves a block whole, and   *)
(* adds nothing where there was nothing.                                   *)
(***************************************************************************)
LEMMA OtherBatchesKeepHeld ==
  ASSUME TypeOK, NEW c \in Commands, Land(c), NEW d \in Commands, d # c,
         writes'[d] = writes[d]
  PROVE  /\ HoldsNothing(d) => HoldsNothing(d)'
         /\ HoldsBatch(d) => HoldsBatch(d)'
<1>1. ASSUME NEW s \in Streams, NEW i \in DOMAIN streams'[s]
      PROVE  \/ i \in DOMAIN streams[s] /\ streams'[s][i] = streams[s][i]
             \/ i > Len(streams[s]) /\ streams'[s][i][1] = c
  <2>. DEFINE k == Len(streams[s])
              n == writes[c][s]
  <2>1. /\ k \in Nat /\ n \in Nat /\ i \in 1..(k + n)
        /\ \A j \in 1..k : streams'[s][j] = streams[s][j]
        /\ \A j \in 1..n : streams'[s][k + j] = << c, j >>
        /\ DOMAIN streams[s] = 1..k
    BY LandedStream
  <2>. HIDE DEF k, n
  <2>2. CASE i \in 1..k
    BY <2>1, <2>2
  <2>3. CASE i \notin 1..k
    <3>1. i - k \in 1..n /\ k + (i - k) = i
      BY <2>1, <2>3
    <3>2. streams'[s][i] = << c, i - k >>
      BY <2>1, <3>1
    <3>. QED  BY <2>1, <2>3, <3>2 DEF k
  <2>. QED  BY <2>2, <2>3
<1>2. HoldsNothing(d) => HoldsNothing(d)'
  BY <1>1 DEF HoldsNothing
<1>3. ASSUME HoldsBatch(d), NEW s \in Streams
      PROVE  \E k \in 0..Len(streams'[s]) :
               /\ k + writes'[d][s] <= Len(streams'[s])
               /\ \A i \in DOMAIN streams'[s] :
                    IF i \in (k + 1)..(k + writes'[d][s])
                    THEN streams'[s][i] = << d, i - k >>
                    ELSE streams'[s][i][1] # d
  <2>1. PICK k \in 0..Len(streams[s]) :
          /\ k + writes[d][s] <= Len(streams[s])
          /\ \A i \in DOMAIN streams[s] :
               IF i \in (k + 1)..(k + writes[d][s]) THEN streams[s][i] = << d, i - k >>
                                                    ELSE streams[s][i][1] # d
    BY <1>3 DEF HoldsBatch
  <2>2. /\ Len(streams[s]) \in Nat /\ writes[d][s] \in Nat
        /\ Len(streams'[s]) \in Nat /\ Len(streams[s]) <= Len(streams'[s])
    <3>1. writes[c][s] \in Nat /\ writes[d][s] \in Nat
      BY DEF TypeOK
    <3>. QED  BY <3>1, LandedStream
  <2>3. k \in 0..Len(streams'[s]) /\ k + writes[d][s] <= Len(streams'[s])
    BY <2>1, <2>2
  <2>4. ASSUME NEW i \in DOMAIN streams'[s]
        PROVE  IF i \in (k + 1)..(k + writes[d][s]) THEN streams'[s][i] = << d, i - k >>
                                                    ELSE streams'[s][i][1] # d
    <3>1. CASE i \in DOMAIN streams[s] /\ streams'[s][i] = streams[s][i]
      BY <2>1, <3>1
    <3>2. CASE i > Len(streams[s]) /\ streams'[s][i][1] = c
      <4>1. i \notin (k + 1)..(k + writes[d][s])
        BY <2>1, <2>2, <3>2
      <4>. QED  BY <3>2, <4>1
    <3>. QED  BY <1>1, <3>1, <3>2
  <2>. QED  BY <2>3, <2>4
<1>. QED  BY <1>2, <1>3 DEF HoldsBatch

(***************************************************************************)
(* A batch is in the store whole, or not at all, and once: however many    *)
(* attempts a command took, whatever the others did meanwhile, and also    *)
(* when the acknowledgement of the commit was lost.                        *)
(***************************************************************************)
THEOREM BatchesAreAtomic == Spec => []AllOrNothing
<1>1. Init => AllOrNothing
  BY DEF Init, AllOrNothing, HoldsNothing, NoEvents
<1>2. ASSUME Inv, AllOrNothing, [Next]_vars PROVE AllOrNothing'
  <2>. /\ TypeOK
       /\ \A c \in Commands : Held(c)
       /\ \A c \in Commands : (phase[c] = "Done") <=> (outcome[c] # "none")
    BY <1>2 DEF Inv, AllOrNothing, Held, ReadInv, Settled
  <2>1. ASSUME NEW c \in Commands, NEW d \in Commands, Idle(d),
               \/ streams' = streams
               \/ Land(c) /\ c # d
        PROVE  Held(d)'
    <3>1. /\ HoldsNothing(d) => HoldsNothing(d)'
          /\ HoldsBatch(d) => HoldsBatch(d)'
      BY <2>1, HeldStays, OtherBatchesKeepHeld DEF Idle
    <3>. QED  BY <2>1, <3>1 DEF Held, Idle
  <2>2. ASSUME NEW c \in Commands, Step(c), streams' = streams,
               outcome'[c] = outcome[c] \/ (outcome[c] = "none" /\ outcome'[c] # "Success")
        PROVE  Held(c)'
    <3>1. phase[c] # "Done"
      BY <2>2 DEF Step, Start, OpenStream, ApplyEvent, EndStream, ReadFails, Handle, AllRead,
           HandlerRejects, AppendSucceeds, AppendConflicts, AppendFails, Wake
    <3>2. HoldsNothing(c)
      BY <3>1 DEF Held
    <3>. QED  BY <2>2, <3>1, <3>2, HeldStays DEF Held
  <2>3. ASSUME NEW c \in Commands, phase[c] = "AwaitingAppend", Land(c), writes' = writes,
               outcome'[c] \in {"Success", "EventStoreError"}
        PROVE  Held(c)'
    <3>1. HoldsNothing(c)
      BY <2>3 DEF Held
    <3>. QED  BY <2>3, <3>1, OwnBatchIsHeld DEF Held
  <2>4. ASSUME NEW c \in Commands, Step(c) PROVE Held(c)'
    <3>1. CASE \/ Start(c) \/ OpenStream(c) \/ ApplyEvent(c) \/ EndStream(c) \/ Wake(c)
      BY <2>2, <2>4, <3>1 DEF Start, OpenStream, ApplyEvent, EndStream, Wake
    <3>2. CASE ReadFails(c) \/ HandlerRejects(c) \/ Handle(c) \/ AppendConflicts(c)
      <4>1. /\ streams' = streams /\ phase[c] # "Done"
            /\ \/ outcome' = outcome
               \/ \E answer \in {"EventStoreError", "Rejected", "UndeclaredStream",
                                 "ConcurrencyError"} : Finish(c, answer)
        BY <3>2 DEF ReadFails, HandlerRejects, Handle, AllRead, AppendConflicts
      <4>2. outcome'[c] = outcome[c] \/ (outcome[c] = "none" /\ outcome'[c] # "Success")
        BY <4>1 DEF Finish, TypeOK
      <4>. QED  BY <2>2, <2>4, <4>1, <4>2
    <3>3. CASE AppendSucceeds(c)
      <4>1. outcome'[c] = "Success"
        BY <3>3 DEF AppendSucceeds, Finish, TypeOK
      <4>. QED  BY <2>3, <3>3, <4>1 DEF AppendSucceeds
    <3>4. CASE AppendFails(c)
      <4>1. outcome'[c] = "EventStoreError" /\ phase[c] = "AwaitingAppend" /\ writes' = writes
        BY <3>4 DEF AppendFails, Finish, TypeOK
      <4>2. streams' = streams \/ Land(c)
        BY <3>4 DEF AppendFails
      <4>. QED  BY <2>2, <2>3, <2>4, <4>1, <4>2
    <3>. QED  BY <2>4, <3>1, <3>2, <3>3, <3>4 DEF Step
  <2>5. ASSUME NEW c \in Commands, Step(c), NEW d \in Commands PROVE Held(d)'
    <3>1. CASE d = c
      BY <2>4, <2>5, <3>1
    <3>2. CASE d # c
      <4>1. Idle(d)
        BY <2>5, <3>2, OthersIdle
      <4>2. streams' = streams \/ Land(c)
        BY <2>5 DEF Step, Start, OpenStream, ApplyEvent, EndStream, ReadFails, Handle,
             HandlerRejects, AppendSucceeds, AppendConflicts, AppendFails, Wake
      <4>. QED  BY <2>1, <3>2, <4>1, <4>2
    <3>. QED  BY <3>1, <3>2
  <2>6. ASSUME UNCHANGED vars, NEW d \in Commands PROVE Held(d)'
    <3>1. Idle(d) /\ streams' = streams
      BY <2>6 DEF vars, pipeline, reading, Idle
    <3>. QED  BY <2>1, <3>1
  <2>. QED  BY <1>2, <2>5, <2>6 DEF Next, AllReturned, AllOrNothing, Held
<1>. QED  BY <1>1, <1>2, Invariance, PTL DEF Spec

-------------------------------------------------------------------------------
(***************************************************************************)
(* Conflicts.  The others whose batches have landed; what a pipeline that  *)
(* will conflict has fallen behind of: the head of a stream it read, or of *)
(* the stream it is reading.                                               *)
(***************************************************************************)
Others(c) == {d \in Commands \ {c} : landed[d] > 0}

Overtaken(c) ==
  /\ phase[c] \in {"ReadingStreams", "AwaitingStreamRead", "AwaitingAppend"}
  /\ \/ \E s \in read[c] : Len(streams[s]) # expected[c][s]
     \/ phase[c] = "AwaitingStreamRead" /\ Len(opened[c]) # Len(streams[current[c]])

(***************************************************************************)
(* The inductive invariant: every attempt that conflicted, and one that    *)
(* will, is paid for by a batch of another command.                        *)
(***************************************************************************)
Conflicts(c) == attempt[c] + (IF outcome[c] = "ConcurrencyError" THEN 1 ELSE 0)

Earned(c) ==
  /\ IsFiniteSet(Others(c))
  /\ Conflicts(c) <= Cardinality(Others(c))
  /\ Overtaken(c) => attempt[c] + 1 <= Cardinality(Others(c))

EarnedInv == \A c \in Commands : Earned(c)

(***************************************************************************)
(* A step of one command does not count against another's retries.         *)
(***************************************************************************)
LEMMA OthersKeepAttempt ==
  ASSUME TypeOK, NEW c \in Commands, Step(c), NEW d \in Commands, d # c
  PROVE  attempt'[d] = attempt[d]
  BY DEF TypeOK, Step, Start, OpenStream, ApplyEvent, EndStream, ReadFails, Handle,
     HandlerRejects, AppendSucceeds, AppendConflicts, AppendFails, Wake, pipeline

(***************************************************************************)
(* A command's own step leaves the others' batches as they are.            *)
(***************************************************************************)
LEMMA OwnStepKeepsOthers ==
  ASSUME TypeOK, NEW c \in Commands, Step(c) PROVE Others(c)' = Others(c)
<1>1. \A d \in Commands \ {c} : landed'[d] = landed[d]
  BY OthersIdle DEF Idle
<1>. QED  BY <1>1 DEF Others

(***************************************************************************)
(* A step of another command that moves no stream leaves the count alone;  *)
(* one that moves a stream adds that command to it, for its batch had not  *)
(* landed before.                                                          *)
(***************************************************************************)
LEMMA OthersPay ==
  ASSUME Inv, NEW c \in Commands, NEW d \in Commands, d # c, Step(d),
         IsFiniteSet(Others(c))
  PROVE  /\ IsFiniteSet(Others(c)')
         /\ \/ streams' = streams /\ Others(c)' = Others(c)
            \/ Cardinality(Others(c)') = Cardinality(Others(c)) + 1
<1>. TypeOK
  BY DEF Inv
<1>1. CASE streams' = streams /\ landed' = landed
  BY <1>1 DEF Others
<1>2. CASE phase[d] = "AwaitingAppend" /\ Land(d)
  <2>1. CASE IsEmptyBatch(writes[d])
    BY <1>1, <1>2, <2>1, EmptyLandStays
  <2>2. CASE ~IsEmptyBatch(writes[d])
    <3>1. landed[d] = 0 /\ landed' = [landed EXCEPT ![d] = @ + 1]
      BY <1>2, <2>2 DEF Inv, ReadInv, Settled, Land
    <3>2. landed \in [Commands -> Nat]
      BY DEF TypeOK
    <3>3. d \notin Others(c) /\ Others(c)' = Others(c) \cup {d}
      BY <3>1, <3>2 DEF Others
    <3>. QED  BY <3>3, FS_AddElement
  <2>. QED  BY <2>1, <2>2
<1>3. \/ streams' = streams /\ landed' = landed
      \/ phase[d] = "AwaitingAppend" /\ Land(d)
  BY DEF Step, Start, OpenStream, ApplyEvent, EndStream, ReadFails, Handle, HandlerRejects,
     AppendSucceeds, AppendConflicts, AppendFails, Wake
<1>. QED  BY <1>1, <1>2, <1>3

(***************************************************************************)
(* Reading on never makes a pipeline fall behind: a stream is opened at    *)
(* its head, and the version expected of it is that of the head.           *)
(***************************************************************************)
LEMMA ReadingKeepsUp ==
  ASSUME Inv, Inv', NEW c \in Commands,
         Start(c) \/ OpenStream(c) \/ ApplyEvent(c) \/ EndStream(c) \/ Handle(c)
  PROVE  Overtaken(c)' => Overtaken(c)
<1>. TypeOK /\ TypeOK'
  BY DEF Inv
<1>1. CASE Start(c)
  <2>1. read'[c] = {} /\ phase'[c] = "ReadingStreams"
    BY <1>1 DEF Start, TypeOK
  <2>. QED  BY <2>1 DEF Overtaken
<1>2. CASE OpenStream(c)
  <2>1. PICK s \in Streams : current'[c] = s /\ opened'[c] = streams[s]
    <3>1. PICK k \in 1..Len(queue[c]) :
            /\ current' = [current EXCEPT ![c] = queue[c][k]]
            /\ opened' = [opened EXCEPT ![c] = ReadStream(queue[c][k])]
      BY <1>2 DEF OpenStream
    <3>2. queue[c][k] \in Streams
      BY ElementAndRest DEF TypeOK
    <3>. QED  BY <3>1, <3>2 DEF TypeOK, ReadStream
  <2>. QED  BY <1>2, <2>1 DEF OpenStream, Overtaken
<1>3. CASE ApplyEvent(c)
  BY <1>3 DEF ApplyEvent, Overtaken
<1>4. CASE EndStream(c)
  <2>1. /\ phase[c] = "AwaitingStreamRead" /\ phase'[c] = "ReadingStreams"
        /\ streams' = streams /\ current[c] \in Streams
        /\ read'[c] = read[c] \cup {current[c]} /\ current[c] \notin read[c]
        /\ expected' = [expected EXCEPT ![c][current[c]] = Len(opened[c])]
    BY <1>4 DEF EndStream, StreamEnded, VersionAfter, TypeOK, Inv, ReadInv, HoldsCurrent
  <2>2. /\ expected'[c][current[c]] = Len(opened[c])
        /\ \A s \in read[c] : expected'[c][s] = expected[c][s]
    BY <2>1 DEF TypeOK
  <2>. QED  BY <2>1, <2>2 DEF Overtaken
<1>5. CASE Handle(c)
  <2>1. phase[c] = "ReadingStreams" /\ phase'[c] \in {"AwaitingAppend", "Done"}
    BY <1>5 DEF Handle, AllRead, Finish, TypeOK
  <2>. QED  BY <1>5, <2>1 DEF Handle, Overtaken, pipeline
<1>. QED  BY <1>1, <1>2, <1>3, <1>4, <1>5

(***************************************************************************)
(* No conflict is spurious: a command meets no more conflicts than other   *)
(* commands got through meanwhile, so the retries it is allowed are used   *)
(* up by progress of others only.                                          *)
(***************************************************************************)
THEOREM EveryConflictIsEarned == Spec => []ConflictsAreEarned
<1>1. Init => EarnedInv
  <2>. SUFFICES ASSUME Init, NEW c \in Commands PROVE Earned(c)
    BY DEF EarnedInv
  <2>1. Others(c) = {} /\ Conflicts(c) = 0 /\ ~Overtaken(c)
    BY DEF Init, Others, Conflicts, Overtaken
  <2>. QED  BY <2>1, FS_EmptySet DEF Earned
<1>2. ASSUME Inv, Inv', EarnedInv, [Next]_vars PROVE EarnedInv'
  <2>. TypeOK /\ TypeOK'
    BY <1>2 DEF Inv
  <2>1. \A c \in Commands : attempt[c] \in Nat /\ attempt'[c] \in Nat
    BY MaxRetriesAssumption DEF TypeOK
  <2>2. \A c \in Commands : IsFiniteSet(Others(c)) /\ Cardinality(Others(c)) \in Nat
    BY <1>2, FS_CardinalityType DEF EarnedInv, Earned
  <2>3. ASSUME NEW c \in Commands, NEW d \in Commands, d # c, Step(d) PROVE Earned(c)'
    <3>1. Idle(c) /\ attempt'[c] = attempt[c]
      BY <2>3, OthersIdle, OthersKeepAttempt
    <3>2. Conflicts(c)' = Conflicts(c) /\ Conflicts(c) <= attempt[c] + 1
      BY <2>1, <3>1 DEF Conflicts, Idle
    <3>3. CASE streams' = streams /\ Others(c)' = Others(c)
      <4>1. Overtaken(c)' => Overtaken(c)
        BY <3>1, <3>3 DEF Overtaken, Idle
      <4>. QED  BY <1>2, <3>1, <3>2, <3>3, <4>1 DEF EarnedInv, Earned
    <3>4. CASE /\ IsFiniteSet(Others(c)')
               /\ Cardinality(Others(c)') = Cardinality(Others(c)) + 1
      <4>1. Conflicts(c) <= Cardinality(Others(c)) /\ attempt[c] <= Conflicts(c)
        BY <1>2, <2>1 DEF EarnedInv, Earned, Conflicts
      <4>2. Conflicts(c) \in Nat
        BY <2>1 DEF Conflicts
      <4>3. /\ Conflicts(c) <= Cardinality(Others(c)')
            /\ attempt[c] + 1 <= Cardinality(Others(c)')
        BY <2>1, <2>2, <3>4, <4>1, <4>2
      <4>. QED  BY <3>1, <3>2, <3>4, <4>3 DEF Earned
    <3>. QED  BY <1>2, <2>2, <2>3, <3>3, <3>4, OthersPay
  <2>4. ASSUME NEW c \in Commands, Step(c), attempt'[c] = attempt[c],
               outcome'[c] = outcome[c] \/ outcome'[c] # "ConcurrencyError",
               Overtaken(c)' => Overtaken(c)
        PROVE  Earned(c)'
    <3>1. Others(c)' = Others(c)
      BY <2>4, OwnStepKeepsOthers
    <3>2. Conflicts(c)' <= Conflicts(c)
      BY <2>1, <2>4 DEF Conflicts
    <3>3. Conflicts(c) \in Nat /\ Conflicts(c)' \in Nat
      BY <2>1 DEF Conflicts
    <3>. QED  BY <1>2, <2>2, <2>4, <3>1, <3>2, <3>3 DEF EarnedInv, Earned
  <2>5. ASSUME NEW c \in Commands, AppendConflicts(c) PROVE Earned(c)'
    <3>1. Overtaken(c)
      BY <2>5 DEF AppendConflicts, VersionsMatch, CurrentVersion, Overtaken
    <3>2. outcome[c] # "ConcurrencyError"
      BY <1>2, <2>5 DEF AppendConflicts, Inv, ReadInv, Settled
    <3>3. /\ phase'[c] \in {"AwaitingRetrySleep", "Done"}
          /\ \/ attempt'[c] = attempt[c] + 1 /\ outcome'[c] = outcome[c]
             \/ attempt'[c] = attempt[c] /\ outcome'[c] = "ConcurrencyError"
      BY <2>5 DEF AppendConflicts, Finish, TypeOK
    <3>4. Conflicts(c)' = attempt[c] + 1 /\ ~Overtaken(c)'
      BY <2>1, <3>2, <3>3 DEF Conflicts, Overtaken
    <3>5. Others(c)' = Others(c)
      BY <2>5, OwnStepKeepsOthers DEF Step
    <3>. QED  BY <1>2, <3>1, <3>4, <3>5 DEF EarnedInv, Earned
  <2>6. ASSUME NEW c \in Commands, Step(c) PROVE Earned(c)'
    <3>1. CASE \/ Start(c) \/ OpenStream(c) \/ ApplyEvent(c) \/ EndStream(c) \/ Handle(c)
      <4>1. attempt' = attempt
        BY <3>1 DEF Start, OpenStream, ApplyEvent, EndStream, Handle, pipeline
      <4>2. outcome'[c] = outcome[c] \/ outcome'[c] # "ConcurrencyError"
        BY <3>1 DEF Start, OpenStream, ApplyEvent, EndStream, Handle, Finish, TypeOK
      <4>. QED  BY <1>2, <2>4, <2>6, <3>1, <4>1, <4>2, ReadingKeepsUp
    <3>2. CASE \/ ReadFails(c) \/ HandlerRejects(c) \/ AppendSucceeds(c) \/ AppendFails(c)
               \/ Wake(c)
      <4>1. attempt' = attempt
        BY <3>2 DEF ReadFails, HandlerRejects, AppendSucceeds, AppendFails, Wake, pipeline
      <4>2. outcome'[c] = outcome[c] \/ outcome'[c] # "ConcurrencyError"
        BY <3>2 DEF ReadFails, HandlerRejects, AppendSucceeds, AppendFails, Wake, Finish, TypeOK
      <4>3. phase'[c] \in {"Init", "Done"}
        BY <3>2 DEF ReadFails, HandlerRejects, AppendSucceeds, AppendFails, Wake, Finish, TypeOK
      <4>. QED  BY <2>4, <2>6, <4>1, <4>2, <4>3 DEF Overtaken
    <3>. QED  BY <2>5, <2>6, <3>1, <3>2 DEF Step
  <2>7. ASSUME UNCHANGED vars, NEW c \in Commands PROVE Earned(c)'
    BY <1>2, <2>7 DEF vars, pipeline, reading, EarnedInv, Earned, Others, Conflicts, Overtaken
  <2>. QED  BY <1>2, <2>3, <2>6, <2>7 DEF EarnedInv, Next, AllReturned
<1>3. EarnedInv => ConflictsAreEarned
  BY DEF EarnedInv, Earned, Conflicts, Others, ConflictsAreEarned
<1>. QED  BY <1>1, <1>2, <1>3, Invariance, PTL DEF Spec
===============================================================================
