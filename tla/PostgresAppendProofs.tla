-------------------------- MODULE PostgresAppendProofs --------------------------
(***************************************************************************)
(* Proofs about PostgresAppend, for any number of concurrent appends, any  *)
(* streams, hash, requests and chunk size: first that appends are atomic,  *)
(* then about the order of locks and of deliveries.                        *)
(***************************************************************************)
EXTENDS PostgresAppend, OrderLemmas, SequenceTheorems, TLAPS

USE NoneAssumption, StreamsAssumption, ChunkAssumption

-------------------------------------------------------------------------------
(***************************************************************************)
(* The part of TypeOK that names no delivery row.                          *)
(***************************************************************************)
Types ==
  /\ key \in [Streams -> Keys]
  /\ log \in [Streams -> Seq(Appends)]
  /\ frontier \in Nat
  /\ clock \in Nat
  /\ holder \in [Keys -> Appends \cup {None}]
  /\ frontierOwner \in Appends \cup {None}
  /\ phase \in [Appends -> Phases]
  /\ DOMAIN expected = Appends
  /\ entries \in [Appends -> Seq(Streams)]
  /\ todo \in [Appends -> SUBSET Streams]
  /\ written \in [Appends -> Nat]
  /\ drawn \in [Appends -> Nat]
  /\ answer \in [Appends -> Answers]

(***************************************************************************)
(* What a call declares covers what it visits and what it writes.          *)
(***************************************************************************)
Request(c) ==
  /\ Declared(c) \subseteq Streams
  /\ expected[c] \in [Declared(c) -> Nat]
  /\ todo[c] \subseteq Declared(c)
  /\ \A i \in DOMAIN entries[c] : entries[c][i] \in Declared(c)
  /\ written[c] \in 0..Len(entries[c])

Rows ==
  /\ delivery \in SUBSET DeliveryRow
  /\ positioned \in [Appends -> SUBSET DeliveryRow]

(***************************************************************************)
(* A chunk is a part of the entries, and a filter on an interval of        *)
(* numbers has a size.                                                     *)
(***************************************************************************)
LEMMA ChunkBounds ==
  ASSUME Types, NEW c \in Appends, Request(c)
  PROVE  /\ ChunkEnd(c) \in written[c]..Len(entries[c])
         /\ Chunk(c) \subseteq DOMAIN entries[c]
         /\ Chunk(c) \subseteq Nat
BY DEF Types, Request, ChunkEnd, Chunk, Least

LEMMA Counted ==
  ASSUME NEW a \in Int, NEW b \in Int, a <= b + 1, NEW T, T \in SUBSET (a..b)
  PROVE  /\ Cardinality(T) \in 0..(b - a + 1)
         /\ T # {} => Cardinality(T) >= 1
<1>1. IsFiniteSet(a..b) /\ Cardinality(a..b) = b - a + 1
  BY FS_Interval
<1>2. IsFiniteSet(T) /\ Cardinality(T) <= b - a + 1
  BY <1>1, FS_Subset
<1> QED BY <1>2, FS_CardinalityType, FS_EmptySet

(***************************************************************************)
(* The positions of a chunk start after what the transaction numbered so   *)
(* far and end before what it has still to number.                         *)
(***************************************************************************)
LEMMA Positions ==
  ASSUME Types, NEW c \in Appends, Request(c), NEW i \in Chunk(c)
  PROVE  /\ PositionOf(c, i) \in (frontier + written[c] + 1)..(frontier + ChunkEnd(c))
         /\ VersionOf(c, i) \in Nat
<1> DEFINE before == { j \in Chunk(c) : Precedes(c, j, i) }
           same == { j \in 1..i : entries[c][j] = entries[c][i] }
<1>1. ChunkEnd(c) \in Nat /\ written[c] \in Nat /\ written[c] <= ChunkEnd(c) /\ i \in Nat
      /\ i >= 1
  BY ChunkBounds DEF Types, Chunk
<1>2. i \in before
  BY <1>1 DEF Precedes
<1>3. before \in SUBSET (written[c] + 1 .. ChunkEnd(c))
  BY DEF Chunk
<1>4. Cardinality(before) \in 1..(ChunkEnd(c) - written[c])
  <2>1. /\ written[c] + 1 \in Int /\ ChunkEnd(c) \in Int
        /\ written[c] + 1 <= ChunkEnd(c) + 1 /\ before # {}
    BY <1>1, <1>2
  <2> HIDE DEF before
  <2>2. /\ Cardinality(before) \in 0..(ChunkEnd(c) - (written[c] + 1) + 1)
        /\ Cardinality(before) >= 1
    BY <1>3, <2>1, Counted
  <2> QED BY <1>1, <2>2
<1>5. PositionOf(c, i) = frontier + written[c] + Cardinality(before)
  BY DEF PositionOf
<1>6. Cardinality(same) \in Nat
  <2>1. same \in SUBSET (1..i)
    OBVIOUS
  <2>2. 1 \in Int /\ i \in Int /\ 1 <= i + 1
    BY <1>1
  <2> HIDE DEF same
  <2>3. Cardinality(same) \in 0..(i - 1 + 1)
    BY <2>1, <2>2, Counted
  <2> QED BY <2>3
<1>7. entries[c][i] \in Streams /\ Len(log[entries[c][i]]) \in Nat
  BY ChunkBounds DEF Types
<1> HIDE DEF before
<1>8. PositionOf(c, i) \in (frontier + written[c] + 1)..(frontier + ChunkEnd(c))
  BY <1>1, <1>4, <1>5 DEF Types
<1> QED BY <1>6, <1>7, <1>8 DEF VersionOf

-------------------------------------------------------------------------------
(***************************************************************************)
(* A commit extends each stream by the entries that name it, hence only    *)
(* declared streams.                                                       *)
(***************************************************************************)
LEMMA CommitExtends ==
  ASSUME Types, NEW c \in Appends, Request(c)
  PROVE  /\ Extended(c) \in [Streams -> Seq(Appends)]
         /\ \A s \in Streams \ Declared(c) : Len(Extended(c)[s]) = Len(log[s])
         /\ \A s \in Streams : Len(Extended(c)[s]) >= Len(log[s])
<1> SUFFICES ASSUME NEW s \in Streams
             PROVE  /\ Extended(c)[s] \in Seq(Appends)
                    /\ s \notin Declared(c) => Len(Extended(c)[s]) = Len(log[s])
                    /\ Len(Extended(c)[s]) >= Len(log[s])
  BY DEF Extended
<1> DEFINE mine == { i \in DOMAIN entries[c] : entries[c][i] = s }
           added == [i \in 1..Count(c, s) |-> c]
<1>1. Count(c, s) \in Nat
  <2>1. mine \in SUBSET (1..Len(entries[c])) /\ Len(entries[c]) \in Nat
    BY DEF Types
  <2>2. Cardinality(mine) \in Nat
    <3>1. 1 \in Int /\ Len(entries[c]) \in Int /\ 1 <= Len(entries[c]) + 1
      BY <2>1
    <3> HIDE DEF mine
    <3>2. Cardinality(mine) \in 0..(Len(entries[c]) - 1 + 1)
      BY <2>1, <3>1, Counted
    <3> QED BY <3>2
  <2> QED BY <2>2 DEF Count
<1>2. s \notin Declared(c) => Count(c, s) = 0
  <2>1. s \notin Declared(c) => mine = {}
    BY DEF Request
  <2> QED BY <2>1, FS_EmptySet DEF Count
<1>3. added \in Seq(Appends) /\ Len(added) = Count(c, s)
  BY <1>1
<1>4. Extended(c)[s] = log[s] \o added /\ log[s] \in Seq(Appends)
  BY DEF Extended, Types
<1> HIDE DEF added
<1> QED BY <1>1, <1>2, <1>3, <1>4, ConcatProperties

-------------------------------------------------------------------------------
(***************************************************************************)
(* Every variable keeps its type: in particular a call never visits or     *)
(* writes a stream that it does not declare.                               *)
(***************************************************************************)
LEMMA TypeInit == Init => TypeOK
<1> SUFFICES ASSUME Init PROVE TypeOK
  OBVIOUS
<1>1. \A c \in Appends : /\ Declared(c) = {}
                         /\ expected[c] \in [Declared(c) -> Nat]
                         /\ entries[c] = << >> /\ Len(entries[c]) = 0
  BY DEF Init, Declared, NoStreams
<1>2. \A c \in Appends : Request(c)
  BY <1>1 DEF Init, Request
<1>3. log \in [Streams -> Seq(Appends)] /\ entries \in [Appends -> Seq(Streams)]
  BY DEF Init
<1>4. Types
  BY <1>3 DEF Init, Types, Phases, Answers
<1>5. Rows
  BY DEF Init, Rows
<1> QED BY <1>2, <1>4, <1>5 DEF TypeOK, Types, Rows, Request

LEMMA TypeSplit == TypeOK <=> Types /\ Rows /\ \A c \in Appends : Request(c)
BY DEF TypeOK, Types, Rows, Request

(***************************************************************************)
(* Aborting and ending a transaction.                                      *)
(***************************************************************************)
LEMMA AbortType ==
  ASSUME TypeOK, NEW c \in Appends, NEW a \in Answers, Abort(c, a)
  PROVE  TypeOK'
BY DEF TypeOK, Abort, Goto, Respond, Phases, tables, locks, request, locals, Declared

LEMMA EndType ==
  ASSUME TypeOK, NEW c \in Appends, EndTransaction(c),
         log' \in [Streams -> Seq(Appends)], frontier' \in Nat,
         delivery' \in SUBSET DeliveryRow, answer' \in [Appends -> Answers]
  PROVE  TypeOK'
BY DEF TypeOK, EndTransaction, Goto, Phases, request, Declared

LEMMA SubmitType ==
  ASSUME TypeOK, NEW c \in Appends, Submit(c)
  PROVE  TypeOK'
<1> PICK q \in Requests : \E v \in Past(q.declared) :
        /\ expected' = [expected EXCEPT ![c] = v]
        /\ entries' = [entries EXCEPT ![c] = q.entries]
        /\ todo' = [todo EXCEPT ![c] = q.declared]
  BY DEF Submit
<1>1. PICK v \in Past(q.declared) :
        /\ expected' = [expected EXCEPT ![c] = v]
        /\ entries' = [entries EXCEPT ![c] = q.entries]
        /\ todo' = [todo EXCEPT ![c] = q.declared]
  OBVIOUS
<1>2. /\ q.declared \subseteq Streams /\ q.entries \in Seq(Streams)
      /\ \A i \in DOMAIN q.entries : q.entries[i] \in q.declared
      /\ Len(q.entries) \in Nat
  BY RequestsAssumption, RegisteredAssumption
<1>3. v \in [q.declared -> Nat]
  <2>1. UNION { 0..Len(log[s]) : s \in q.declared } \subseteq Nat
    BY <1>2 DEF TypeOK
  <2> QED BY <2>1 DEF Past
<1>4. Types'
  BY <1>1, <1>2 DEF TypeOK, Types, Submit, Goto, Phases, tables, locks
<1>5. /\ \A d \in Appends \ {c} : written'[d] = written[d]
      /\ written'[c] = 0
      /\ UNCHANGED << delivery, positioned >>
  BY DEF TypeOK, Submit, tables
<1>6. Request(c)'
  BY <1>1, <1>2, <1>3, <1>5 DEF TypeOK, Request, Declared
<1>7. ASSUME NEW d \in Appends, d # c PROVE Request(d)'
  BY <1>1, <1>5, <1>7 DEF TypeOK, Request, Declared
<1>8. Rows'
  BY <1>5 DEF TypeOK, Rows
<1> QED BY <1>4, <1>6, <1>7, <1>8, TypeSplit DEF TypeOK, Types, Rows, Request

THEOREM TypeCorrect == Spec => []TypeOK
<1>1. TypeOK /\ [Next]_vars => TypeOK'
  <2> SUFFICES ASSUME TypeOK, [Next]_vars PROVE TypeOK'
    OBVIOUS
  <2>1. CASE UNCHANGED vars \/ AllReturned
    BY <2>1 DEF TypeOK, AllReturned, vars, tables, locks, request, locals, Declared
  <2>2. ASSUME NEW c \in Appends, Submit(c) \/ Step(c) \/ Fail(c) PROVE TypeOK'
    <3>1. CASE Submit(c)
      BY <3>1, SubmitType
    <3>2. {"ok", "conflict", "rejected", "failed"} \subseteq Answers
      BY DEF Answers
    <3>3. CASE Fail(c) \/ DeadlockDetected(c)
      BY <3>2, <3>3, AbortType DEF Fail, DeadlockDetected
    <3>4. CASE EmptyBatch(c)
      BY <3>2, <3>4 DEF TypeOK, EmptyBatch, Goto, Respond, Phases, tables, locks, request,
                        locals, Declared
    <3>5. CASE Begin(c) \/ AllValid(c)
      BY <3>5 DEF TypeOK, Begin, AllValid, Goto, Phases, tables, locks, request, locals,
                  Declared
    <3>6. CASE LockStream(c)
      BY <3>6 DEF TypeOK, LockStream, IsNext, tables, request, Declared
    <3>7. CASE AllLocked(c)
      BY <3>7 DEF TypeOK, AllLocked, Goto, Phases, tables, locks, request, Declared
    <3>8. CASE Validate(c)
      <4> PICK s \in todo[c] :
            IF Len(log[s]) # expected[c][s]
            THEN Abort(c, "conflict")
            ELSE /\ todo' = [todo EXCEPT ![c] = @ \ {s}]
                 /\ UNCHANGED << key, tables, clock, locks, phase, request, written,
                                 drawn, positioned, answer >>
        BY <3>8 DEF Validate
      <4>1. CASE Len(log[s]) # expected[c][s]
        BY <3>2, <4>1, AbortType
      <4>2. CASE Len(log[s]) = expected[c][s]
        <5>1. todo' \in [Appends -> SUBSET Streams] /\ todo'[c] \subseteq Declared(c)
          <6>1. todo' = [todo EXCEPT ![c] = @ \ {s}]
            BY <4>2
          <6>2. todo \in [Appends -> SUBSET Streams] /\ todo[c] \subseteq Declared(c)
            BY DEF TypeOK
          <6> QED BY <6>1, <6>2
        <5> QED BY <4>2, <5>1 DEF TypeOK, tables, locks, request, Declared
      <4> QED BY <4>1, <4>2
    <3>9. CASE DrawIds(c)
      <4>1. clock' \in Nat
        BY <3>9, TypeSplit, ChunkBounds DEF TypeOK, DrawIds
      <4> QED BY <3>9, <4>1 DEF TypeOK, DrawIds, Goto, Phases, tables, locks, request,
                                Declared
    <3>10. CASE InsertRows(c)
      <4>1. CASE TriggerAccepts(c)
        BY <3>10, <4>1 DEF TypeOK, InsertRows, Goto, Phases, tables, locks, request,
                           locals, Declared
      <4>2. CASE ~TriggerAccepts(c)
        BY <3>2, <3>10, <4>2, AbortType DEF InsertRows
      <4> QED BY <4>1, <4>2
    <3>11. CASE AssignPositions(c)
      <4>1. \A i \in Chunk(c) :
              [position |-> PositionOf(c, i), id |-> drawn[c] + (i - written[c]),
               stream |-> entries[c][i], version |-> VersionOf(c, i)] \in DeliveryRow
        <5> SUFFICES ASSUME NEW i \in Chunk(c)
                     PROVE  /\ PositionOf(c, i) \in Nat /\ VersionOf(c, i) \in Nat
                            /\ drawn[c] + (i - written[c]) \in Nat
                            /\ entries[c][i] \in Streams
          BY DEF DeliveryRow
        <5>1. /\ PositionOf(c, i) \in (frontier + written[c] + 1)..(frontier + ChunkEnd(c))
              /\ VersionOf(c, i) \in Nat
          BY TypeSplit, Positions
        <5>2. i \in DOMAIN entries[c] /\ written[c] < i /\ i \in Nat
          BY TypeSplit, ChunkBounds DEF Chunk, TypeOK
        <5> QED BY <5>1, <5>2 DEF TypeOK
      <4>2. positioned' \in [Appends -> SUBSET DeliveryRow]
        BY <3>11, <4>1 DEF TypeOK, AssignPositions
      <4>3. ChunkEnd(c) \in 0..Len(entries[c])
        BY TypeSplit, ChunkBounds DEF TypeOK
      <4>4. written' \in [Appends -> Nat] /\ written'[c] \in 0..Len(entries[c])
        BY <3>11, <4>3 DEF TypeOK, AssignPositions
      <4>5. phase' \in [Appends -> Phases]
        BY <3>11 DEF TypeOK, AssignPositions, Goto, Phases
      <4> QED BY <3>11, <4>2, <4>4, <4>5 DEF TypeOK, AssignPositions, tables, request,
                                             Declared
    <3>12. CASE Commit(c)
      <4>1. log' \in [Streams -> Seq(Appends)]
        BY <3>12, TypeSplit, CommitExtends DEF Commit
      <4>2. frontier' \in Nat /\ answer' \in [Appends -> Answers]
        BY <3>2, <3>12 DEF TypeOK, Commit, Respond
      <4>3. delivery' \in SUBSET DeliveryRow
        BY <3>12 DEF TypeOK, Commit
      <4> QED BY <3>12, <4>1, <4>2, <4>3, EndType DEF Commit
    <3>13. CASE Rollback(c)
      BY <3>13, EndType DEF TypeOK, Rollback, tables
    <3> QED BY <2>2, <3>1, <3>3, <3>4, <3>5, <3>6, <3>7, <3>8, <3>9, <3>10, <3>11, <3>12,
               <3>13 DEF Step
  <2> QED BY <2>1, <2>2 DEF Next
<1> QED BY <1>1, TypeInit, PTL DEF Spec

-------------------------------------------------------------------------------
(***************************************************************************)
(* The locks a transaction holds: those of the streams it has passed.      *)
(***************************************************************************)
Writing(c) == phase[c] \in {"Drawing", "Inserting", "Positioning", "Committing"}

Held(c) ==
  /\ phase[c] = "Begin" => todo[c] = Declared(c)
  /\ phase[c] = "Locking" => \A s \in Declared(c) \ todo[c] : holder[key[s]] = c
  /\ phase[c] = "Validating" \/ Writing(c) => \A s \in Declared(c) : holder[key[s]] = c

(***************************************************************************)
(* What has been checked stays true until the transaction ends.            *)
(***************************************************************************)
Valid(c) ==
  /\ phase[c] = "Validating" =>
       \A s \in Declared(c) \ todo[c] : Len(log[s]) = expected[c][s]
  /\ Writing(c) => \A s \in Declared(c) : Len(log[s]) = expected[c][s]

(***************************************************************************)
(* Positions are assigned by the owner of the frontier only, just beyond   *)
(* it.                                                                     *)
(***************************************************************************)
Beyond(c) ==
  /\ positioned[c] # {} => frontierOwner = c
  /\ \A r \in positioned[c] : frontier < r.position /\ r.position <= frontier + written[c]
  /\ phase[c] \in {"Idle", "Begin"} => positioned[c] = {}
  /\ phase[c] = "Committing" => written[c] = Len(entries[c]) /\ frontierOwner = c

Answered(c) ==
  /\ phase[c] \notin {"Aborting", "Returned"} => answer[c] = "none"
  /\ phase[c] = "Idle" => expected[c] = NoStreams
  /\ answer[c] # "rejected"

Local(c) == Held(c) /\ Valid(c) /\ Beyond(c) /\ Answered(c)

Inv ==
  /\ TypeOK
  /\ \A c \in Appends : Local(c)
  /\ \A r \in delivery : r.position <= frontier

(***************************************************************************)
(* What the others do cannot touch a call: its locks stay its own, the     *)
(* streams it has locked do not grow, and the frontier does not move while *)
(* it owns it.                                                             *)
(***************************************************************************)
LEMMA Undisturbed ==
  ASSUME Inv, NEW d \in Appends, key' = key,
         phase'[d] = phase[d], expected'[d] = expected[d], entries'[d] = entries[d],
         todo'[d] = todo[d], written'[d] = written[d], positioned'[d] = positioned[d],
         answer'[d] = answer[d],
         \A s \in Declared(d) : holder[key[s]] = d =>
            holder'[key[s]] = d /\ Len(log'[s]) = Len(log[s]),
         frontierOwner = d => frontierOwner' = d /\ frontier' = frontier
  PROVE  Local(d)'
<1>1. Declared(d)' = Declared(d) /\ Writing(d)' = Writing(d)
  BY DEF Declared, Writing
<1>2. Held(d)' /\ Valid(d)'
  BY <1>1 DEF Inv, Local, Held, Valid
<1>3. Beyond(d)' /\ Answered(d)'
  BY DEF Inv, Local, Beyond, Answered
<1> QED BY <1>2, <1>3 DEF Local

(***************************************************************************)
(* A call that gives up keeps its locks and changes nothing else.          *)
(***************************************************************************)
LEMMA AbortKeeps ==
  ASSUME Inv, TypeOK', NEW c \in Appends, NEW a \in {"conflict", "failed"}, Abort(c, a)
  PROVE  Inv'
<1>1. /\ UNCHANGED << key, log, delivery, frontier, holder, frontierOwner, expected, entries,
                      todo, written, positioned >>
      /\ phase' = [phase EXCEPT ![c] = "Aborting"] /\ answer' = [answer EXCEPT ![c] = a]
  BY DEF Abort, Goto, Respond, tables, locks, request, locals
<1>2. phase \in [Appends -> Phases] /\ answer \in [Appends -> Answers]
  BY DEF Inv, TypeOK
<1>3. \A d \in Appends \ {c} : Local(d)'
  BY <1>1, <1>2, Undisturbed
<1>4. Local(c)'
  BY <1>1, <1>2 DEF Inv, Local, Held, Valid, Beyond, Answered, Writing
<1> QED BY <1>1, <1>3, <1>4 DEF Inv

(***************************************************************************)
(* The call proceeds without touching a lock or a table.                   *)
(***************************************************************************)
LEMMA ProceedKeeps ==
  ASSUME Inv, TypeOK', NEW c \in Appends,
         \/ Begin(c) \/ EmptyBatch(c) \/ AllLocked(c) \/ AllValid(c) \/ DrawIds(c)
         \/ InsertRows(c) /\ Goto(c, "Positioning") /\ UNCHANGED << locals, answer >>
  PROVE  Inv'
<1>1. UNCHANGED << key, log, delivery, frontier, holder, frontierOwner, expected, entries,
                   written, positioned >>
  BY DEF Begin, EmptyBatch, AllLocked, AllValid, DrawIds, InsertRows, Abort, tables, locks,
         request, locals
<1>2. /\ phase \in [Appends -> Phases] /\ answer \in [Appends -> Answers]
      /\ DOMAIN todo = Appends /\ todo[c] \subseteq Declared(c)
  BY DEF Inv, TypeOK
<1>3. \A d \in Appends \ {c} : /\ phase'[d] = phase[d] /\ todo'[d] = todo[d]
                              /\ answer'[d] = answer[d]
  BY <1>2 DEF Begin, EmptyBatch, AllLocked, AllValid, DrawIds, Goto, Respond, locals
<1>4. \A d \in Appends \ {c} : Local(d)'
  BY <1>1, <1>3, Undisturbed
<1>5. Local(c)
  BY DEF Inv
<1>6. Local(c)'
  <2> USE <1>1, <1>2, <1>5 DEF Local, Held, Valid, Beyond, Answered, Writing, Declared, Goto
  <2>1. CASE Begin(c)
    BY <2>1 DEF Begin, locals
  <2>2. CASE EmptyBatch(c)
    BY <2>2 DEF EmptyBatch, Respond, locals
  <2>3. CASE AllLocked(c)
    BY <2>3 DEF AllLocked
  <2>4. CASE AllValid(c)
    BY <2>4 DEF AllValid, locals
  <2>5. CASE DrawIds(c)
    BY <2>5 DEF DrawIds
  <2>6. CASE InsertRows(c) /\ Goto(c, "Positioning") /\ UNCHANGED << locals, answer >>
    BY <2>6 DEF InsertRows, locals
  <2> QED BY <2>1, <2>2, <2>3, <2>4, <2>5, <2>6
<1> QED BY <1>1, <1>4, <1>6 DEF Inv

LEMMA SubmitKeeps ==
  ASSUME Inv, TypeOK', NEW c \in Appends, Submit(c)
  PROVE  Inv'
<1>1. /\ UNCHANGED << key, log, delivery, frontier, holder, frontierOwner, positioned, answer >>
      /\ phase[c] = "Idle" /\ phase' = [phase EXCEPT ![c] = "Begin"]
      /\ written' = [written EXCEPT ![c] = 0]
      /\ \E q \in Requests : \E v \in Past(q.declared) :
           /\ expected' = [expected EXCEPT ![c] = v]
           /\ entries' = [entries EXCEPT ![c] = q.entries]
           /\ todo' = [todo EXCEPT ![c] = q.declared]
  BY DEF Submit, Goto, tables, locks
<1>2. \A d \in Appends \ {c} : Local(d)'
  BY <1>1, Undisturbed DEF Inv, TypeOK
<1>3. Declared(c)' = todo'[c]
  BY <1>1 DEF Inv, TypeOK, Declared, Past
<1>4. Local(c)'
  <2>1. phase'[c] = "Begin"
    BY <1>1 DEF Inv, TypeOK
  <2>2. positioned'[c] = {} /\ answer'[c] = "none"
    BY <1>1 DEF Inv, Local, Beyond, Answered
  <2> QED BY <1>3, <2>1, <2>2 DEF Local, Held, Valid, Beyond, Answered, Writing
<1> QED BY <1>1, <1>2, <1>4 DEF Inv

LEMMA LockKeeps ==
  ASSUME Inv, TypeOK', NEW c \in Appends, LockStream(c)
  PROVE  Inv'
<1> PICK s \in todo[c] : /\ IsNext(c, s) /\ LockIsFree(c, s)
                         /\ holder' = [holder EXCEPT ![key[s]] = c]
                         /\ todo' = [todo EXCEPT ![c] = @ \ {s}]
  BY DEF LockStream
<1>1. /\ UNCHANGED << key, log, delivery, frontier, frontierOwner, phase, expected, entries,
                      written, positioned, answer >>
      /\ phase[c] = "Locking"
  BY DEF LockStream, tables, request
<1>2. /\ s \in Streams /\ key \in [Streams -> Keys] /\ DOMAIN holder = Keys
      /\ DOMAIN todo = Appends /\ None \notin Appends /\ Declared(c) \subseteq Streams
  BY DEF Inv, TypeOK
<1>3. \A k \in Keys : holder[k] \in Appends => holder'[k] = holder[k]
  BY <1>2 DEF LockIsFree
<1>4. \A d \in Appends \ {c} : Local(d)'
  <2> SUFFICES ASSUME NEW d \in Appends \ {c} PROVE Local(d)'
    OBVIOUS
  <2>1. \A t \in Declared(d) : holder[key[t]] = d => holder'[key[t]] = d
    <3>1. \A t \in Declared(d) : key[t] \in Keys
      BY <1>2 DEF Inv, TypeOK
    <3> QED BY <1>3, <3>1
  <2>2. todo'[d] = todo[d]
    BY <1>2
  <2> QED BY <1>1, <2>1, <2>2, Undisturbed
<1>5. Local(c)'
  <2>1. \A t \in Declared(c) \ todo'[c] : holder'[key[t]] = c
    BY <1>1, <1>2, <1>3 DEF Inv, Local, Held
  <2> QED BY <1>1, <2>1 DEF Inv, Local, Held, Valid, Beyond, Answered, Writing, Declared
<1> QED BY <1>1, <1>4, <1>5 DEF Inv

LEMMA ValidateKeeps ==
  ASSUME Inv, TypeOK', NEW c \in Appends, Validate(c)
  PROVE  Inv'
<1> PICK s \in todo[c] :
      IF Len(log[s]) # expected[c][s]
      THEN Abort(c, "conflict")
      ELSE /\ todo' = [todo EXCEPT ![c] = @ \ {s}]
           /\ UNCHANGED << key, tables, clock, locks, phase, request, written, drawn,
                           positioned, answer >>
  BY DEF Validate
<1>1. CASE Len(log[s]) # expected[c][s]
  BY <1>1, AbortKeeps
<1>2. CASE Len(log[s]) = expected[c][s]
  <2>1. /\ phase[c] = "Validating" /\ todo' = [todo EXCEPT ![c] = @ \ {s}]
        /\ UNCHANGED << key, log, delivery, frontier, holder, frontierOwner, phase, expected,
                        entries, written, positioned, answer >>
        /\ DOMAIN todo = Appends
    BY <1>2 DEF Validate, tables, locks, request, Inv, TypeOK
  <2>2. \A d \in Appends \ {c} : Local(d)'
    BY <2>1, Undisturbed
  <2>3. Local(c)'
    BY <1>2, <2>1 DEF Inv, Local, Held, Valid, Beyond, Answered, Writing, Declared
  <2> QED BY <2>1, <2>2, <2>3 DEF Inv
<1> QED BY <1>1, <1>2

(***************************************************************************)
(* The trigger accepts: all versions are still current.                    *)
(***************************************************************************)
LEMMA InsertAccepted ==
  ASSUME Inv, NEW c \in Appends, phase[c] = "Inserting"
  PROVE  TriggerAccepts(c)
<1>1. Chunk(c) \subseteq DOMAIN entries[c]
  BY TypeSplit, ChunkBounds DEF Inv
<1>2. /\ \A i \in DOMAIN entries[c] : entries[c][i] \in Declared(c)
      /\ \A s \in Declared(c) : Len(log[s]) = expected[c][s]
  BY DEF Inv, TypeOK, Local, Valid, Writing
<1> QED BY <1>1, <1>2 DEF TriggerAccepts

LEMMA AssignKeeps ==
  ASSUME Inv, TypeOK', NEW c \in Appends, AssignPositions(c)
  PROVE  Inv'
<1>1. /\ UNCHANGED << key, log, delivery, frontier, holder, expected, entries, todo, answer >>
      /\ phase[c] = "Positioning" /\ frontierOwner \in {None, c} /\ frontierOwner' = c
      /\ written' = [written EXCEPT ![c] = ChunkEnd(c)]
      /\ phase' = [phase EXCEPT ![c] = IF ChunkEnd(c) = Len(entries[c]) THEN "Committing"
                                                                      ELSE "Drawing"]
  BY DEF AssignPositions, FrontierIsFree, Goto, tables, request
<1>2. /\ ChunkEnd(c) \in written[c]..Len(entries[c]) /\ written[c] \in Nat
      /\ Len(entries[c]) \in Nat /\ frontier \in Nat
      /\ DOMAIN written = Appends /\ DOMAIN phase = Appends /\ DOMAIN positioned = Appends
      /\ positioned[c] \in SUBSET DeliveryRow
  <2>1. ChunkEnd(c) \in written[c]..Len(entries[c])
    BY TypeSplit, ChunkBounds DEF Inv
  <2>2. written[c] \in Nat /\ Len(entries[c]) \in Nat /\ frontier \in Nat
    BY DEF Inv, TypeOK
  <2>3. /\ DOMAIN written = Appends /\ DOMAIN phase = Appends /\ DOMAIN positioned = Appends
        /\ positioned[c] \in SUBSET DeliveryRow
    BY DEF Inv, TypeOK
  <2> QED BY <2>1, <2>2, <2>3
<1>3. \A d \in Appends \ {c} : Local(d)'
  <2> SUFFICES ASSUME NEW d \in Appends \ {c} PROVE Local(d)'
    OBVIOUS
  <2>1. frontierOwner # d
    BY <1>1
  <2>2. positioned'[d] = positioned[d] /\ phase'[d] = phase[d] /\ written'[d] = written[d]
    BY <1>1, <1>2 DEF AssignPositions
  <2> QED BY <1>1, <2>1, <2>2, Undisturbed
<1>4. ASSUME NEW r \in positioned'[c]
      PROVE  frontier < r.position /\ r.position <= frontier + written'[c]
  <2>1. CASE r \in positioned[c]
    <3>1. r.position \in Nat
      BY <1>2, <2>1 DEF DeliveryRow
    <3>2. frontier < r.position /\ r.position <= frontier + written[c]
      BY <2>1 DEF Inv, Local, Beyond
    <3> QED BY <1>1, <1>2, <3>1, <3>2
  <2>2. CASE r \notin positioned[c]
    <3>1. PICK i \in Chunk(c) : r.position = PositionOf(c, i)
      BY <1>2, <1>4, <2>2 DEF AssignPositions
    <3>2. r.position \in (frontier + written[c] + 1)..(frontier + ChunkEnd(c))
      BY <3>1, TypeSplit, Positions DEF Inv
    <3> QED BY <1>1, <1>2, <3>2
  <2> QED BY <2>1, <2>2
<1>5. Beyond(c)'
  BY <1>1, <1>2, <1>4 DEF Beyond
<1>6. Held(c)' /\ Valid(c)' /\ Answered(c)'
  BY <1>1, <1>2 DEF Inv, Local, Held, Valid, Answered, Writing, Declared
<1> QED BY <1>1, <1>3, <1>5, <1>6 DEF Inv, Local

(***************************************************************************)
(* The transaction ends: it gives back its locks.                          *)
(***************************************************************************)
LEMMA EndKeeps ==
  ASSUME Inv, TypeOK', NEW c \in Appends, Commit(c) \/ Rollback(c)
  PROVE  Inv'
<1>1. /\ UNCHANGED << key, expected, entries, todo, written >>
      /\ holder' = [k \in Keys |-> IF holder[k] = c THEN None ELSE holder[k]]
      /\ frontierOwner' = IF frontierOwner = c THEN None ELSE frontierOwner
      /\ positioned' = [positioned EXCEPT ![c] = {}]
      /\ phase' = [phase EXCEPT ![c] = "Returned"]
      /\ phase[c] \in {"Committing", "Aborting"}
      /\ \/ answer' = answer
         \/ \E a \in {"ok", "failed"} : answer' = [answer EXCEPT ![c] = a]
  BY DEF Commit, Rollback, EndTransaction, Goto, Respond, request
<1>2. /\ DOMAIN phase = Appends /\ DOMAIN positioned = Appends /\ DOMAIN answer = Appends
      /\ key \in [Streams -> Keys] /\ frontier \in Nat
      /\ \A d \in Appends : Declared(d) \subseteq Streams
  BY DEF Inv, TypeOK
<1>3. frontier' >= frontier /\ (frontierOwner # c => frontier' = frontier)
  <2>1. CASE Rollback(c)
    BY <1>2, <2>1 DEF Rollback, tables
  <2>2. CASE Commit(c)
    <3>1. frontier' = frontier + Len(entries[c]) /\ Len(entries[c]) \in Nat
      BY <2>2 DEF Commit, Inv, TypeOK
    <3>2. frontierOwner = c
      BY <2>2 DEF Commit, Inv, Local, Beyond
    <3> QED BY <1>2, <3>1, <3>2
  <2> QED BY <2>1, <2>2
<1>4. \A s \in Streams : holder[key[s]] # c => Len(log'[s]) = Len(log[s])
  <2>1. CASE Rollback(c)
    BY <2>1 DEF Rollback, tables
  <2>2. CASE Commit(c)
    <3>1. \A s \in Declared(c) : holder[key[s]] = c
      BY <2>2 DEF Commit, Inv, Local, Held, Writing
    <3>2. \A s \in Streams \ Declared(c) : Len(log'[s]) = Len(log[s])
      BY <2>2, TypeSplit, CommitExtends DEF Commit, Inv
    <3> QED BY <3>1, <3>2
  <2> QED BY <1>1, <2>1, <2>2
<1>5. \A d \in Appends \ {c} : Local(d)'
  <2> SUFFICES ASSUME NEW d \in Appends \ {c} PROVE Local(d)'
    OBVIOUS
  <2>1. \A s \in Declared(d) : holder[key[s]] = d =>
          holder'[key[s]] = d /\ Len(log'[s]) = Len(log[s])
    <3>1. \A s \in Declared(d) : s \in Streams /\ key[s] \in Keys
      BY <1>2
    <3> QED BY <1>1, <1>4, <3>1
  <2>2. frontierOwner = d => frontierOwner' = d /\ frontier' = frontier
    BY <1>1, <1>3
  <2>3. /\ phase'[d] = phase[d] /\ positioned'[d] = positioned[d] /\ answer'[d] = answer[d]
    BY <1>1, <1>2
  <2> QED BY <1>1, <2>1, <2>2, <2>3, Undisturbed
<1>6. Local(c)'
  <2>1. answer'[c] # "rejected"
    BY <1>1, <1>2 DEF Inv, Local, Answered
  <2>2. phase'[c] = "Returned" /\ positioned'[c] = {}
    BY <1>1, <1>2
  <2> QED BY <2>1, <2>2 DEF Local, Held, Valid, Beyond, Answered, Writing
<1>7. ASSUME NEW r \in delivery' PROVE r.position <= frontier'
  <2>1. CASE r \in delivery
    <3>1. r.position <= frontier /\ r.position \in Nat
      BY <2>1 DEF Inv, TypeOK, DeliveryRow
    <3>2. frontier' \in Nat
      BY DEF TypeOK
    <3> QED BY <1>2, <1>3, <3>1, <3>2
  <2>2. CASE r \notin delivery
    <3>1. Commit(c) /\ r \in positioned[c] /\ frontier' = frontier + Len(entries[c])
      BY <1>7, <2>2 DEF Commit, Rollback, tables
    <3>2. r.position <= frontier + Len(entries[c])
      BY <3>1 DEF Commit, Inv, Local, Beyond
    <3> QED BY <3>1, <3>2
  <2> QED BY <2>1, <2>2
<1> QED BY <1>5, <1>6, <1>7 DEF Inv

(***************************************************************************)
(* The invariant holds throughout: locks and checks stay in force until    *)
(* the transaction ends.                                                   *)
(***************************************************************************)
LEMMA StepKeeps ==
  ASSUME Inv, TypeOK', NEW c \in Appends, Submit(c) \/ Step(c) \/ Fail(c)
  PROVE  Inv'
<1>1. CASE Submit(c)
  BY <1>1, SubmitKeeps
<1>2. CASE Fail(c) \/ DeadlockDetected(c)
  BY <1>2, AbortKeeps DEF Fail, DeadlockDetected
<1>3. CASE EmptyBatch(c) \/ Begin(c) \/ AllLocked(c) \/ AllValid(c) \/ DrawIds(c)
  BY <1>3, ProceedKeeps
<1>4. CASE InsertRows(c)
  <2>1. phase[c] = "Inserting"
    BY <1>4 DEF InsertRows
  <2>2. TriggerAccepts(c)
    BY <2>1, InsertAccepted
  <2>3. Goto(c, "Positioning") /\ UNCHANGED << locals, answer >>
    BY <1>4, <2>2 DEF InsertRows
  <2> QED BY <1>4, <2>3, ProceedKeeps
<1>5. CASE LockStream(c)
  BY <1>5, LockKeeps
<1>6. CASE Validate(c)
  BY <1>6, ValidateKeeps
<1>7. CASE AssignPositions(c)
  BY <1>7, AssignKeeps
<1>8. CASE Commit(c) \/ Rollback(c)
  BY <1>8, EndKeeps
<1> QED BY <1>1, <1>2, <1>3, <1>4, <1>5, <1>6, <1>7, <1>8 DEF Step

THEOREM Invariance == Spec => []Inv
<1>1. Init /\ TypeOK => Inv
  BY DEF Init, Inv, Local, Held, Valid, Beyond, Answered, Writing, Declared
<1>2. Inv /\ TypeOK' /\ [Next]_vars => Inv'
  <2> SUFFICES ASSUME Inv, TypeOK', [Next]_vars PROVE Inv'
    OBVIOUS
  <2>1. CASE UNCHANGED vars \/ AllReturned
    BY <2>1 DEF Inv, Local, Held, Valid, Beyond, Answered, Writing, Declared, AllReturned,
                vars, tables, locks, request, locals
  <2> QED BY <2>1, StepKeeps DEF Next
<1> QED BY <1>1, <1>2, TypeCorrect, PTL DEF Spec

(***************************************************************************)
(* The advisory locks suffice: no append is ever rejected by the trigger.  *)
(***************************************************************************)
THEOREM LocksSuffice == Spec => []TriggerNeverRejects
<1>1. Inv => TriggerNeverRejects
  BY DEF Inv, Local, Answered, TriggerNeverRejects
<1> QED BY <1>1, Invariance, PTL

(***************************************************************************)
(* A reader of the delivery source that remembers a position never misses  *)
(* an event that is committed later.                                       *)
(***************************************************************************)
THEOREM SourceSkipsNothing == Spec => VisibleInPositionOrder
<1> DEFINE InOrder ==
      \A q \in delivery : \A r \in delivery' \ delivery : q.position < r.position
<1>1. Inv /\ [Next]_vars => [InOrder]_vars
  <2> SUFFICES ASSUME Inv, Next, NEW q \in delivery, NEW r \in delivery' \ delivery
               PROVE  q.position < r.position
    OBVIOUS
  <2>1. PICK c \in Appends : r \in positioned[c]
    BY DEF Next, AllReturned, Submit, Step, EmptyBatch, Begin, LockStream, AllLocked,
           Validate, AllValid, DrawIds, InsertRows, AssignPositions, Commit, Rollback,
           DeadlockDetected, Fail, Abort, vars, tables
  <2>2. /\ q.position <= frontier /\ frontier < r.position
        /\ q.position \in Nat /\ r.position \in Nat /\ frontier \in Nat
    BY <2>1 DEF Inv, TypeOK, DeliveryRow, Local, Beyond
  <2> QED BY <2>2
<1> QED BY <1>1, Invariance, PTL DEF Spec, VisibleInPositionOrder

-------------------------------------------------------------------------------
(***************************************************************************)
(* The refinement.  No answer is ever "rejected", so what a call reports   *)
(* is its answer.                                                          *)
(***************************************************************************)
LEMMA ReportedIsAnswer ==
  /\ Inv => Reported = answer
  /\ Inv' => Reported' = answer'
BY DEF Inv, TypeOK, Local, Answered, Reported

LEMMA Refusal ==
  ASSUME Inv, Inv', NEW c \in Appends, NEW a \in {"ok", "conflict", "failed"},
         answer[c] = "none", answer' = [answer EXCEPT ![c] = a],
         UNCHANGED << log, expected, entries >>,
         \/ a = "conflict" /\ \E s \in Declared(c) : Len(log[s]) # expected[c][s]
         \/ a = "failed"
         \/ a = "ok" /\ entries[c] = << >>
  PROVE  Atomic!Refuse(c)
<1>1. Reported = answer /\ Reported' = answer'
  BY ReportedIsAnswer
<1> QED BY <1>1 DEF Atomic!Refuse, Atomic!Current, Atomic!Declared, Declared

LEMMA SubmitRefines ==
  ASSUME Inv, Inv', NEW c \in Appends, Submit(c)
  PROVE  Atomic!Submit(c)
<1>1. Reported = answer /\ Reported' = answer'
  BY ReportedIsAnswer
<1>2. PICK q \in Requests : \E v \in Past(q.declared) :
        /\ expected' = [expected EXCEPT ![c] = v]
        /\ entries' = [entries EXCEPT ![c] = q.entries]
  BY DEF Submit
<1>3. phase[c] = "Idle" /\ UNCHANGED << log, answer >>
  BY DEF Submit, tables
<1>4. answer[c] = "none" /\ expected[c] = Atomic!NoStreams
  BY <1>3 DEF Inv, Local, Answered, NoStreams, Atomic!NoStreams
<1>5. q.declared \in SUBSET Streams /\ q.entries \in Seq(Streams)
  BY RequestsAssumption
<1>6. \E D \in SUBSET Streams : \E v \in Atomic!Past(D) :
        expected' = [expected EXCEPT ![c] = v]
  BY <1>2, <1>5 DEF Past, Atomic!Past
<1>7. entries' = [entries EXCEPT ![c] = entries'[c]] /\ entries'[c] \in Seq(Streams)
  BY <1>2, <1>5 DEF Inv, TypeOK
<1> QED BY <1>1, <1>3, <1>4, <1>6, <1>7 DEF Atomic!Submit

LEMMA CommitRefines ==
  ASSUME Inv, Inv', NEW c \in Appends, Commit(c)
  PROVE  Atomic!Land(c)
<1>1. Reported = answer /\ Reported' = answer'
  BY ReportedIsAnswer
<1>2. /\ answer[c] = "none"
      /\ \A s \in Declared(c) : Len(log[s]) = expected[c][s]
  BY DEF Commit, Inv, Local, Valid, Answered, Writing
<1>3. Atomic!Current(c)
  BY <1>2 DEF Atomic!Current, Atomic!Declared, Declared
<1>4. log' = Atomic!Extended(c)
  <2>1. \A s \in Streams : Atomic!Count(c, s) = Count(c, s)
    BY Zenon DEF Count, Atomic!Count, Cardinality, Atomic!Cardinality, IsFiniteSet,
                 Atomic!IsFiniteSet
  <2>2. Atomic!Extended(c) = Extended(c)
    BY <2>1 DEF Extended, Atomic!Extended
  <2> QED BY <2>2 DEF Commit
<1>5. /\ \E a \in {"ok", "failed"} : answer' = [answer EXCEPT ![c] = a]
      /\ UNCHANGED << expected, entries >>
  BY DEF Commit, Respond, EndTransaction, request
<1> QED BY <1>1, <1>2, <1>3, <1>4, <1>5 DEF Atomic!Land

LEMMA StepRefines ==
  ASSUME Inv, Inv', NEW c \in Appends, Submit(c) \/ Step(c) \/ Fail(c)
  PROVE  [Atomic!Next]_(Atomic!vars)
<1>1. Reported = answer /\ Reported' = answer'
  BY ReportedIsAnswer
<1>2. CASE Submit(c)
  BY <1>2, SubmitRefines DEF Atomic!Next
<1>3. CASE Commit(c)
  BY <1>3, CommitRefines DEF Atomic!Next
<1>4. CASE Fail(c) \/ DeadlockDetected(c)
  <2>1. /\ answer' = [answer EXCEPT ![c] = "failed"] /\ UNCHANGED << log, expected, entries >>
    BY <1>4 DEF Fail, DeadlockDetected, Abort, Respond, tables, request
  <2>2. answer[c] = "none"
    <3>1. phase[c] \notin {"Aborting", "Returned"}
      BY <1>4 DEF Fail, InTransaction, DeadlockDetected, IsWaitCycle, WaitsFor
    <3> QED BY <3>1 DEF Inv, Local, Answered
  <2> QED BY <2>1, <2>2, Refusal DEF Atomic!Next
<1>5. CASE EmptyBatch(c)
  <2>1. /\ answer' = [answer EXCEPT ![c] = "ok"] /\ entries[c] = << >>
        /\ UNCHANGED << log, expected, entries >> /\ phase[c] = "Begin"
    BY <1>5 DEF EmptyBatch, Respond, tables, request
  <2>2. answer[c] = "none"
    BY <2>1 DEF Inv, Local, Answered
  <2> QED BY <2>1, <2>2, Refusal DEF Atomic!Next
<1>6. CASE Validate(c)
  <2>1. phase[c] = "Validating" /\ answer[c] = "none"
    BY <1>6 DEF Validate, Inv, Local, Answered
  <2>2. \/ UNCHANGED << log, expected, entries, answer >>
        \/ /\ \E s \in Declared(c) : Len(log[s]) # expected[c][s]
           /\ answer' = [answer EXCEPT ![c] = "conflict"]
           /\ UNCHANGED << log, expected, entries >>
    BY <1>6 DEF Validate, Abort, Respond, Inv, TypeOK, tables, request
  <2>3. CASE UNCHANGED << log, expected, entries, answer >>
    BY <1>1, <2>3 DEF Atomic!vars
  <2> QED BY <2>1, <2>2, <2>3, Refusal DEF Atomic!Next
<1>7. CASE InsertRows(c)
  <2>1. TriggerAccepts(c)
    BY <1>7, InsertAccepted DEF InsertRows
  <2>2. UNCHANGED << log, expected, entries, answer >>
    BY <1>7, <2>1 DEF InsertRows, tables, request
  <2> QED BY <1>1, <2>2 DEF Atomic!vars
<1>8. CASE \/ Begin(c) \/ LockStream(c) \/ AllLocked(c) \/ AllValid(c) \/ DrawIds(c)
           \/ AssignPositions(c) \/ Rollback(c)
  <2>1. UNCHANGED << log, expected, entries, answer >>
    BY <1>8 DEF Begin, LockStream, AllLocked, AllValid, DrawIds, AssignPositions, Rollback,
                EndTransaction, tables, request
  <2> QED BY <1>1, <2>1 DEF Atomic!vars
<1> QED BY <1>2, <1>3, <1>4, <1>5, <1>6, <1>7, <1>8 DEF Step

(***************************************************************************)
(* An append, although a series of statements, is atomic.                  *)
(***************************************************************************)
THEOREM ImplementsAtomicAppend == Spec => AppendsAreAtomic
<1>1. Init /\ Inv => Atomic!Init
  <2>1. Inv => Reported = answer
    BY ReportedIsAnswer
  <2> QED BY <2>1 DEF Init, NoStreams, Atomic!Init, Atomic!NoStreams
<1>2. Inv /\ Inv' /\ [Next]_vars => [Atomic!Next]_(Atomic!vars)
  <2> SUFFICES ASSUME Inv, Inv', [Next]_vars PROVE [Atomic!Next]_(Atomic!vars)
    OBVIOUS
  <2>1. CASE UNCHANGED vars \/ AllReturned
    <3>1. UNCHANGED << log, expected, entries, answer >>
      BY <2>1 DEF AllReturned, vars, tables, request
    <3> QED BY <3>1, ReportedIsAnswer DEF Atomic!vars
  <2> QED BY <2>1, StepRefines DEF Next
<1> QED BY <1>1, <1>2, Invariance, PTL DEF Spec, AppendsAreAtomic, Atomic!Spec

-------------------------------------------------------------------------------
(***************************************************************************)
(* Proofs about two orders in the PostgreSQL store, for any number of      *)
(* appends.  Locks are taken in the order of stream names: appends wait    *)
(* for one another in a cycle only if two names have one hash.  And the    *)
(* delivery sequence is dense: it numbers the committed events 1, 2, ...   *)
(* without gap or repetition and in the order of versions, whatever the    *)
(* chunk size and however appends interleave, fail and collide.            *)
(*                                                                         *)
(* A transaction holds a lock only on behalf of a stream it declared, and  *)
(* while it is locking that stream precedes all it has still to lock.  The *)
(* frontier's owner has all its advisory locks.                            *)
(***************************************************************************)
Passed(c, s) == phase[c] = "Locking" => s \notin todo[c] /\ \A t \in todo[c] : s < t

LocksInOrder(c) ==
  /\ \A k \in Keys : holder[k] = c =>
       /\ phase[c] \notin {"Idle", "Begin", "Returned"}
       /\ \E s \in Declared(c) : key[s] = k /\ Passed(c, s)
  /\ frontierOwner = c => phase[c] \notin {"Idle", "Begin", "Locking", "Returned"}

LockOrder == \A c \in Appends : LocksInOrder(c)

-------------------------------------------------------------------------------
(***************************************************************************)
(* A call whose locals stay and which gains no lock stays in order.        *)
(***************************************************************************)
LEMMA OthersStayInOrder ==
  ASSUME LockOrder, NEW d \in Appends, key' = key,
         phase'[d] = phase[d], expected'[d] = expected[d], todo'[d] = todo[d],
         \A k \in Keys : holder'[k] = d => holder[k] = d,
         frontierOwner' = d => frontierOwner = d
  PROVE  LocksInOrder(d)'
BY DEF LockOrder, LocksInOrder, Passed, Declared

(***************************************************************************)
(* A step of a call that takes no lock, and is not locking afterwards or   *)
(* was not before, leaves it in order.                                     *)
(***************************************************************************)
LEMMA QuietStep ==
  ASSUME TypeOK, LockOrder, NEW c \in Appends, NEW p, UNCHANGED << key, locks, expected >>,
         phase' = [phase EXCEPT ![c] = p],
         \A d \in Appends \ {c} : todo'[d] = todo[d],
         \/ phase[c] \in {"Idle", "Begin"}
         \/ p \notin {"Idle", "Begin", "Locking", "Returned"}
  PROVE  LockOrder'
<1>1. /\ UNCHANGED << holder, frontierOwner >> /\ phase'[c] = p
      /\ \A d \in Appends \ {c} : phase'[d] = phase[d]
  BY DEF locks, TypeOK
<1>2. \A d \in Appends \ {c} : LocksInOrder(d)'
  BY <1>1, OthersStayInOrder
<1>3. LocksInOrder(c)
  BY DEF LockOrder
<1>4. LocksInOrder(c)'
  BY <1>1, <1>3 DEF LocksInOrder, Passed, Declared
<1> QED BY <1>2, <1>4 DEF LockOrder

(***************************************************************************)
(* Submission: nothing is held yet.                                        *)
(***************************************************************************)
LEMMA SubmitInOrder ==
  ASSUME TypeOK, LockOrder, NEW c \in Appends, Submit(c)
  PROVE  LockOrder'
<1>1. /\ UNCHANGED << key, holder, frontierOwner >> /\ phase[c] = "Idle"
      /\ \A d \in Appends \ {c} : /\ phase'[d] = phase[d] /\ expected'[d] = expected[d]
                                  /\ todo'[d] = todo[d]
  BY DEF Submit, Goto, locks, TypeOK
<1>2. \A d \in Appends \ {c} : LocksInOrder(d)'
  BY <1>1, OthersStayInOrder
<1>3. LocksInOrder(c)'
  BY <1>1 DEF LockOrder, LocksInOrder
<1> QED BY <1>2, <1>3 DEF LockOrder

(***************************************************************************)
(* A lock is taken: its stream is the least one left, so it precedes the   *)
(* others.                                                                 *)
(***************************************************************************)
LEMMA LockInOrder ==
  ASSUME TypeOK, LockOrder, NEW c \in Appends, LockStream(c)
  PROVE  LockOrder'
<1> PICK s \in todo[c] : /\ IsNext(c, s) /\ LockIsFree(c, s)
                         /\ holder' = [holder EXCEPT ![key[s]] = c]
                         /\ todo' = [todo EXCEPT ![c] = @ \ {s}]
  BY DEF LockStream
<1>1. /\ UNCHANGED << key, frontierOwner, phase, expected >> /\ phase[c] = "Locking"
  BY DEF LockStream, request
<1>2. /\ DOMAIN todo = Appends /\ DOMAIN holder = Keys /\ todo[c] \subseteq Streams
      /\ s \in Declared(c)
  BY DEF TypeOK
<1>3. \A d \in Appends \ {c} : LocksInOrder(d)'
  BY <1>1, <1>2, OthersStayInOrder
<1>4. todo'[c] = todo[c] \ {s}
  BY <1>2
<1>5. Passed(c, s)'
  <2>1. ASSUME NEW t \in todo'[c] PROVE s < t
    <3>1. t \in todo[c] /\ t # s /\ s <= t
      BY <1>4 DEF IsNext
    <3>2. s \in Nat /\ t \in Nat
      BY <1>2, <3>1
    <3> QED BY <3>1, <3>2
  <2> QED BY <1>4, <2>1 DEF Passed
<1>6. ASSUME NEW k \in Keys, holder'[k] = c
      PROVE  \E t \in Declared(c) : key[t] = k /\ Passed(c, t)'
  <2>1. CASE k = key[s]
    BY <1>2, <1>5, <2>1
  <2>2. CASE k # key[s]
    <3>1. PICK t \in Declared(c) : key[t] = k /\ Passed(c, t)
      BY <1>2, <1>6, <2>2 DEF LockOrder, LocksInOrder
    <3>2. Passed(c, t)'
      BY <1>1, <1>4, <3>1 DEF Passed
    <3> QED BY <3>1, <3>2
  <2> QED BY <2>1, <2>2
<1>7. LocksInOrder(c)'
  BY <1>1, <1>6 DEF LockOrder, LocksInOrder, Declared
<1> QED BY <1>3, <1>7 DEF LockOrder

LEMMA AssignInOrder ==
  ASSUME TypeOK, LockOrder, NEW c \in Appends, AssignPositions(c)
  PROVE  LockOrder'
<1>1. /\ UNCHANGED << key, holder, expected, todo >> /\ phase[c] = "Positioning"
      /\ frontierOwner' = c /\ phase'[c] \in {"Drawing", "Committing"}
      /\ \A d \in Appends \ {c} : phase'[d] = phase[d]
  BY DEF AssignPositions, Goto, request, TypeOK
<1>2. \A d \in Appends \ {c} : LocksInOrder(d)'
  BY <1>1, OthersStayInOrder
<1>3. LocksInOrder(c)'
  BY <1>1 DEF LockOrder, LocksInOrder, Passed, Declared
<1> QED BY <1>2, <1>3 DEF LockOrder

LEMMA EndInOrder ==
  ASSUME TypeOK, LockOrder, NEW c \in Appends, EndTransaction(c)
  PROVE  LockOrder'
<1>1. /\ UNCHANGED << key, expected, todo >>
      /\ holder' = [k \in Keys |-> IF holder[k] = c THEN None ELSE holder[k]]
      /\ frontierOwner' = IF frontierOwner = c THEN None ELSE frontierOwner
      /\ \A d \in Appends \ {c} : phase'[d] = phase[d]
  BY DEF EndTransaction, Goto, request, TypeOK
<1>2. None \notin Appends
  OBVIOUS
<1>3. \A d \in Appends \ {c} : LocksInOrder(d)'
  BY <1>1, <1>2, OthersStayInOrder
<1>4. LocksInOrder(c)'
  BY <1>1, <1>2 DEF LocksInOrder
<1> QED BY <1>3, <1>4 DEF LockOrder

LEMMA StepInOrder ==
  ASSUME TypeOK, LockOrder, NEW c \in Appends, Submit(c) \/ Step(c) \/ Fail(c)
  PROVE  LockOrder'
<1>1. CASE Submit(c)
  BY <1>1, SubmitInOrder
<1>2. CASE \E a \in Answers : Abort(c, a)
  <2>1. /\ UNCHANGED << key, locks, expected, todo >>
        /\ phase' = [phase EXCEPT ![c] = "Aborting"]
    BY <1>2 DEF Abort, Goto, request, locals
  <2> QED BY <2>1, QuietStep
<1>3. CASE Fail(c) \/ DeadlockDetected(c)
  BY <1>2, <1>3 DEF Fail, DeadlockDetected, Answers
<1>4. CASE EmptyBatch(c) \/ Begin(c) \/ AllLocked(c) \/ AllValid(c) \/ DrawIds(c)
  <2>1. /\ UNCHANGED << key, locks, expected >>
        /\ \A d \in Appends \ {c} : todo'[d] = todo[d]
    BY <1>4 DEF EmptyBatch, Begin, AllLocked, AllValid, DrawIds, request, locals, TypeOK
  <2>2. \E p \in Phases : /\ phase' = [phase EXCEPT ![c] = p]
                          /\ \/ phase[c] \in {"Idle", "Begin"}
                             \/ p \notin {"Idle", "Begin", "Locking", "Returned"}
    BY <1>4 DEF EmptyBatch, Begin, AllLocked, AllValid, DrawIds, Goto, Phases
  <2> QED BY <2>1, <2>2, QuietStep
<1>5. CASE InsertRows(c)
  <2>1. CASE TriggerAccepts(c)
    <3>1. /\ UNCHANGED << key, locks, expected, todo >>
          /\ phase' = [phase EXCEPT ![c] = "Positioning"]
      BY <1>5, <2>1 DEF InsertRows, Goto, request, locals
    <3> QED BY <3>1, QuietStep
  <2>2. CASE ~TriggerAccepts(c)
    BY <1>2, <1>5, <2>2 DEF InsertRows, Answers
  <2> QED BY <2>1, <2>2
<1>6. CASE LockStream(c)
  BY <1>6, LockInOrder
<1>7. CASE Validate(c)
  <2>1. \/ Abort(c, "conflict")
        \/ /\ phase[c] = "Validating" /\ UNCHANGED << key, locks, expected, phase >>
           /\ \A d \in Appends \ {c} : todo'[d] = todo[d]
    BY <1>7 DEF Validate, request, TypeOK
  <2>2. ASSUME phase[c] = "Validating", UNCHANGED << key, locks, expected, phase >>,
               \A d \in Appends \ {c} : todo'[d] = todo[d]
        PROVE  LockOrder'
    <3>1. phase' = [phase EXCEPT ![c] = "Validating"]
      BY <2>2 DEF TypeOK
    <3> QED BY <2>2, <3>1, QuietStep
  <2> QED BY <1>2, <2>1, <2>2 DEF Answers
<1>8. CASE AssignPositions(c)
  BY <1>8, AssignInOrder
<1>9. CASE Commit(c) \/ Rollback(c)
  BY <1>9, EndInOrder DEF Commit, Rollback
<1> QED BY <1>1, <1>3, <1>4, <1>5, <1>6, <1>7, <1>8, <1>9 DEF Step

LEMMA OrderIsKept == Spec => []LockOrder
<1>1. Init => LockOrder
  BY DEF Init, LockOrder, LocksInOrder
<1>2. TypeOK /\ LockOrder /\ [Next]_vars => LockOrder'
  <2>1. ASSUME LockOrder, UNCHANGED vars \/ AllReturned PROVE LockOrder'
    BY <2>1 DEF LockOrder, LocksInOrder, Passed, Declared, AllReturned, vars, locks, request,
                locals
  <2> QED BY <2>1, StepInOrder DEF Next
<1> QED BY <1>1, <1>2, TypeCorrect, PTL DEF Spec

-------------------------------------------------------------------------------
(***************************************************************************)
(* Members of a cycle wait for advisory locks: the frontier's owner waits  *)
(* for nobody.                                                             *)
(***************************************************************************)
Awaits(c, s) == phase[c] = "Locking" /\ s \in todo[c] /\ IsNext(c, s)

LEMMA MembersAwaitLocks ==
  ASSUME TypeOK, LockOrder, NEW S \in SUBSET Appends, IsWaitCycle(S), NEW c \in S
  PROVE  phase[c] = "Locking" /\ \E s \in Streams : Awaits(c, s)
<1>1. PICK d \in S : WaitsFor(c, d)
  BY DEF IsWaitCycle
<1>2. PICK e \in S : WaitsFor(d, e)
  BY DEF IsWaitCycle
<1>3. frontierOwner # d
  <2> SUFFICES ASSUME frontierOwner = d PROVE FALSE
    OBVIOUS
  <2>1. phase[d] # "Locking"
    BY DEF LockOrder, LocksInOrder
  <2> QED BY <1>2, <2>1 DEF WaitsFor
<1>4. PICK s \in todo[c] : phase[c] = "Locking" /\ IsNext(c, s)
  BY <1>1, <1>3 DEF WaitsFor
<1>5. s \in Streams
  BY <1>4 DEF TypeOK
<1> QED BY <1>4, <1>5 DEF Awaits

(***************************************************************************)
(* Without a collision there is no cycle: the member that awaits the least *)
(* stream is awaited for a lock it took on behalf of a smaller one.        *)
(***************************************************************************)
THEOREM NameOrderPreventsDeadlock == Spec => []OnlyCollisionsDeadlock
<1>1. TypeOK /\ LockOrder => OnlyCollisionsDeadlock
  <2> SUFFICES ASSUME TypeOK, LockOrder, NEW S \in SUBSET Appends, IsWaitCycle(S),
                      \A s, t \in Streams : key[s] = key[t] => s = t
               PROVE  FALSE
    BY DEF OnlyCollisionsDeadlock
  <2> DEFINE awaited == { s \in Streams : \E c \in S : Awaits(c, s) }
  <2>1. awaited # {}
    <3>1. S # {}
      BY DEF IsWaitCycle
    <3> QED BY <3>1, MembersAwaitLocks
  <2>2. awaited \in SUBSET Nat
    OBVIOUS
  <2>3. PICK s \in awaited : \A t \in awaited : s <= t
    <3> HIDE DEF awaited
    <3> QED BY <2>1, <2>2, LeastNatural
  <2>4. PICK c \in S : Awaits(c, s)
    OBVIOUS
  <2>5. PICK d \in S : WaitsFor(d, c)
    BY DEF IsWaitCycle
  <2>6. PICK t \in todo[d] : Awaits(d, t) /\ holder[key[t]] = c
    BY <2>5, MembersAwaitLocks DEF WaitsFor, Awaits
  <2>7. t \in Streams /\ key[t] \in Keys
    BY <2>6 DEF TypeOK
  <2>8. PICK u \in Declared(c) : key[u] = key[t] /\ Passed(c, u)
    BY <2>6, <2>7 DEF LockOrder, LocksInOrder
  <2>9. u \in Streams /\ u < s
    BY <2>4, <2>8 DEF Passed, Awaits, TypeOK
  <2>10. t = u /\ s <= t
    BY <2>3, <2>6, <2>7, <2>8, <2>9
  <2> QED BY <2>9, <2>10
<1> QED BY <1>1, TypeCorrect, OrderIsKept, PTL

-------------------------------------------------------------------------------
(***************************************************************************)
(* The entries of one stream, and their versions: beyond the committed     *)
(* ones, in order, without a gap.                                          *)
(***************************************************************************)
EntriesOf(c, s) == { i \in DOMAIN entries[c] : entries[c][i] = s }

ByIndex == { p \in Nat \X Nat : p[1] <= p[2] }

LEMMA EntriesAreOrdered ==
  ASSUME Types, NEW c \in Appends, NEW s
  PROVE  /\ EntriesOf(c, s) \in SUBSET Nat
         /\ IsFiniteSet(EntriesOf(c, s))
         /\ IsLinearOrder(ByIndex, EntriesOf(c, s))
         /\ Cardinality(EntriesOf(c, s)) = Count(c, s)
<1>1. DOMAIN entries[c] = 1..Len(entries[c]) /\ Len(entries[c]) \in Nat
  BY DEF Types
<1>2. EntriesOf(c, s) \in SUBSET (1..Len(entries[c]))
  BY <1>1 DEF EntriesOf
<1>3. IsFiniteSet(EntriesOf(c, s))
  <2>1. IsFiniteSet(1..Len(entries[c]))
    BY <1>1, FS_Interval
  <2> QED BY <1>2, <2>1, FS_Subset
<1>4. EntriesOf(c, s) \in SUBSET Nat
  BY <1>1, <1>2
<1>5. IsLinearOrder(ByIndex, EntriesOf(c, s))
  BY <1>4 DEF IsLinearOrder, ByIndex
<1> QED BY <1>3, <1>4, <1>5 DEF Count, EntriesOf

LEMMA VersionIsRank ==
  ASSUME Types, NEW c \in Appends, NEW s, NEW i \in EntriesOf(c, s)
  PROVE  VersionOf(c, i) = Len(log[s]) + Cardinality(Below(ByIndex, EntriesOf(c, s), i))
<1>1. { j \in 1..i : entries[c][j] = entries[c][i] } = Below(ByIndex, EntriesOf(c, s), i)
  BY DEF Below, ByIndex, EntriesOf, Types
<1>2. entries[c][i] = s
  BY DEF EntriesOf
<1> QED BY <1>1, <1>2 DEF VersionOf

LEMMA Versions ==
  ASSUME Types, NEW c \in Appends, NEW s \in Streams
  PROVE  /\ \A i \in EntriesOf(c, s) :
              VersionOf(c, i) \in Len(log[s]) + 1 .. Len(log[s]) + Count(c, s)
         /\ \A v \in Len(log[s]) + 1 .. Len(log[s]) + Count(c, s) :
              \E i \in EntriesOf(c, s) : VersionOf(c, i) = v
         /\ \A i, j \in EntriesOf(c, s) : i < j => VersionOf(c, i) < VersionOf(c, j)
<1> DEFINE I == EntriesOf(c, s)
           Rank(i) == Cardinality(Below(ByIndex, I, i))
<1>1. /\ I \in SUBSET Nat /\ IsFiniteSet(I) /\ IsLinearOrder(ByIndex, I)
      /\ Cardinality(I) = Count(c, s)
  BY EntriesAreOrdered
<1>2. Len(log[s]) \in Nat /\ Count(c, s) \in Nat
  BY <1>1, FS_CardinalityType DEF Types
<1>3. \A i \in I : VersionOf(c, i) = Len(log[s]) + Rank(i)
  BY VersionIsRank
<1>4. \A i \in I : Rank(i) \in 1..Count(c, s)
  BY <1>1, RankBounds
<1>5. \A n \in 1..Count(c, s) : \E i \in I : Rank(i) = n
  BY <1>1, RanksAreDense
<1>6. \A i, j \in I : i < j => Rank(i) < Rank(j)
  <2> SUFFICES ASSUME NEW i \in I, NEW j \in I, i < j PROVE Rank(i) < Rank(j)
    OBVIOUS
  <2>1. i # j /\ << i, j >> \in ByIndex
    BY <1>1 DEF ByIndex
  <2> QED BY <1>1, <2>1, RankOrder
<1> HIDE DEF I, Rank
<1>7. \A i \in I : VersionOf(c, i) \in Len(log[s]) + 1 .. Len(log[s]) + Count(c, s)
  BY <1>2, <1>3, <1>4
<1>8. ASSUME NEW v \in Len(log[s]) + 1 .. Len(log[s]) + Count(c, s)
      PROVE  \E i \in I : VersionOf(c, i) = v
  <2>1. v - Len(log[s]) \in 1..Count(c, s)
    BY <1>2
  <2>2. PICK i \in I : Rank(i) = v - Len(log[s])
    BY <1>5, <2>1
  <2> QED BY <1>2, <1>3, <2>2
<1>9. \A i, j \in I : i < j => VersionOf(c, i) < VersionOf(c, j)
  BY <1>2, <1>3, <1>4, <1>6
<1> QED BY <1>7, <1>8, <1>9 DEF I

(***************************************************************************)
(* The positions of a chunk: the numbers that follow, in the order of the  *)
(* statement trigger.                                                      *)
(***************************************************************************)
ByTrigger(c) == { p \in Chunk(c) \X Chunk(c) : Precedes(c, p[1], p[2]) }

LEMMA ChunkIsOrdered ==
  ASSUME Types, NEW c \in Appends, Request(c)
  PROVE  /\ IsFiniteSet(Chunk(c))
         /\ Cardinality(Chunk(c)) = ChunkEnd(c) - written[c]
         /\ IsLinearOrder(ByTrigger(c), Chunk(c))
<1>1. /\ ChunkEnd(c) \in Nat /\ written[c] \in Nat /\ written[c] <= ChunkEnd(c)
      /\ Chunk(c) \subseteq Nat
      /\ \A i \in Chunk(c) : entries[c][i] \in Nat
  <2>1. /\ ChunkEnd(c) \in written[c]..Len(entries[c]) /\ written[c] \in Nat
        /\ Len(entries[c]) \in Nat /\ Chunk(c) \subseteq Nat
    BY ChunkBounds DEF Types
  <2>2. \A i \in DOMAIN entries[c] : entries[c][i] \in Nat
    <3>1. entries[c] \in Seq(Streams)
      BY DEF Types
    <3>2. \A i \in DOMAIN entries[c] : entries[c][i] \in Streams
      BY <3>1
    <3> QED BY <3>2
  <2> QED BY <2>1, <2>2, ChunkBounds
<1>2. IsFiniteSet(Chunk(c)) /\ Cardinality(Chunk(c)) = ChunkEnd(c) - written[c]
  <2>1. written[c] + 1 \in Int /\ ChunkEnd(c) \in Int
    BY <1>1
  <2>2. /\ IsFiniteSet(Chunk(c))
        /\ Cardinality(Chunk(c)) =
             IF written[c] + 1 > ChunkEnd(c) THEN 0 ELSE ChunkEnd(c) - (written[c] + 1) + 1
    BY <2>1, FS_Interval DEF Chunk
  <2> QED BY <1>1, <2>2
<1>3. IsLinearOrder(ByTrigger(c), Chunk(c))
  BY <1>1 DEF IsLinearOrder, ByTrigger, Precedes
<1> QED BY <1>2, <1>3

LEMMA ChunkPositions ==
  ASSUME Types, NEW c \in Appends, Request(c)
  PROVE  /\ \A i \in Chunk(c) :
              PositionOf(c, i) \in frontier + written[c] + 1 .. frontier + ChunkEnd(c)
         /\ \A n \in frontier + written[c] + 1 .. frontier + ChunkEnd(c) :
              \E i \in Chunk(c) : PositionOf(c, i) = n
         /\ \A i, j \in Chunk(c) : PositionOf(c, i) = PositionOf(c, j) => i = j
         /\ \A i, j \in Chunk(c) : entries[c][i] = entries[c][j] /\ i < j
              => PositionOf(c, i) < PositionOf(c, j)
<1> DEFINE I == Chunk(c)
           Rank(i) == Cardinality(Below(ByTrigger(c), I, i))
           base == frontier + written[c]
<1>1. /\ IsFiniteSet(I) /\ IsLinearOrder(ByTrigger(c), I)
      /\ Cardinality(I) = ChunkEnd(c) - written[c]
  BY ChunkIsOrdered
<1>2. /\ ChunkEnd(c) \in Nat /\ written[c] \in Nat /\ written[c] <= ChunkEnd(c)
      /\ base \in Nat /\ frontier \in Nat
      /\ I \subseteq Nat
  BY ChunkBounds DEF Types
<1>3. \A i \in I : PositionOf(c, i) = base + Rank(i)
  <2> SUFFICES ASSUME NEW i \in I PROVE PositionOf(c, i) = base + Rank(i)
    OBVIOUS
  <2>1. { j \in Chunk(c) : Precedes(c, j, i) } = Below(ByTrigger(c), I, i)
    BY DEF Below, ByTrigger
  <2> QED BY <2>1 DEF PositionOf
<1>4. \A i \in I : Rank(i) \in 1..(ChunkEnd(c) - written[c])
  BY <1>1, RankBounds
<1>5. \A n \in 1..(ChunkEnd(c) - written[c]) : \E i \in I : Rank(i) = n
  BY <1>1, RanksAreDense
<1>6. \A i, j \in I : i # j /\ << i, j >> \in ByTrigger(c) => Rank(i) < Rank(j)
  BY <1>1, RankOrder
<1>7. \A i, j \in I : Rank(i) = Rank(j) => i = j
  <2> SUFFICES ASSUME NEW i \in I, NEW j \in I, i # j PROVE Rank(i) # Rank(j)
    OBVIOUS
  <2>1. << i, j >> \in ByTrigger(c) \/ << j, i >> \in ByTrigger(c)
    BY <1>1 DEF IsLinearOrder
  <2>2. Rank(i) < Rank(j) \/ Rank(j) < Rank(i)
    BY <1>6, <2>1
  <2>3. Rank(i) \in Nat /\ Rank(j) \in Nat
    BY <1>2, <1>4
  <2> HIDE DEF Rank
  <2> QED BY <2>2, <2>3
<1>8. \A i, j \in I : entries[c][i] = entries[c][j] /\ i < j => Rank(i) < Rank(j)
  <2> SUFFICES ASSUME NEW i \in I, NEW j \in I, entries[c][i] = entries[c][j], i < j
               PROVE  Rank(i) < Rank(j)
    OBVIOUS
  <2>1. i # j /\ << i, j >> \in ByTrigger(c)
    BY <1>2 DEF ByTrigger, Precedes
  <2> QED BY <1>6, <2>1
<1> HIDE DEF I, Rank
<1>9. \A i \in I : PositionOf(c, i) \in base + 1 .. frontier + ChunkEnd(c)
  BY <1>2, <1>3, <1>4
<1>10. ASSUME NEW n \in base + 1 .. frontier + ChunkEnd(c)
       PROVE  \E i \in I : PositionOf(c, i) = n
  <2>1. n - base \in 1..(ChunkEnd(c) - written[c])
    BY <1>2
  <2>2. PICK i \in I : Rank(i) = n - base
    BY <1>5, <2>1
  <2> QED BY <1>2, <1>3, <2>2
<1>11. \A i, j \in I : PositionOf(c, i) = PositionOf(c, j) => i = j
  BY <1>2, <1>3, <1>4, <1>7
<1>12. \A i, j \in I : entries[c][i] = entries[c][j] /\ i < j
         => PositionOf(c, i) < PositionOf(c, j)
  BY <1>2, <1>3, <1>4, <1>8
<1> QED BY <1>9, <1>10, <1>11, <1>12 DEF I

-------------------------------------------------------------------------------
(***************************************************************************)
(* What an open transaction has numbered: its first entries, each once, by *)
(* the positions right behind the frontier and in the order of versions.   *)
(***************************************************************************)
InOrder(q, r) ==
  /\ q.position = r.position => q = r
  /\ q.stream = r.stream => (q.version < r.version <=> q.position < r.position)

IsRowOf(c, i, r) == r.stream = entries[c][i] /\ r.version = VersionOf(c, i)

NumberedSoFar(c) ==
  /\ { r.position : r \in positioned[c] } = frontier + 1 .. frontier + written[c]
  /\ \A i \in 1..written[c] : \E r \in positioned[c] : IsRowOf(c, i, r)
  /\ \A r \in positioned[c] : \E i \in 1..written[c] : IsRowOf(c, i, r)
  /\ \A q, r \in positioned[c] : InOrder(q, r)

Numbered(c) ==
  /\ phase[c] \in {"Begin", "Locking", "Validating"} => written[c] = 0 /\ positioned[c] = {}
  /\ Writing(c) => NumberedSoFar(c)

(***************************************************************************)
(* A row that lies ahead of another in both respects is in order with it.  *)
(***************************************************************************)
Ahead(q, r) == q.position < r.position /\ (q.stream = r.stream => q.version < r.version)

LEMMA AheadInOrder ==
  ASSUME NEW q \in DeliveryRow, NEW r \in DeliveryRow, Ahead(q, r)
  PROVE  InOrder(q, r) /\ InOrder(r, q)
<1>1. /\ q.position \in Nat /\ r.position \in Nat /\ q.version \in Nat /\ r.version \in Nat
  BY DEF DeliveryRow
<1> QED BY <1>1 DEF Ahead, InOrder

(***************************************************************************)
(* The steps of others: the streams a call writes to do not grow while it  *)
(* has them locked, and the frontier stays while it owns it.               *)
(***************************************************************************)
LEMMA NumberingUndisturbed ==
  ASSUME Inv, TypeOK', NEW d \in Appends, Numbered(d),
         phase'[d] = phase[d], entries'[d] = entries[d], written'[d] = written[d],
         positioned'[d] = positioned[d],
         \A s \in Declared(d) : holder[key[s]] = d => Len(log'[s]) = Len(log[s]),
         frontierOwner = d => frontier' = frontier
  PROVE  Numbered(d)'
<1>1. SUFFICES ASSUME Writing(d) PROVE NumberedSoFar(d)'
  BY DEF Numbered, Writing
<1>2. NumberedSoFar(d)
  BY <1>1 DEF Numbered
<1>3. ASSUME NEW i \in 1..written[d] PROVE VersionOf(d, i)' = VersionOf(d, i)
  <2>1. i \in DOMAIN entries[d] /\ entries[d][i] \in Declared(d)
    <3>1. /\ written[d] \in 0..Len(entries[d]) /\ Len(entries[d]) \in Nat
          /\ DOMAIN entries[d] = 1..Len(entries[d])
          /\ \A j \in DOMAIN entries[d] : entries[d][j] \in Declared(d)
      BY TypeSplit DEF Inv, Types, Request
    <3> QED BY <3>1
  <2>2. holder[key[entries[d][i]]] = d
    BY <1>1, <2>1 DEF Inv, Local, Held
  <2>3. Len(log'[entries[d][i]]) = Len(log[entries[d][i]])
    BY <2>1, <2>2
  <2> QED BY <2>3 DEF VersionOf
<1>4. frontier + 1 .. frontier + written[d] = frontier' + 1 .. frontier' + written[d]
  <2>1. frontier \in Nat /\ frontier' \in Nat /\ written[d] \in Nat
    BY DEF Inv, TypeOK
  <2>2. CASE positioned[d] = {}
    <3>1. frontier + 1 .. frontier + written[d] = {}
      BY <1>2, <2>2 DEF NumberedSoFar
    <3>2. written[d] = 0
      <4>1. written[d] > 0 => frontier + 1 \in frontier + 1 .. frontier + written[d]
        BY <2>1
      <4> QED BY <2>1, <3>1, <4>1
    <3> QED BY <2>1, <3>2
  <2>3. CASE positioned[d] # {}
    BY <2>3 DEF Inv, Local, Beyond
  <2> QED BY <2>2, <2>3
<1>5. \A i \in 1..written[d], r \in positioned[d] : IsRowOf(d, i, r)' <=> IsRowOf(d, i, r)
  BY <1>3 DEF IsRowOf
<1> QED BY <1>2, <1>4, <1>5 DEF NumberedSoFar

(***************************************************************************)
(* A chunk continues the numbering.                                        *)
(***************************************************************************)
LEMMA ChunkContinues ==
  ASSUME Inv, NEW c \in Appends, Numbered(c), AssignPositions(c)
  PROVE  Numbered(c)'
<1> DEFINE Row(i) == [position |-> PositionOf(c, i), id |-> drawn[c] + (i - written[c]),
                      stream |-> entries[c][i], version |-> VersionOf(c, i)]
           new == { Row(i) : i \in Chunk(c) }
           old == positioned[c]
<1>1. /\ phase[c] = "Positioning" /\ UNCHANGED << log, frontier, entries >>
      /\ positioned'[c] = old \cup new /\ written'[c] = ChunkEnd(c)
      /\ phase'[c] \in {"Committing", "Drawing"}
  BY DEF AssignPositions, Goto, tables, request, Inv, TypeOK
<1>2. NumberedSoFar(c) /\ Types /\ Request(c)
  BY <1>1, TypeSplit DEF Numbered, Writing, Inv
<1>3. /\ ChunkEnd(c) \in Nat /\ written[c] \in Nat /\ written[c] <= ChunkEnd(c)
      /\ frontier \in Nat /\ ChunkEnd(c) <= Len(entries[c])
      /\ DOMAIN entries[c] = 1..Len(entries[c])
      /\ Chunk(c) = written[c] + 1 .. ChunkEnd(c)
  BY <1>2, ChunkBounds DEF Types, Chunk
<1>4. 1..written'[c] = (1..written[c]) \cup Chunk(c)
  BY <1>1, <1>3
<1>5. \A i \in 1..written'[c] : VersionOf(c, i)' = VersionOf(c, i)
  BY <1>1 DEF VersionOf
<1>6. { r.position : r \in positioned'[c] } = frontier + 1 .. frontier + written'[c]
  <2>1. { r.position : r \in old } = frontier + 1 .. frontier + written[c]
    BY <1>2 DEF NumberedSoFar
  <2>2. { r.position : r \in new } = frontier + written[c] + 1 .. frontier + ChunkEnd(c)
    <3> DEFINE next == frontier + written[c] + 1 .. frontier + ChunkEnd(c)
    <3>1. ASSUME NEW r \in new PROVE r.position \in next
      <4>1. PICK i \in Chunk(c) : r = Row(i)
        OBVIOUS
      <4> QED BY <1>2, <4>1, ChunkPositions
    <3>2. ASSUME NEW n \in next PROVE \E r \in new : r.position = n
      <4>1. PICK i \in Chunk(c) : PositionOf(c, i) = n
        BY <1>2, ChunkPositions
      <4>2. Row(i) \in new /\ Row(i).position = n
        BY <4>1
      <4> QED BY <4>2
    <3> HIDE DEF new, next
    <3>3. { r.position : r \in new } = next
      BY <3>1, <3>2
    <3> QED BY <3>3 DEF next
  <2>3. { r.position : r \in old \cup new }
          = { r.position : r \in old } \cup { r.position : r \in new }
    OBVIOUS
  <2>4. (frontier + 1 .. frontier + written[c])
          \cup (frontier + written[c] + 1 .. frontier + ChunkEnd(c))
          = frontier + 1 .. frontier + ChunkEnd(c)
    BY <1>3
  <2> QED BY <1>1, <2>1, <2>2, <2>3, <2>4
<1>7. ASSUME NEW i \in 1..written'[c]
      PROVE  \E r \in positioned'[c] : IsRowOf(c, i, r)'
  <2>1. CASE i \in 1..written[c]
    <3>1. PICK r \in old : IsRowOf(c, i, r)
      BY <1>2, <2>1 DEF NumberedSoFar
    <3> QED BY <1>1, <1>5, <3>1 DEF IsRowOf
  <2>2. CASE i \in Chunk(c)
    <3>1. Row(i) \in positioned'[c] /\ IsRowOf(c, i, Row(i))
      BY <1>1, <2>2 DEF IsRowOf
    <3> HIDE DEF Row
    <3> QED BY <1>1, <1>5, <3>1 DEF IsRowOf
  <2> QED BY <1>4, <2>1, <2>2
<1>8. ASSUME NEW r \in positioned'[c]
      PROVE  \E i \in 1..written'[c] : IsRowOf(c, i, r)'
  <2>1. \E i \in 1..written'[c] : IsRowOf(c, i, r)
    <3>1. CASE r \in old
      BY <1>2, <1>4, <3>1 DEF NumberedSoFar
    <3>2. CASE r \in new
      <4>1. PICK i \in Chunk(c) : r = Row(i)
        BY <3>2
      <4> QED BY <1>4, <4>1 DEF IsRowOf
    <3> QED BY <1>1, <1>8, <3>1, <3>2
  <2> QED BY <1>1, <1>5, <2>1 DEF IsRowOf
<1>9. old \subseteq DeliveryRow /\ new \subseteq DeliveryRow
  <2>1. old \subseteq DeliveryRow
    BY DEF Inv, TypeOK
  <2>2. ASSUME NEW i \in Chunk(c) PROVE Row(i) \in DeliveryRow
    <3>1. /\ PositionOf(c, i) \in (frontier + written[c] + 1)..(frontier + ChunkEnd(c))
          /\ VersionOf(c, i) \in Nat
      BY <1>2, Positions
    <3>2. drawn[c] + (i - written[c]) \in Nat /\ entries[c][i] \in Streams
      <4>1. drawn[c] \in Nat /\ entries[c] \in Seq(Streams)
        BY <1>2 DEF Types
      <4>2. i \in Nat /\ written[c] < i /\ i \in DOMAIN entries[c]
        BY <1>3
      <4> QED BY <1>3, <4>1, <4>2
    <3> QED BY <1>3, <3>1, <3>2 DEF DeliveryRow
  <2> QED BY <2>1, <2>2
<1>10. ASSUME NEW i \in 1..ChunkEnd(c), NEW j \in 1..ChunkEnd(c), i < j,
              entries[c][i] = entries[c][j]
       PROVE  VersionOf(c, i) < VersionOf(c, j)
  <2>1. entries[c][i] \in Streams
    <3>1. entries[c] \in Seq(Streams) /\ i \in DOMAIN entries[c]
      BY <1>2, <1>3 DEF Types
    <3> QED BY <3>1
  <2>2. i \in EntriesOf(c, entries[c][i]) /\ j \in EntriesOf(c, entries[c][i])
    BY <1>3, <1>10 DEF EntriesOf
  <2> QED BY <1>2, <1>10, <2>1, <2>2, Versions
<1>11. ASSUME NEW q \in old, NEW j \in Chunk(c) PROVE Ahead(q, Row(j))
  <2>1. PICK i \in 1..written[c] : IsRowOf(c, i, q)
    BY <1>2 DEF NumberedSoFar
  <2>2. q.position \in frontier + 1 .. frontier + written[c]
    BY <1>2 DEF NumberedSoFar
  <2>3. PositionOf(c, j) \in (frontier + written[c] + 1)..(frontier + ChunkEnd(c))
    BY <1>2, Positions
  <2>4. q.position < PositionOf(c, j)
    BY <1>3, <2>2, <2>3
  <2>5. i \in 1..ChunkEnd(c) /\ j \in 1..ChunkEnd(c) /\ i < j
    BY <1>3, <2>1
  <2> QED BY <1>10, <2>1, <2>4, <2>5 DEF Ahead, IsRowOf
<1>12. ASSUME NEW i \in Chunk(c), NEW j \in Chunk(c), i < j
       PROVE  InOrder(Row(i), Row(j)) /\ InOrder(Row(j), Row(i))
  <2>1. i \in 1..ChunkEnd(c) /\ j \in 1..ChunkEnd(c) /\ i # j
    BY <1>3, <1>12
  <2>2. CASE entries[c][i] = entries[c][j]
    <3>1. PositionOf(c, i) < PositionOf(c, j)
      BY <1>2, <1>12, <2>2, ChunkPositions
    <3>2. Ahead(Row(i), Row(j))
      BY <1>10, <1>12, <2>1, <2>2, <3>1 DEF Ahead
    <3> HIDE DEF Row
    <3> QED BY <1>9, <3>2, AheadInOrder
  <2>3. CASE entries[c][i] # entries[c][j]
    <3>1. PositionOf(c, i) # PositionOf(c, j)
      BY <1>2, <2>1, ChunkPositions
    <3> QED BY <2>3, <3>1 DEF InOrder
  <2> QED BY <2>2, <2>3
<1>13. ASSUME NEW q \in positioned'[c], NEW r \in positioned'[c] PROVE InOrder(q, r)
  <2>1. CASE q \in old /\ r \in old
    BY <1>2, <2>1 DEF NumberedSoFar
  <2>2. CASE q \in old /\ r \in new
    BY <1>9, <1>11, <2>2, AheadInOrder
  <2>3. CASE q \in new /\ r \in old
    BY <1>9, <1>11, <2>3, AheadInOrder
  <2>4. CASE q \in new /\ r \in new
    <3>1. PICK i \in Chunk(c) : q = Row(i)
      BY <2>4
    <3>2. PICK j \in Chunk(c) : r = Row(j)
      BY <2>4
    <3>3. i \in Nat /\ j \in Nat
      BY <1>3
    <3>4. CASE i = j
      <4>1. q = r /\ q \in DeliveryRow
        BY <1>9, <2>4, <3>1, <3>2, <3>4
      <4> QED BY <4>1 DEF InOrder, DeliveryRow
    <3> HIDE DEF Row
    <3> QED BY <1>12, <3>1, <3>2, <3>3, <3>4
  <2> QED BY <1>1, <1>13, <2>1, <2>2, <2>3, <2>4
<1>14. NumberedSoFar(c)'
  BY <1>1, <1>6, <1>7, <1>8, <1>13 DEF NumberedSoFar
<1> QED BY <1>1, <1>14 DEF Numbered, Writing

-------------------------------------------------------------------------------
(***************************************************************************)
(* A commit appends the transaction's rows to the delivery sequence.       *)
(***************************************************************************)
LEMMA CommittedVersions ==
  ASSUME Types, NEW c \in Appends, log' = Extended(c), NEW s \in Streams
  PROVE  /\ Len(log[s]) \in Nat /\ Count(c, s) \in Nat
         /\ DOMAIN log[s] = 1..Len(log[s])
         /\ DOMAIN log'[s] = 1 .. Len(log[s]) + Count(c, s)
<1> DEFINE added == [i \in 1..Count(c, s) |-> c]
<1>1. Count(c, s) \in Nat
  BY EntriesAreOrdered, FS_CardinalityType
<1>2. added \in Seq(Appends) /\ Len(added) = Count(c, s)
  BY <1>1
<1>3. log[s] \in Seq(Appends) /\ log'[s] = log[s] \o added
  BY DEF Extended, Types
<1> HIDE DEF added
<1>4. Len(log'[s]) = Len(log[s]) + Count(c, s) /\ log'[s] \in Seq(Appends)
  <2>1. Len(log[s] \o added) = Len(log[s]) + Len(added) /\ log[s] \o added \in Seq(Appends)
    BY <1>2, <1>3, ConcatProperties
  <2> QED BY <1>2, <1>3, <2>1
<1> QED BY <1>1, <1>3, <1>4

LEMMA CommitKeepsDense ==
  ASSUME Inv, DeliveryIsDense, NEW c \in Appends, Numbered(c), Commit(c)
  PROVE  DeliveryIsDense'
<1>1. /\ log' = Extended(c) /\ delivery' = delivery \cup positioned[c]
      /\ frontier' = frontier + Len(entries[c]) /\ phase[c] = "Committing"
  BY DEF Commit
<1>2. /\ written[c] = Len(entries[c]) /\ Len(entries[c]) \in Nat /\ frontier \in Nat
      /\ DOMAIN entries[c] = 1..Len(entries[c])
  BY <1>1 DEF Inv, Local, Beyond, TypeOK
<1>3. NumberedSoFar(c) /\ Types
  BY <1>1, TypeSplit DEF Numbered, Writing, Inv
<1>4. delivery \subseteq DeliveryRow /\ positioned[c] \subseteq DeliveryRow
  BY DEF Inv, TypeOK
<1>5. ASSUME NEW r \in delivery
      PROVE  /\ r.position \in 1..frontier /\ r.stream \in Streams
             /\ r.version \in 1..Len(log[r.stream])
  <2>1. r.position \in 1..frontier
    BY DEF DeliveryIsDense
  <2>2. << r.stream, r.version >> \in UNION { { << s, v >> : v \in DOMAIN log[s] } : s \in Streams }
    BY DEF DeliveryIsDense
  <2>3. PICK s \in Streams : r.stream = s /\ r.version \in DOMAIN log[s]
    BY <2>2
  <2> QED BY <1>1, <1>3, <2>1, <2>3, CommittedVersions
<1>6. ASSUME NEW r \in positioned[c]
      PROVE  /\ r.position \in frontier + 1 .. frontier' /\ r.stream \in Streams
             /\ r.version \in Len(log[r.stream]) + 1 .. Len(log[r.stream]) + Count(c, r.stream)
  <2>1. r.position \in frontier + 1 .. frontier'
    BY <1>1, <1>2, <1>3 DEF NumberedSoFar
  <2>2. PICK i \in 1..written[c] : IsRowOf(c, i, r)
    BY <1>3 DEF NumberedSoFar
  <2>3. r.stream \in Streams
    BY <1>4 DEF DeliveryRow
  <2>4. i \in EntriesOf(c, r.stream)
    BY <1>2, <2>2 DEF IsRowOf, EntriesOf
  <2>5. VersionOf(c, i) \in Len(log[r.stream]) + 1 .. Len(log[r.stream]) + Count(c, r.stream)
    BY <1>3, <2>3, <2>4, Versions
  <2> QED BY <2>1, <2>2, <2>3, <2>5 DEF IsRowOf
<1>7. { r.position : r \in delivery' } = 1..frontier'
  <2>1. { r.position : r \in delivery' }
          = { r.position : r \in delivery } \cup { r.position : r \in positioned[c] }
    BY <1>1
  <2>2. { r.position : r \in delivery } = 1..frontier
    BY DEF DeliveryIsDense
  <2>3. { r.position : r \in positioned[c] } = frontier + 1 .. frontier'
    BY <1>1, <1>2, <1>3 DEF NumberedSoFar
  <2>4. (1..frontier) \cup (frontier + 1 .. frontier') = 1..frontier'
    BY <1>1, <1>2
  <2> QED BY <2>1, <2>2, <2>3, <2>4
<1>8. { << r.stream, r.version >> : r \in delivery' }
        = UNION { { << s, v >> : v \in DOMAIN log'[s] } : s \in Streams }
  <2>1. ASSUME NEW r \in delivery'
        PROVE  r.stream \in Streams /\ r.version \in DOMAIN log'[r.stream]
    <3>1. CASE r \in delivery
      <4>1. r.stream \in Streams /\ r.version \in 1..Len(log[r.stream])
        BY <1>5, <3>1
      <4>2. /\ Len(log[r.stream]) \in Nat /\ Count(c, r.stream) \in Nat
            /\ DOMAIN log'[r.stream] = 1 .. Len(log[r.stream]) + Count(c, r.stream)
        BY <1>1, <1>3, <4>1, CommittedVersions
      <4> QED BY <4>1, <4>2
    <3>2. CASE r \in positioned[c]
      <4>1. /\ r.stream \in Streams
            /\ r.version \in Len(log[r.stream]) + 1 .. Len(log[r.stream]) + Count(c, r.stream)
        BY <1>6, <3>2
      <4>2. /\ Len(log[r.stream]) \in Nat /\ Count(c, r.stream) \in Nat
            /\ DOMAIN log'[r.stream] = 1 .. Len(log[r.stream]) + Count(c, r.stream)
        BY <1>1, <1>3, <4>1, CommittedVersions
      <4> QED BY <4>1, <4>2
    <3> QED BY <1>1, <3>1, <3>2
  <2>2. ASSUME NEW s \in Streams, NEW v \in DOMAIN log'[s]
        PROVE  \E r \in delivery' : r.stream = s /\ r.version = v
    <3>1. /\ Len(log[s]) \in Nat /\ Count(c, s) \in Nat /\ DOMAIN log[s] = 1..Len(log[s])
          /\ v \in 1 .. Len(log[s]) + Count(c, s)
      BY <1>1, <1>3, CommittedVersions
    <3>2. CASE v <= Len(log[s])
      <4>1. v \in DOMAIN log[s]
        BY <3>1, <3>2
      <4>2. << s, v >> \in { << r.stream, r.version >> : r \in delivery }
        <5>1. << s, v >> \in UNION { { << t, w >> : w \in DOMAIN log[t] } : t \in Streams }
          BY <4>1
        <5> QED BY <5>1 DEF DeliveryIsDense
      <4> QED BY <1>1, <4>2
    <3>3. CASE v > Len(log[s])
      <4>1. v \in Len(log[s]) + 1 .. Len(log[s]) + Count(c, s)
        BY <3>1, <3>3
      <4>2. PICK i \in EntriesOf(c, s) : VersionOf(c, i) = v
        BY <1>3, <4>1, Versions
      <4>3. i \in 1..written[c] /\ entries[c][i] = s
        BY <1>2 DEF EntriesOf
      <4>4. PICK r \in positioned[c] : IsRowOf(c, i, r)
        BY <1>3, <4>3 DEF NumberedSoFar
      <4> QED BY <1>1, <4>2, <4>3, <4>4 DEF IsRowOf
    <3> QED BY <3>1, <3>2, <3>3
  <2> DEFINE rows == { << r.stream, r.version >> : r \in delivery' }
             versions == UNION { { << s, v >> : v \in DOMAIN log'[s] } : s \in Streams }
  <2>3. ASSUME NEW p \in rows PROVE p \in versions
    <3>1. PICK r \in delivery' : p = << r.stream, r.version >>
      OBVIOUS
    <3>2. r.stream \in Streams /\ r.version \in DOMAIN log'[r.stream]
      BY <2>1
    <3>3. p \in { << r.stream, v >> : v \in DOMAIN log'[r.stream] }
      BY <3>1, <3>2
    <3> QED BY <3>2, <3>3
  <2>4. ASSUME NEW p \in versions PROVE p \in rows
    <3>1. PICK s \in Streams : \E v \in DOMAIN log'[s] : p = << s, v >>
      OBVIOUS
    <3>2. PICK v \in DOMAIN log'[s] : p = << s, v >>
      BY <3>1
    <3>3. PICK r \in delivery' : r.stream = s /\ r.version = v
      BY <2>2
    <3> QED BY <3>2, <3>3
  <2> HIDE DEF rows, versions
  <2>5. rows = versions
    BY <2>3, <2>4
  <2> QED BY <2>5 DEF rows, versions
<1>9. ASSUME NEW q \in delivery, NEW r \in positioned[c]
      PROVE  InOrder(q, r) /\ InOrder(r, q)
  <2>1. q.position < r.position
    BY <1>1, <1>2, <1>5, <1>6
  <2>2. q.stream = r.stream => q.version < r.version
    <3>1. Len(log[q.stream]) \in Nat /\ Count(c, q.stream) \in Nat
      BY <1>1, <1>3, <1>5, CommittedVersions
    <3> QED BY <1>5, <1>6, <3>1
  <2> QED BY <1>4, <2>1, <2>2, AheadInOrder DEF Ahead
<1>10. ASSUME NEW q \in delivery', NEW r \in delivery' PROVE InOrder(q, r)
  <2>1. CASE q \in delivery /\ r \in delivery
    BY <2>1 DEF DeliveryIsDense, InOrder
  <2>2. CASE q \in positioned[c] /\ r \in positioned[c]
    BY <1>3, <2>2 DEF NumberedSoFar
  <2> QED BY <1>1, <1>9, <1>10, <2>1, <2>2
<1> QED BY <1>7, <1>8, <1>10 DEF DeliveryIsDense, InOrder

-------------------------------------------------------------------------------
AllNumbered == \A c \in Appends : Numbered(c)

(***************************************************************************)
(* The numbering of every open transaction survives every step.            *)
(***************************************************************************)
LEMMA ActorKeepsNumbering ==
  ASSUME Inv, TypeOK', NEW c \in Appends, Numbered(c), Submit(c) \/ Step(c) \/ Fail(c)
  PROVE  Numbered(c)'
<1>1. CASE Submit(c)
  <2>1. phase'[c] = "Begin" /\ written'[c] = 0 /\ positioned'[c] = {}
    BY <1>1 DEF Submit, Goto, Inv, TypeOK, Local, Beyond
  <2> QED BY <2>1 DEF Numbered, Writing
<1>2. CASE \E a \in Answers : Abort(c, a)
  <2>1. phase'[c] = "Aborting"
    BY <1>2 DEF Abort, Goto, Inv, TypeOK
  <2> QED BY <2>1 DEF Numbered, Writing
<1>3. CASE EmptyBatch(c) \/ Commit(c) \/ Rollback(c)
  <2>1. phase'[c] = "Returned"
    BY <1>3 DEF EmptyBatch, Commit, Rollback, EndTransaction, Goto, Inv, TypeOK
  <2> QED BY <2>1 DEF Numbered, Writing
<1>4. CASE Begin(c) \/ LockStream(c) \/ AllLocked(c) \/ (Validate(c) /\ phase' = phase)
  <2>1. /\ phase[c] \in {"Begin", "Locking", "Validating"}
        /\ phase'[c] \in {"Begin", "Locking", "Validating"}
        /\ UNCHANGED << written, positioned >>
    BY <1>4 DEF Begin, LockStream, AllLocked, Validate, Abort, Goto, locals, Inv, TypeOK
  <2> QED BY <2>1 DEF Numbered, Writing
<1>5. CASE AllValid(c)
  <2>1. /\ phase[c] = "Validating" /\ phase'[c] = "Drawing"
        /\ UNCHANGED << log, frontier, entries, written, positioned >>
    BY <1>5 DEF AllValid, Goto, locals, tables, request, Inv, TypeOK
  <2>2. written[c] = 0 /\ positioned[c] = {}
    BY <2>1 DEF Numbered
  <2>3. frontier + 1 .. frontier + 0 = {}
    BY DEF Inv, TypeOK
  <2> QED BY <2>1, <2>2, <2>3 DEF Numbered, NumberedSoFar
<1>6. CASE DrawIds(c) \/ (InsertRows(c) /\ Goto(c, "Positioning"))
  <2>1. /\ Writing(c) /\ phase'[c] \in {"Inserting", "Positioning"}
        /\ UNCHANGED << log, frontier, entries, written, positioned >>
    BY <1>6, InsertAccepted DEF DrawIds, InsertRows, Goto, Writing, locals, tables, request, Inv, TypeOK
  <2>2. NumberedSoFar(c)'
    BY <2>1 DEF Numbered, NumberedSoFar, IsRowOf, VersionOf
  <2> QED BY <2>1, <2>2 DEF Numbered
<1>7. CASE InsertRows(c)
  <2>1. phase[c] = "Inserting"
    BY <1>7 DEF InsertRows
  <2>2. TriggerAccepts(c)
    BY <2>1, InsertAccepted
  <2>3. Goto(c, "Positioning")
    BY <1>7, <2>2 DEF InsertRows
  <2> QED BY <1>6, <1>7, <2>3
<1>8. CASE Validate(c)
  <2>1. (\E a \in Answers : Abort(c, a)) \/ phase' = phase
    BY <1>8 DEF Validate, Answers
  <2> QED BY <1>2, <1>4, <1>8, <2>1
<1>9. CASE Fail(c) \/ DeadlockDetected(c)
  BY <1>2, <1>9 DEF Fail, DeadlockDetected, Answers
<1>10. CASE AssignPositions(c)
  BY <1>10, ChunkContinues
<1> QED BY <1>1, <1>3, <1>4, <1>5, <1>6, <1>7, <1>8, <1>9, <1>10 DEF Step

LEMMA NumberingIsKept ==
  ASSUME Inv, TypeOK', AllNumbered, NEW c \in Appends, Submit(c) \/ Step(c) \/ Fail(c)
  PROVE  AllNumbered'
<1> SUFFICES ASSUME NEW d \in Appends \ {c} PROVE Numbered(d)'
  BY ActorKeepsNumbering DEF AllNumbered
<1>1. CASE Commit(c)
  <2>1. \A s \in Declared(c) : holder[key[s]] = c
    BY <1>1 DEF Commit, Inv, Local, Held, Writing
  <2>2. frontierOwner = c
    BY <1>1 DEF Commit, Inv, Local, Beyond
  <2>3. \A s \in Declared(d) : holder[key[s]] = d => Len(log'[s]) = Len(log[s])
    <3>1. \A s \in Streams \ Declared(c) : Len(log'[s]) = Len(log[s])
      BY <1>1, TypeSplit, CommitExtends DEF Commit, Inv
    <3>2. Declared(d) \subseteq Streams
      BY DEF Inv, TypeOK
    <3> QED BY <2>1, <3>1, <3>2
  <2>4. /\ phase'[d] = phase[d] /\ entries'[d] = entries[d] /\ written'[d] = written[d]
        /\ positioned'[d] = positioned[d]
    BY <1>1 DEF Commit, EndTransaction, Goto, request, Inv, TypeOK
  <2> QED BY <2>2, <2>3, <2>4, NumberingUndisturbed DEF AllNumbered
<1>2. CASE ~Commit(c)
  <2>1. UNCHANGED << log, frontier >>
    BY <1>2 DEF Submit, Step, EmptyBatch, Begin, LockStream, AllLocked, Validate, AllValid,
                DrawIds, InsertRows, AssignPositions, Rollback, DeadlockDetected, Fail, Abort,
                tables
  <2>2. /\ phase'[d] = phase[d] /\ entries'[d] = entries[d] /\ written'[d] = written[d]
        /\ positioned'[d] = positioned[d]
    <3>1. /\ DOMAIN phase = Appends /\ DOMAIN entries = Appends /\ DOMAIN written = Appends
          /\ DOMAIN positioned = Appends
      BY DEF Inv, TypeOK
    <3>2. CASE Submit(c)
      BY <3>1, <3>2 DEF Submit, Goto
    <3>3. CASE EmptyBatch(c) \/ Begin(c) \/ LockStream(c) \/ AllLocked(c) \/ AllValid(c)
               \/ DrawIds(c)
      BY <3>1, <3>3 DEF EmptyBatch, Begin, LockStream, AllLocked, AllValid, DrawIds, Goto,
                        request, locals
    <3>4. CASE Validate(c) \/ InsertRows(c) \/ Fail(c) \/ DeadlockDetected(c)
      BY <3>1, <3>4 DEF Validate, InsertRows, Fail, DeadlockDetected, Abort, Goto, request,
                        locals
    <3>5. CASE AssignPositions(c)
      BY <3>1, <3>5 DEF AssignPositions, Goto, request
    <3>6. CASE Rollback(c)
      BY <3>1, <3>6 DEF Rollback, EndTransaction, Goto, request
    <3> QED BY <1>2, <3>2, <3>3, <3>4, <3>5, <3>6 DEF Step
  <2> QED BY <2>1, <2>2, NumberingUndisturbed DEF AllNumbered
<1> QED BY <1>1, <1>2

(***************************************************************************)
(* The delivery sequence is dense: at any time it numbers the committed    *)
(* events from 1 to the frontier, each once, streams in version order.     *)
(***************************************************************************)
THEOREM DeliveryStaysDense == Spec => []DeliveryIsDense
<1>1. Init => DeliveryIsDense /\ AllNumbered
  <2> SUFFICES ASSUME Init PROVE DeliveryIsDense /\ AllNumbered
    OBVIOUS
  <2>1. AllNumbered
    BY DEF Init, AllNumbered, Numbered, Writing
  <2>2. /\ delivery = {} /\ 1..frontier = {} /\ \A s \in Streams : DOMAIN log[s] = {}
    BY DEF Init
  <2>3. UNION { { << s, v >> : v \in DOMAIN log[s] } : s \in Streams } = {}
    BY <2>2
  <2> QED BY <2>1, <2>2, <2>3 DEF DeliveryIsDense
<1>2. Inv /\ TypeOK' /\ AllNumbered /\ DeliveryIsDense /\ [Next]_vars
        => AllNumbered' /\ DeliveryIsDense'
  <2> SUFFICES ASSUME Inv, TypeOK', AllNumbered, DeliveryIsDense, [Next]_vars
               PROVE  AllNumbered' /\ DeliveryIsDense'
    OBVIOUS
  <2>1. CASE UNCHANGED vars \/ AllReturned
    <3>1. UNCHANGED << log, delivery, frontier, phase, entries, written, positioned >>
      BY <2>1 DEF AllReturned, vars, tables, request, locals
    <3>2. AllNumbered'
      BY <3>1, NumberingUndisturbed DEF AllNumbered
    <3>3. DeliveryIsDense'
      BY <3>1 DEF DeliveryIsDense
    <3> QED BY <3>2, <3>3
  <2>2. ASSUME NEW c \in Appends, Submit(c) \/ Step(c) \/ Fail(c)
        PROVE  AllNumbered' /\ DeliveryIsDense'
    <3>1. AllNumbered'
      BY <2>2, NumberingIsKept
    <3>2. CASE Commit(c)
      BY <3>1, <3>2, CommitKeepsDense DEF AllNumbered
    <3>3. CASE ~Commit(c)
      <4>1. UNCHANGED << log, delivery, frontier >>
        BY <2>2, <3>3 DEF Submit, Step, EmptyBatch, Begin, LockStream, AllLocked, Validate,
             AllValid, DrawIds, InsertRows, AssignPositions, Rollback, DeadlockDetected, Fail,
             Abort, tables
      <4> QED BY <3>1, <4>1 DEF DeliveryIsDense
    <3> QED BY <3>2, <3>3
  <2> QED BY <2>1, <2>2 DEF Next
<1> QED BY <1>1, <1>2, TypeCorrect, Invariance, PTL DEF Spec
===============================================================================
