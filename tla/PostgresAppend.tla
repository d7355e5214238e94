----------------------------- MODULE PostgresAppend -----------------------------
(***************************************************************************)
(* Concurrent appends to the PostgreSQL store with the delivery-source     *)
(* migration: each statement runs at READ COMMITTED, so a call is a series *)
(* of steps that see what has been committed by then.  One advisory lock   *)
(* per declared stream, keyed by a hash of its name, serialises the checks *)
(* and the delivery frontier's row lock serialises the positions; both     *)
(* last until the transaction ends.                                        *)
(*                                                                         *)
(* Abstraction of data.  A stream is a number, in the order of names; an   *)
(* event is the append that wrote it.  Event identifiers are numbers that  *)
(* grow with time (UUIDv7).  The unique index never decides: a violation   *)
(* needs two transactions inserting into one stream.                       *)
(***************************************************************************)
EXTENDS Integers, Sequences, FiniteSets

CONSTANTS Appends,  \* calls of append_events
          None,     \* no call
          Streams,  \* streams, numbered in the order of their names
          Keys,     \* hashes of stream names
          Requests, \* the declared streams and the streams of the events
          ChunkSize \* MAX_EVENTS_PER_INSERT (1000 in the code)

ASSUME NoneAssumption == None \notin Appends
ASSUME StreamsAssumption == Streams \subseteq Nat
ASSUME RequestsAssumption ==
  Requests \subseteq [declared : SUBSET Streams, entries : Seq(Streams)]
ASSUME RegisteredAssumption ==
  \A q \in Requests : \A i \in DOMAIN q.entries : q.entries[i] \in q.declared
ASSUME ChunkAssumption == ChunkSize \in Nat \ {0}

VARIABLES
  key,           \* the hash of each stream's name, fixed
  log,           \* committed events: the append that wrote each version
  delivery,      \* committed rows of eventcore_projection_delivery
  frontier,      \* committed last_position of the frontier row
  clock,         \* the last event identifier drawn
  holder,        \* which transaction holds each advisory lock
  frontierOwner, \* which transaction holds the frontier's row lock
  phase,         \* where each call is
  expected,      \* expected_versions of each call
  entries,       \* entries of each call
  todo,          \* streams still to be locked or checked
  written,       \* how many entries have been inserted
  drawn,         \* the identifier before the first one of the open chunk
  positioned,    \* delivery rows of the open transaction
  answer         \* what each call returned

tables == << log, delivery, frontier >>
locks == << holder, frontierOwner >>
request == << expected, entries >>
locals == << todo, written, drawn, positioned >>
vars == << key, tables, clock, locks, phase, request, locals, answer >>

NoStreams == [s \in {} |-> 0]

Init ==
  /\ key \in [Streams -> Keys]
  /\ log = [s \in Streams |-> << >>]
  /\ delivery = {}
  /\ frontier = 0
  /\ clock = 0
  /\ holder = [k \in Keys |-> None]
  /\ frontierOwner = None
  /\ phase = [c \in Appends |-> "Idle"]
  /\ expected = [c \in Appends |-> NoStreams]
  /\ entries = [c \in Appends |-> << >>]
  /\ todo = [c \in Appends |-> {}]
  /\ written = [c \in Appends |-> 0]
  /\ drawn = [c \in Appends |-> 0]
  /\ positioned = [c \in Appends |-> {}]
  /\ answer = [c \in Appends |-> "none"]

Declared(c) == DOMAIN expected[c]

Goto(c, next) == phase' = [phase EXCEPT ![c] = next]

Respond(c, a) == answer' = [answer EXCEPT ![c] = a]

-------------------------------------------------------------------------------
(***************************************************************************)
(* The call is made with versions that were read earlier.                  *)
(***************************************************************************)
Past(D) == { v \in [D -> UNION { 0..Len(log[s]) : s \in D }] :
               \A s \in D : v[s] <= Len(log[s]) }

Submit(c) ==
  /\ phase[c] = "Idle"
  /\ \E q \in Requests : \E v \in Past(q.declared) :
       /\ expected' = [expected EXCEPT ![c] = v]
       /\ entries' = [entries EXCEPT ![c] = q.entries]
       /\ todo' = [todo EXCEPT ![c] = q.declared]
  /\ written' = [written EXCEPT ![c] = 0]
  /\ Goto(c, "Begin")
  /\ UNCHANGED << key, tables, clock, locks, drawn, positioned, answer >>

(***************************************************************************)
(* An empty batch returns before anything is checked.                      *)
(***************************************************************************)
EmptyBatch(c) ==
  /\ phase[c] = "Begin" /\ entries[c] = << >>
  /\ Goto(c, "Returned")
  /\ Respond(c, "ok")
  /\ UNCHANGED << key, tables, clock, locks, request, locals >>

Begin(c) ==
  /\ phase[c] = "Begin" /\ entries[c] # << >>
  /\ Goto(c, "Locking")
  /\ UNCHANGED << key, tables, clock, locks, request, locals, answer >>

(***************************************************************************)
(* The streams are visited in the order of their names.  (Mutant: in the   *)
(* order of a hash map.)                                                   *)
(***************************************************************************)
IsAny(c, s) == s \in todo[c]

IsNext(c, s) == s \in todo[c] /\ \A t \in todo[c] : s <= t

(***************************************************************************)
(* pg_advisory_xact_lock waits; a transaction may take a lock twice.       *)
(* (Mutant: the lock is shared.)                                           *)
(***************************************************************************)
SharedLock(c, s) == TRUE

LockIsFree(c, s) == holder[key[s]] \in {None, c}

(***************************************************************************)
(* Mutant: read-only participants are not locked.                          *)
(***************************************************************************)
LockOnlyWritten(c) ==
  /\ phase[c] = "Locking"
  /\ \E s \in todo[c] :
       /\ IsNext(c, s) /\ LockIsFree(c, s)
       /\ IF \E i \in DOMAIN entries[c] : entries[c][i] = s
          THEN holder' = [holder EXCEPT ![key[s]] = c]
          ELSE UNCHANGED holder
       /\ todo' = [todo EXCEPT ![c] = @ \ {s}]
  /\ UNCHANGED << key, tables, clock, frontierOwner, phase, request, written, drawn,
                  positioned, answer >>

LockStream(c) ==
  /\ phase[c] = "Locking"
  /\ \E s \in todo[c] : /\ IsNext(c, s) /\ LockIsFree(c, s)
                        /\ holder' = [holder EXCEPT ![key[s]] = c]
                        /\ todo' = [todo EXCEPT ![c] = @ \ {s}]
  /\ UNCHANGED << key, tables, clock, frontierOwner, phase, request, written, drawn,
                  positioned, answer >>

(***************************************************************************)
(* Then the versions are checked.  (Mutant: of every stream of the store.) *)
(***************************************************************************)
AllLockedCheckAll(c) ==
  /\ phase[c] = "Locking" /\ todo[c] = {}
  /\ todo' = [todo EXCEPT ![c] = Streams]
  /\ Goto(c, "Validating")
  /\ UNCHANGED << key, tables, clock, locks, request, written, drawn, positioned, answer >>

AllLocked(c) ==
  /\ phase[c] = "Locking" /\ todo[c] = {}
  /\ todo' = [todo EXCEPT ![c] = Declared(c)]
  /\ Goto(c, "Validating")
  /\ UNCHANGED << key, tables, clock, locks, request, written, drawn, positioned, answer >>

(***************************************************************************)
(* The transaction is dropped: the answer is known at once, the locks are  *)
(* released when the server gets to roll back.                             *)
(***************************************************************************)
Abort(c, a) ==
  /\ Goto(c, "Aborting")
  /\ Respond(c, a)
  /\ UNCHANGED << key, tables, clock, locks, request, locals >>

(***************************************************************************)
(* One SELECT MAX(stream_version) per declared stream.                     *)
(***************************************************************************)
Validate(c) ==
  /\ phase[c] = "Validating"
  /\ \E s \in todo[c] :
       /\ IsNext(c, s)
       /\ IF Len(log[s]) # expected[c][s]
          THEN Abort(c, "conflict")
          ELSE /\ todo' = [todo EXCEPT ![c] = @ \ {s}]
               /\ UNCHANGED << key, tables, clock, locks, phase, request, written,
                               drawn, positioned, answer >>

AllValid(c) ==
  /\ phase[c] = "Validating" /\ todo[c] = {}
  /\ Goto(c, "Drawing")
  /\ UNCHANGED << key, tables, clock, locks, request, locals, answer >>

Least(m, n) == IF m < n THEN m ELSE n

(***************************************************************************)
(* The end of the open chunk: written is its beginning.  (Mutant: the last *)
(* chunk is taken to be full.)                                             *)
(***************************************************************************)
ChunkEnd(c) == Least(written[c] + ChunkSize, Len(entries[c]))

Chunk(c) == written[c] + 1 .. ChunkEnd(c)

(***************************************************************************)
(* The client draws the identifiers of a chunk and sends the INSERT.       *)
(***************************************************************************)
DrawIds(c) ==
  /\ phase[c] = "Drawing"
  /\ drawn' = [drawn EXCEPT ![c] = clock]
  /\ clock' = clock + (ChunkEnd(c) - written[c])
  /\ Goto(c, "Inserting")
  /\ UNCHANGED << key, tables, locks, request, todo, written, positioned, answer >>

(***************************************************************************)
(* The version of the i-th entry: the row trigger sees the committed rows  *)
(* and the transaction's own.                                              *)
(***************************************************************************)
VersionOf(c, i) ==
  Len(log[entries[c][i]]) + Cardinality({ j \in 1..i : entries[c][j] = entries[c][i] })

(***************************************************************************)
(* The trigger compares with the expected version, advanced by the         *)
(* transaction's own rows.                                                 *)
(***************************************************************************)
TriggerAccepts(c) ==
  \A i \in Chunk(c) : Len(log[entries[c][i]]) = expected[c][entries[c][i]]

InsertRows(c) ==
  /\ phase[c] = "Inserting"
  /\ IF TriggerAccepts(c)
     THEN /\ Goto(c, "Positioning")
          /\ UNCHANGED << key, tables, clock, locks, request, locals, answer >>
     ELSE Abort(c, "rejected")

(***************************************************************************)
(* A row precedes another in the statement trigger's ORDER BY.             *)
(***************************************************************************)
Precedes(c, i, j) ==
  \/ entries[c][i] < entries[c][j]
  \/ entries[c][i] = entries[c][j] /\ i <= j

(***************************************************************************)
(* The statement trigger numbers the chunk's rows from the frontier on.    *)
(* (Mutant: starting at the frontier itself.)                              *)
(***************************************************************************)
FromFrontier(c, i) == frontier + i - 1

PositionOf(c, i) ==
  frontier + written[c] + Cardinality({ j \in Chunk(c) : Precedes(c, j, i) })

(***************************************************************************)
(* The frontier row is locked FOR UPDATE: wait for its owner to end.       *)
(* (Mutant: it is read without a lock.)                                    *)
(***************************************************************************)
AnyoneMayRead(c) == TRUE

FrontierIsFree(c) == frontierOwner \in {None, c}

AssignPositions(c) ==
  /\ phase[c] = "Positioning"
  /\ FrontierIsFree(c)
  /\ frontierOwner' = c
  /\ positioned' = [positioned EXCEPT ![c] = @ \cup
        { [position |-> PositionOf(c, i), id |-> drawn[c] + (i - written[c]),
           stream |-> entries[c][i], version |-> VersionOf(c, i)] : i \in Chunk(c) }]
  /\ written' = [written EXCEPT ![c] = ChunkEnd(c)]
  /\ Goto(c, IF ChunkEnd(c) = Len(entries[c]) THEN "Committing" ELSE "Drawing")
  /\ UNCHANGED << key, tables, clock, holder, request, todo, drawn, answer >>

-------------------------------------------------------------------------------
Count(c, s) == Cardinality({ i \in DOMAIN entries[c] : entries[c][i] = s })

Extended(c) == [s \in Streams |-> log[s] \o [i \in 1..Count(c, s) |-> c]]

(***************************************************************************)
(* The transaction ends, and with it its locks.  (Mutant: the advisory     *)
(* locks belong to the session, not to the transaction.)                   *)
(***************************************************************************)
EndKeepingLocks(c) ==
  /\ frontierOwner' = IF frontierOwner = c THEN None ELSE frontierOwner
  /\ positioned' = [positioned EXCEPT ![c] = {}]
  /\ Goto(c, "Returned")
  /\ UNCHANGED << key, clock, holder, request, todo, written, drawn >>

EndTransaction(c) ==
  /\ holder' = [k \in Keys |-> IF holder[k] = c THEN None ELSE holder[k]]
  /\ frontierOwner' = IF frontierOwner = c THEN None ELSE frontierOwner
  /\ positioned' = [positioned EXCEPT ![c] = {}]
  /\ Goto(c, "Returned")
  /\ UNCHANGED << key, clock, request, todo, written, drawn >>

(***************************************************************************)
(* The commit makes everything visible; its acknowledgement may be lost.   *)
(***************************************************************************)
Commit(c) ==
  /\ phase[c] = "Committing"
  /\ log' = Extended(c)
  /\ delivery' = delivery \cup positioned[c]
  /\ frontier' = frontier + Len(entries[c])
  /\ \E a \in {"ok", "failed"} : Respond(c, a)
  /\ EndTransaction(c)

InTransaction(c) ==
  phase[c] \in {"Locking", "Validating", "Drawing", "Inserting", "Positioning",
                "Committing"}

(***************************************************************************)
(* A statement fails, the connection breaks or the future is dropped.      *)
(***************************************************************************)
Fail(c) == (phase[c] = "Begin" \/ InTransaction(c)) /\ Abort(c, "failed")

Rollback(c) ==
  /\ phase[c] = "Aborting"
  /\ EndTransaction(c)
  /\ UNCHANGED << tables, answer >>

(***************************************************************************)
(* Who waits for whom.                                                     *)
(***************************************************************************)
WaitsFor(c, d) ==
  /\ c # d
  /\ \/ phase[c] = "Locking" /\ \E s \in todo[c] : IsNext(c, s) /\ holder[key[s]] = d
     \/ phase[c] = "Positioning" /\ frontierOwner = d

IsWaitCycle(S) ==
  /\ S # {}
  /\ \A c \in S : (\E d \in S : WaitsFor(c, d)) /\ (\E d \in S : WaitsFor(d, c))

(***************************************************************************)
(* The server detects a deadlock and fails one of its members.             *)
(***************************************************************************)
DeadlockDetected(c) ==
  /\ \E S \in SUBSET Appends : c \in S /\ IsWaitCycle(S)
  /\ Abort(c, "failed")

Step(c) ==
  \/ EmptyBatch(c) \/ Begin(c) \/ LockStream(c) \/ AllLocked(c) \/ Validate(c)
  \/ AllValid(c) \/ DrawIds(c) \/ InsertRows(c) \/ AssignPositions(c) \/ Commit(c)
  \/ Rollback(c) \/ DeadlockDetected(c)

AllReturned == (\A c \in Appends : phase[c] = "Returned") /\ UNCHANGED vars

Next == (\E c \in Appends : Submit(c) \/ Step(c) \/ Fail(c)) \/ AllReturned

Spec == Init /\ [][Next]_vars

(***************************************************************************)
(* Clients and server go on, and the server looks for deadlocks.  No       *)
(* submission and no failure is fair.                                      *)
(***************************************************************************)
FairSpec == Spec /\ \A c \in Appends : WF_vars(Step(c))

-------------------------------------------------------------------------------
Phases == {"Idle", "Begin", "Locking", "Validating", "Drawing", "Inserting",
           "Positioning", "Committing", "Aborting", "Returned"}

Answers == {"none", "ok", "conflict", "rejected", "failed"}

DeliveryRow == [position : Nat, id : Nat, stream : Streams, version : Nat]

(***************************************************************************)
(* The types of all variables.                                             *)
(***************************************************************************)
TypeOK ==
  /\ key \in [Streams -> Keys]
  /\ log \in [Streams -> Seq(Appends)]
  /\ delivery \in SUBSET DeliveryRow
  /\ frontier \in Nat
  /\ clock \in Nat
  /\ holder \in [Keys -> Appends \cup {None}]
  /\ frontierOwner \in Appends \cup {None}
  /\ phase \in [Appends -> Phases]
  /\ \A c \in Appends : /\ Declared(c) \subseteq Streams
                        /\ expected[c] \in [Declared(c) -> Nat]
                        /\ todo[c] \subseteq Declared(c)
                        /\ \A i \in DOMAIN entries[c] : entries[c][i] \in Declared(c)
                        /\ written[c] \in 0..Len(entries[c])
  /\ DOMAIN expected = Appends
  /\ entries \in [Appends -> Seq(Streams)]
  /\ todo \in [Appends -> SUBSET Streams]
  /\ written \in [Appends -> Nat]
  /\ drawn \in [Appends -> Nat]
  /\ positioned \in [Appends -> SUBSET DeliveryRow]
  /\ answer \in [Appends -> Answers]

(***************************************************************************)
(* Although an append is a series of statements at READ COMMITTED, it is   *)
(* atomic: all declared versions, those of streams it only read included,  *)
(* are current at the instant its events appear, and all appear or none.   *)
(***************************************************************************)
Reported == [c \in Appends |-> IF answer[c] = "rejected" THEN "conflict" ELSE answer[c]]

Atomic == INSTANCE AtomicAppend WITH answer <- Reported

AppendsAreAtomic == Atomic!Spec

(***************************************************************************)
(* The locks suffice: the row trigger, whose message is parsed back into a *)
(* conflict, never has to reject an append.                                *)
(***************************************************************************)
TriggerNeverRejects == \A c \in Appends : answer[c] # "rejected"

(***************************************************************************)
(* The delivery sequence numbers the committed events 1..frontier, each    *)
(* once, and follows the order of versions within a stream.                *)
(***************************************************************************)
DeliveryIsDense ==
  /\ { r.position : r \in delivery } = 1..frontier
  /\ { << r.stream, r.version >> : r \in delivery } =
       UNION { { << s, v >> : v \in DOMAIN log[s] } : s \in Streams }
  /\ \A q, r \in delivery :
       /\ q.position = r.position => q = r
       /\ q.stream = r.stream => (q.version < r.version <=> q.position < r.position)

(***************************************************************************)
(* A reader of the delivery source skips nothing: whatever becomes visible *)
(* lies after everything that was visible before.                          *)
(***************************************************************************)
VisibleInPositionOrder ==
  [][\A q \in delivery : \A r \in delivery' \ delivery : q.position < r.position]_vars

(***************************************************************************)
(* Name order prevents deadlocks between appends, unless the names of two  *)
(* streams collide in the hash that keys the locks.                        *)
(***************************************************************************)
OnlyCollisionsDeadlock ==
  (\E S \in SUBSET Appends : IsWaitCycle(S))
    => \E s, t \in Streams : s # t /\ key[s] = key[t]

(***************************************************************************)
(* Every append returns, even one in a deadlock.                           *)
(***************************************************************************)
AppendsReturn == \A c \in Appends : (phase[c] # "Idle") ~> (phase[c] = "Returned")

(***************************************************************************)
(* What EventReader promises of its cursor, which is the event identifier: *)
(* a reader that resumes after the last event it received misses none.     *)
(***************************************************************************)
VisibleInIdOrder ==
  [][\A q \in delivery : \A r \in delivery' \ delivery : q.id < r.id]_vars
===============================================================================
