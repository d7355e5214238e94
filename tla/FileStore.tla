-------------------------------- MODULE FileStore --------------------------------
(***************************************************************************)
(* The file event store in working copies of one git repository.  Every    *)
(* transaction is an immutable file; its header names the transactions     *)
(* that were the tips of the writer's history and the version of every     *)
(* stream the writer registered.  An open store keeps an index in memory:  *)
(* the headers, the streams in canonical order, the tips, and the local    *)
(* sequence in which this copy became aware of each event, which           *)
(* projections follow.  git merges bring in other copies' files at any     *)
(* time; an open store notices them when it is opened again.               *)
(*                                                                         *)
(* A transaction identifier is its index in `txn`; an event is its         *)
(* transaction and its index in it.  `knew`, which no file has, is what    *)
(* the writer's index held.  A damaged file, which the fsck excludes, is   *)
(* to the index one that has not arrived.                                  *)
(***************************************************************************)
EXTENDS Integers, Sequences, FiniteSets, SequencesExt, FiniteSetsExt

CONSTANTS Copies,          \* working copies
          Streams,
          Batches,         \* per copy: what callers register and write, [reads, writes]
          Skew,            \* per copy: how far its clock is ahead
          Projecting,      \* copies a projection runs on
          PartialMerges,   \* copies a merge may bring part of another's files to
          MaxTransactions, \* bound: transactions written
          MaxAppends,      \* bound, per copy: transactions of its identity when it still appends
          Failing,         \* bound: copies where writing the ingestion log fails, once
          Impatient,       \* bound: copies where an append call is dropped, once
          None             \* no transaction, no working copy

ASSUME NoneAssumption == None \notin Copies \cup Nat \cup [txn : Nat, tips : SUBSET Nat]
ASSUME SkewAssumption == Skew \in [Copies -> Nat]
ASSUME BatchesAssumption ==
  \A w \in Copies : \A b \in Batches[w] : /\ b.reads \in SUBSET Streams /\ IsFiniteSet(b.reads)
                                         /\ b.writes \in SUBSET Streams \ {{}} /\ IsFiniteSet(b.writes)
ASSUME MaxTransactionsAssumption == MaxTransactions \in Nat

VARIABLES
  txn,         \* all transactions ever written, wherever their files are
  files,       \* per copy: transaction files in events/
  logFile,     \* per copy: the ingestion log on disk, a sequence number by event
  torn,        \* per copy: whether a line of that file is incomplete
  identity,    \* per copy: the recorded replica id and the fingerprint it is bound to
  checkpoint,  \* per copy: the position a projection has saved
  handled,     \* per copy: the events it has handled
  open,        \* per copy: whether a process has the store open
  index,       \* per copy: the index of that process
  pending,     \* per copy: the transaction written and not yet in the index, and the tips with it
  remaining,   \* per copy: forks a reconciliation still has to present
  minted,      \* replica ids generated so far
  unlogged,    \* per copy: whether a write of its ingestion log has failed
  abandoned    \* per copy: whether an append was dropped while its file was written

disk == << txn, files, logFile, torn, identity, minted >>
projection == << checkpoint, handled >>
process == << open, index, pending, remaining >>
accidents == << unlogged, abandoned >>
vars == << disk, projection, process, accidents >>

-------------------------------------------------------------------------------
(***************************************************************************)
(* A history: the transactions whose files are present, a function.  The   *)
(* definitions down to detect_dangling compute from a history alone.       *)
(***************************************************************************)
History(headers) == [t \in headers |-> txn[t]]

\* is_ancestor: reachable over the parents of present transactions
Ancestors(h) ==
  LET up[t \in DOMAIN h] == h[t].parents \cup UNION {up[p] : p \in h[t].parents \cap DOMAIN h}
  IN up

Concurrent(t, u, ancestors) == t # u /\ t \notin ancestors[u] /\ u \notin ancestors[t]

TipsOf(h) == DOMAIN h \ UNION {h[t].parents : t \in DOMAIN h}

Depths(h) ==
  LET depth[t \in DOMAIN h] ==
        LET present == h[t].parents \cap DOMAIN h
        IN IF present = {} THEN 0 ELSE 1 + Max({depth[p] : p \in present})
  IN depth

EventsOf(h) == UNION {{t} \X DOMAIN h[t].events : t \in DOMAIN h}

StreamOf(h, event) == h[event[1]].events[event[2]]

OfStream(h, s) == {e \in EventsOf(h) : StreamOf(h, e) = s}

Precedes(k, l) == \E i \in DOMAIN k : k[i] < l[i] /\ \A j \in 1..(i - 1) : k[j] = l[j]

(***************************************************************************)
(* linearize: by depth; concurrent ones by recorded values only, so that   *)
(* copies with the same files compute the same order.  Here it orders the  *)
(* events, those of one transaction as they are in its file.               *)
(***************************************************************************)
Linearize(h) ==
  LET depth == Depths(h)
      Key(e) == << depth[e[1]], h[e[1]].created, h[e[1]].replica, e[1], e[2] >>
  IN {p \in EventsOf(h) \X EventsOf(h) : p[1] = p[2] \/ Precedes(Key(p[1]), Key(p[2]))}

Position(order, events, e) == Cardinality({f \in events : << f, e >> \in order})

InOrder(order, events) ==
  [i \in 1..Cardinality(events) |-> CHOOSE e \in events : Position(order, events, e) = i]

ByStream(h) ==
  LET order == Linearize(h) IN [s \in Streams |-> InOrder(order, OfStream(h, s))]

-------------------------------------------------------------------------------
(***************************************************************************)
(* Forks.                                                                  *)
(***************************************************************************)
\* check_replica_collisions
IdentityConflict(h) ==
  LET ancestors == Ancestors(h)
  IN \E t, u \in DOMAIN h : h[t].replica = h[u].replica /\ Concurrent(t, u, ancestors)

\* fork_is_resolved: some transaction descends from every head
Resolved(heads, ancestors) == \E t \in DOMAIN ancestors : heads \subseteq ancestors[t]

(***************************************************************************)
(* detect_forks: two or more transactions recorded the same base for a     *)
(* stream and no transaction joins them.                                   *)
(***************************************************************************)
Forks(h) ==
  LET ancestors == Ancestors(h)
      bases == UNION {{<< s, h[t].bases[s] >> : s \in DOMAIN h[t].bases} : t \in DOMAIN h}
      Heads(key) == {t \in DOMAIN h : key[1] \in DOMAIN h[t].bases /\ h[t].bases[key[1]] = key[2]}
  IN {fork \in {[stream |-> key[1], base |-> key[2], heads |-> Heads(key)] : key \in bases} :
        Cardinality(fork.heads) >= 2 /\ ~Resolved(fork.heads, ancestors)}

\* detect_dangling
Dangling(h) == {t \in DOMAIN h : ~(h[t].parents \subseteq DOMAIN h)}

-------------------------------------------------------------------------------
(***************************************************************************)
(* The ingestion log: an event keeps the sequence number it was given      *)
(* first, new ones get the next in their order.  (Mutants: the last number *)
(* is given out again; opening numbers all events in canonical order.)     *)
(***************************************************************************)
LastSeq(seqs) == Max({0} \cup {seqs[e] : e \in DOMAIN seqs})

NextSeqReused(seqs) == Max({1, LastSeq(seqs)})

NextSeq(seqs) == LastSeq(seqs) + 1

Allocated(seqs, h) ==
  LET new == EventsOf(h) \ DOMAIN seqs
      order == Linearize(h)
  IN [e \in DOMAIN seqs \cup new |->
        IF e \in DOMAIN seqs THEN seqs[e] ELSE NextSeq(seqs) + Position(order, new, e) - 1]

NoIndex == [headers |-> {}, streams |-> [s \in Streams |-> << >>], tips |-> {}, seqs |-> << >>]

ScannedInCanonicalOrder(w) ==
  LET h == History(files[w])
  IN [headers |-> files[w],
      streams |-> ByStream(h),
      tips |-> TipsOf(h),
      seqs |-> Allocated(<< >>, h)]

Scanned(w) ==
  LET h == History(files[w])
  IN [headers |-> files[w],
      streams |-> ByStream(h),
      tips |-> TipsOf(h),
      seqs |-> Allocated(logFile[w], h)]

Init ==
  /\ txn = << >>
  /\ files = [w \in Copies |-> {}]
  /\ logFile = [w \in Copies |-> << >>]
  /\ torn = [w \in Copies |-> FALSE]
  /\ identity = [w \in Copies |-> [id |-> 0, print |-> None]]
  /\ checkpoint = [w \in Copies |-> 0]
  /\ handled = [w \in Copies |-> {}]
  /\ open = [w \in Copies |-> FALSE]
  /\ index = [w \in Copies |-> NoIndex]
  /\ pending = [w \in Copies |-> None]
  /\ remaining = [w \in Copies |-> << >>]
  /\ minted = 0
  /\ unlogged = [w \in Copies |-> FALSE]
  /\ abandoned = [w \in Copies |-> FALSE]

-------------------------------------------------------------------------------
(***************************************************************************)
(* Opening: the recorded replica id is used again only if its fingerprint  *)
(* is this copy's.  (Mutant: always.)  A store nobody has open does        *)
(* nothing, so that its end and its next opening are one step.             *)
(***************************************************************************)
KeepsAnyIdentity(w) == identity[w].id # 0

KeepsIdentity(w) == identity[w].print = w

ReplicaId(w) == IF KeepsIdentity(w) THEN identity[w].id ELSE minted + 1

LoadIdentity(w) ==
  /\ identity' = [identity EXCEPT ![w] = [id |-> ReplicaId(w), print |-> w]]
  /\ minted' = Max({minted, ReplicaId(w)})

\* the process that had the store open, if any, has ended or died, wherever it was
Ended(w) == /\ pending' = [pending EXCEPT ![w] = None]
            /\ remaining' = [remaining EXCEPT ![w] = << >>]

Open(w) ==
  /\ ~torn[w]
  /\ Ended(w)
  /\ LoadIdentity(w)
  /\ open' = [open EXCEPT ![w] = TRUE]
  /\ \E scanned \in {Scanned(w)} : /\ index' = [index EXCEPT ![w] = scanned]
                                  /\ logFile' = [logFile EXCEPT ![w] = scanned.seqs]
  /\ UNCHANGED << txn, files, torn, projection, accidents >>

\* only the first lines of the new entries are written: the store does not open
OpenFails(w) ==
  /\ ~torn[w]
  /\ w \in Failing
  /\ Ended(w)
  /\ LoadIdentity(w)
  /\ open' = [open EXCEPT ![w] = FALSE]
  /\ index' = [index EXCEPT ![w] = NoIndex]
  /\ \E seqs \in {Scanned(w).seqs} :
       /\ LastSeq(logFile[w]) < LastSeq(seqs)
       /\ \/ torn' = [torn EXCEPT ![w] = TRUE] /\ UNCHANGED logFile
          \/ \E last \in LastSeq(logFile[w])..(LastSeq(seqs) - 1) :
               /\ logFile' = [logFile EXCEPT ![w] =
                                Restrict(seqs, {e \in DOMAIN seqs : seqs[e] <= last})]
               /\ UNCHANGED torn
  /\ UNCHANGED << txn, files, projection, accidents >>

-------------------------------------------------------------------------------
(***************************************************************************)
(* Appending and reconciling exclude each other (append_lock).             *)
(***************************************************************************)
StreamHead(w, s) == Len(index[w].streams[s])

\* the file appears by a rename, whole; nobody reads the index in between
WriteTransaction(w, parents, registered, events) ==
  /\ Len(txn) < MaxTransactions
  /\ txn' = Append(txn, [replica |-> identity[w].id,
                         parents |-> parents,
                         created |-> Len(txn) + Skew[w],
                         bases |-> [s \in registered |-> StreamHead(w, s)],
                         events |-> events,
                         knew |-> index[w].headers])
  /\ files' = [files EXCEPT ![w] = @ \cup {Len(txn) + 1}]
  /\ UNCHANGED << logFile, torn, identity, minted, projection, open, index, unlogged >>

\* the new transaction is about to enter the index, which then has these tips
Publishes(w, tips) == pending' = [pending EXCEPT ![w] = [txn |-> Len(txn) + 1, tips |-> tips]]

(***************************************************************************)
(* An append whose expected versions are current: its parents are all the  *)
(* tips.  A conflict, and a file that cannot be written, change nothing.   *)
(* (Mutant: one of the tips.)                                              *)
(***************************************************************************)
LatestTip(w) == IF index[w].tips = {} THEN {} ELSE {Max(index[w].tips)}

ParentsFor(w) == index[w].tips

WriteBatch(w) ==
  /\ open[w] /\ pending[w] = None /\ remaining[w] = << >>
  /\ Cardinality({t \in DOMAIN txn : txn[t].replica = identity[w].id}) < MaxAppends[w]
  /\ \E batch \in Batches[w] :
       WriteTransaction(w, ParentsFor(w), batch.reads \cup batch.writes, SetToSeq(batch.writes))
  /\ UNCHANGED remaining

AppendEvents(w) ==
  /\ WriteBatch(w)
  /\ Publishes(w, {Len(txn) + 1})
  /\ UNCHANGED abandoned

\* the caller drops the call: the blocking task still writes the file, the lock is free, and
\* the store goes on as if there were no such transaction until it is opened again
AbandonAppend(w) ==
  /\ w \in Impatient /\ ~abandoned[w]
  /\ WriteBatch(w)
  /\ abandoned' = [abandoned EXCEPT ![w] = TRUE]
  /\ UNCHANGED pending

\* reconcile computes the forks once; with an identity conflict it fails
Reconcile(w) ==
  /\ open[w] /\ pending[w] = None /\ remaining[w] = << >>
  /\ ~IdentityConflict(History(index[w].headers))
  /\ Forks(History(index[w].headers)) # {}
  /\ remaining' = [remaining EXCEPT ![w] = SetToSeq(Forks(History(index[w].headers)))]
  /\ UNCHANGED << disk, projection, open, index, pending, accidents >>

(***************************************************************************)
(* The resolver returns no event or one for the forked stream: in either   *)
(* case a transaction with the fork's heads as parents, whatever the tips. *)
(***************************************************************************)
ResolveFork(w) ==
  /\ pending[w] = None /\ remaining[w] # << >>
  /\ \E events \in {<< >>, << Head(remaining[w]).stream >>} :
       WriteTransaction(w, Head(remaining[w]).heads, ToSet(events), events)
  /\ Publishes(w, (index[w].tips \ Head(remaining[w]).heads) \cup {Len(txn) + 1})
  /\ remaining' = [remaining EXCEPT ![w] = Tail(@)]
  /\ UNCHANGED abandoned

DeclineFork(w) ==
  /\ pending[w] = None /\ remaining[w] # << >>
  /\ remaining' = [remaining EXCEPT ![w] = Tail(@)]
  /\ UNCHANGED << disk, projection, open, index, pending, accidents >>

(***************************************************************************)
(* The index takes the transaction in: its events go to the end of their   *)
(* streams and of the local sequence.  (Mutant: the streams stay.)         *)
(***************************************************************************)
PublishedWithoutStreams(w) ==
  LET t == pending[w].txn
  IN [headers |-> index[w].headers \cup {t},
      streams |-> index[w].streams,
      tips |-> pending[w].tips,
      seqs |-> Allocated(index[w].seqs, History({t}))]

Published(w) ==
  LET t == pending[w].txn
      new == ByStream(History({t}))
  IN [headers |-> index[w].headers \cup {t},
      streams |-> [s \in Streams |-> index[w].streams[s] \o new[s]],
      tips |-> pending[w].tips,
      seqs |-> Allocated(index[w].seqs, History({t}))]

\* the index is written and the log persisted under one write lock
Publish(w) ==
  /\ pending[w] # None
  /\ \E published \in {Published(w)} :
       /\ index' = [index EXCEPT ![w] = published]
       /\ logFile' = [logFile EXCEPT ![w] =
                        [e \in DOMAIN @ \cup EventsOf(History({pending[w].txn})) |-> published.seqs[e]]]
  /\ pending' = [pending EXCEPT ![w] = None]
  /\ UNCHANGED << txn, files, torn, identity, minted, projection, open, remaining, accidents >>

\* the log is not written: the call fails, the events stay
PublishUnlogged(w) ==
  /\ pending[w] # None
  /\ w \in Failing /\ ~unlogged[w]
  /\ index' = [index EXCEPT ![w] = Published(w)]
  /\ \E tear \in BOOLEAN : torn' = [torn EXCEPT ![w] = tear]
  /\ pending' = [pending EXCEPT ![w] = None]
  /\ remaining' = [remaining EXCEPT ![w] = << >>]
  /\ unlogged' = [unlogged EXCEPT ![w] = TRUE]
  /\ UNCHANGED << txn, files, logFile, identity, minted, projection, open, abandoned >>

-------------------------------------------------------------------------------
(***************************************************************************)
(* A projection reads the next event after its checkpoint, in the local    *)
(* sequence.                                                               *)
(***************************************************************************)
EventsIn(w) == UNION {ToSet(index[w].streams[s]) : s \in Streams}

Project(w) ==
  /\ w \in Projecting /\ open[w]
  /\ \E e \in EventsIn(w) :
       /\ index[w].seqs[e] > checkpoint[w]
       /\ \A f \in EventsIn(w) : index[w].seqs[f] > checkpoint[w]
                                   => index[w].seqs[e] <= index[w].seqs[f]
       /\ handled' = [handled EXCEPT ![w] = @ \cup {e}]
       /\ checkpoint' = [checkpoint EXCEPT ![w] = index[w].seqs[e]]
  /\ UNCHANGED << disk, process, accidents >>

(***************************************************************************)
(* git: files of another copy arrive, possibly not all of them.  Nothing   *)
(* else is committed.                                                      *)
(***************************************************************************)
GitMerge(w, v) ==
  /\ \E arrived \in IF w \in PartialMerges THEN SUBSET files[v] ELSE {files[v]} :
       /\ ~(arrived \subseteq files[w])
       /\ files' = [files EXCEPT ![w] = @ \cup arrived]
  /\ UNCHANGED << txn, logFile, torn, identity, minted, projection, process, accidents >>

\* cp -r into an unused place, ignored files included
CopyTree(w, v) ==
  /\ files[w] = {} /\ ~open[w] /\ identity[w].id = 0
  /\ identity[v].id # 0
  /\ files' = [files EXCEPT ![w] = files[v]]
  /\ logFile' = [logFile EXCEPT ![w] = logFile[v]]
  /\ torn' = [torn EXCEPT ![w] = torn[v]]
  /\ identity' = [identity EXCEPT ![w] = identity[v]]
  /\ checkpoint' = [checkpoint EXCEPT ![w] = checkpoint[v]]
  /\ handled' = [handled EXCEPT ![w] = handled[v]]
  /\ unlogged' = [unlogged EXCEPT ![w] = unlogged[v]]
  /\ UNCHANGED << txn, minted, process, abandoned >>

Next ==
  \/ \E w \in Copies :
       \/ Open(w) \/ OpenFails(w)
       \/ AppendEvents(w) \/ AbandonAppend(w) \/ Reconcile(w) \/ ResolveFork(w) \/ DeclineFork(w)
       \/ Publish(w) \/ PublishUnlogged(w)
       \/ Project(w)
  \/ \E w, v \in Copies : GitMerge(w, v) \/ CopyTree(w, v)

Spec == Init /\ [][Next]_vars

-------------------------------------------------------------------------------
(***************************************************************************)
(* Types; in particular parents are older transactions, and no two events  *)
(* have the same position in a copy's local sequence.                      *)
(***************************************************************************)
TypeOK ==
  /\ Len(txn) <= MaxTransactions
  /\ \A t \in DOMAIN txn : /\ txn[t].parents \subseteq 1..(t - 1)
                           /\ txn[t].replica \in 1..minted
                           /\ txn[t].created \in Nat
                           /\ \A s \in DOMAIN txn[t].bases : txn[t].bases[s] \in Nat
  /\ files \in [Copies -> SUBSET DOMAIN txn]
  /\ torn \in [Copies -> BOOLEAN]
  /\ \A w \in Copies : /\ identity[w].id \in 0..minted
                       /\ identity[w].print \in Copies \cup {None}
                       /\ pending[w] # None => pending[w].txn \in files[w]
                       /\ IsInjective(index[w].seqs)
  /\ checkpoint \in [Copies -> Nat]
  /\ open \in [Copies -> BOOLEAN]

(***************************************************************************)
(* A reconciliation's transaction that some tip of its writer's history is *)
(* not below: it joins transactions that recorded one base of one stream,  *)
(* and leaves what has since been written on top of them aside.            *)
(***************************************************************************)
ShareBase(heads) ==
  /\ Cardinality(heads) >= 2
  /\ \E s \in Streams : \A t, u \in heads : /\ s \in DOMAIN txn[t].bases /\ s \in DOMAIN txn[u].bases
                                           /\ txn[t].bases[s] = txn[u].bases[s]

LeavesTips(t) == ~(TipsOf(History(txn[t].knew)) \subseteq txn[t].parents)

IsNarrowMerge(t) == LeavesTips(t) /\ ShareBase(txn[t].parents)

(***************************************************************************)
(* The index an open store has built up step by step is the one that       *)
(* opening it anew would compute from the same transactions: every stream  *)
(* has its events once each, in the canonical order, whoever holds the     *)
(* files and since when.  The order, no more, may be another one where     *)
(* this copy's identity has put an event there by a merge that left tips   *)
(* aside.  The transactions are durable.                                   *)
(***************************************************************************)
IndexIsCanonical ==
  \A w \in Copies : open[w] =>
    LET headers == index[w].headers
        h == History(headers)
        NarrowlyMerged(s) == \E t \in headers : /\ txn[t].replica = identity[w].id
                                                /\ IsNarrowMerge(t)
                                                /\ s \in ToSet(txn[t].events)
    IN /\ headers \subseteq files[w]
       /\ index[w].tips = TipsOf(h)
       /\ \A s \in Streams :
            /\ ToSet(index[w].streams[s]) = OfStream(h, s)
            /\ Len(index[w].streams[s]) = Cardinality(OfStream(h, s))
            /\ index[w].streams[s] = ByStream(h)[s] \/ NarrowlyMerged(s)

(***************************************************************************)
(* A projection has handled exactly the events up to its checkpoint:       *)
(* whatever is merged in, crashes and is opened again, no event slips      *)
(* behind the checkpoint unseen and none comes back, as long as no write   *)
(* of the ingestion log failed.                                            *)
(***************************************************************************)
CursorIsExact ==
  \A w \in Copies : open[w] /\ ~unlogged[w] =>
    handled[w] = {e \in EventsIn(w) : index[w].seqs[e] <= checkpoint[w]}

Complete(headers) == Dangling(History(headers)) = {}

(***************************************************************************)
(* A head of a fork that wrote the stream was not known to the writer of   *)
(* any other head, who would have counted its event in his base, unless    *)
(* parents were missing from what he had, or the head is itself a merge    *)
(* that left tips aside.                                                   *)
(***************************************************************************)
ForksAreReal ==
  \A w \in Copies : \A fork \in Forks(History(index[w].headers)) : \A t, u \in fork.heads :
    fork.stream \in ToSet(txn[t].events) /\ t \in txn[u].knew /\ Complete(txn[u].knew)
      => IsNarrowMerge(t)

(***************************************************************************)
(* Every working copy writes under an identity of its own.  In a complete  *)
(* history two transactions of one identity are concurrent only where the  *)
(* later is a merge that left the earlier aside, unless an append was      *)
(* dropped while its file was written.                                     *)
(***************************************************************************)
ConflictsAreByMerges ==
  \A w \in Copies :
    Complete(index[w].headers) /\ (\A v \in Copies : ~abandoned[v]) =>
      LET h == History(index[w].headers)
      IN \A t, u \in DOMAIN h :
           t < u /\ h[t].replica = h[u].replica /\ Concurrent(t, u, Ancestors(h)) => IsNarrowMerge(u)

-------------------------------------------------------------------------------
(***************************************************************************)
(* What is claimed without those exceptions.                               *)
(***************************************************************************)
\* holders of the same files compute the same order
CopiesConverge ==
  \A w \in Copies : open[w] => index[w].streams = ByStream(History(index[w].headers))

\* the transactions of one writer are a chain
WritersAreChains ==
  \A w \in Copies : Complete(index[w].headers) => ~IdentityConflict(History(index[w].headers))

\* transactions that recorded the same base of a stream are concurrent
ForkHeadsAreConcurrent ==
  \A w \in Copies :
    LET h == History(index[w].headers)
    IN \A fork \in Forks(h) : \A t, u \in fork.heads : t # u => Concurrent(t, u, Ancestors(h))

(***************************************************************************)
(* At least one of the three: a state without it contradicts each of them. *)
(***************************************************************************)
SomeClaimHolds == CopiesConverge \/ WritersAreChains \/ ForkHeadsAreConcurrent
===============================================================================
