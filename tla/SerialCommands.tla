---------------------------- MODULE SerialCommands ----------------------------
(***************************************************************************)
(* What eventcore promises its callers about `execute`: commands behave as *)
(* if they ran one at a time.  A command that appends events saw, for      *)
(* every stream it took into account, the whole stream as it stood at the  *)
(* moment its events were appended, and all of its events were appended    *)
(* then.  This is the abstract specification ExecutePipeline implements.   *)
(***************************************************************************)
EXTENDS Integers, Sequences

CONSTANTS Commands, \* the calls of `execute`
          Streams,  \* stream identifiers
          Emits     \* Emits[c]: the batches c may emit, events per stream

VARIABLES streams, \* streams[s]: the events of stream s, oldest first
          status,  \* status[c]: "running", "succeeded" or "failed"
          view     \* view[c]: what an appending command had seen of each stream

vars == << streams, status, view >>

(***************************************************************************)
(* The n events a command appends to one stream, in order.                 *)
(***************************************************************************)
Batch(c, n) == [i \in 1..n |-> << c, i >>]

Unseen == [s \in Streams |-> << >>]

Init == /\ streams = [s \in Streams |-> << >>]
        /\ status = [c \in Commands |-> "running"]
        /\ view = [c \in Commands |-> Unseen]

(***************************************************************************)
(* The whole command happens in one step: it sees the streams of `seen`    *)
(* as they are and appends events to some of them.  The caller learns of   *)
(* it, or the acknowledgement is lost.                                     *)
(***************************************************************************)
Run(c) ==
  /\ status[c] = "running"
  /\ \E seen \in SUBSET Streams, batch \in Emits[c] :
       /\ \A s \in Streams \ seen : batch[s] = 0
       /\ view' = [view EXCEPT ![c] = [s \in Streams |->
                                         IF s \in seen THEN streams[s] ELSE << >>]]
       /\ streams' = [s \in Streams |-> streams[s] \o Batch(c, batch[s])]
  /\ \E answer \in {"succeeded", "failed"} : status' = [status EXCEPT ![c] = answer]

(***************************************************************************)
(* A command ends without events: nothing to do, or an error.              *)
(***************************************************************************)
End(c) ==
  /\ status[c] = "running"
  /\ \E answer \in {"succeeded", "failed"} : status' = [status EXCEPT ![c] = answer]
  /\ UNCHANGED << streams, view >>

Next == \E c \in Commands : Run(c) \/ End(c)

Spec == Init /\ [][Next]_vars
===============================================================================
