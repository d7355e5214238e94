-------------------------- MODULE AtLeastOnceDelivery --------------------------
(***************************************************************************)
(* What polling projections promise: events are handled in the order of    *)
(* their positions with none left out, and the checkpoint never moves past *)
(* an event that was not handled.  An event may be handled again, and the  *)
(* checkpoint may move back.  ProjectionPipeline implements this.          *)
(***************************************************************************)
EXTENDS Integers

CONSTANTS Eligible,   \* positions of the events a projector can receive
          MaxPosition \* bound on positions

VARIABLES head,      \* the position of the last committed event
          handled,   \* positions applied or skipped at least once
          checkpoint \* the stored position, 0 for none

vars == << head, handled, checkpoint >>

Init == head = 0 /\ handled = {} /\ checkpoint = 0

Publish == /\ head < MaxPosition /\ head' = head + 1
           /\ UNCHANGED << handled, checkpoint >>

(***************************************************************************)
(* Every event up to c that can be received has been handled.              *)
(***************************************************************************)
HandledUpTo(c) == \A q \in Eligible : q <= c /\ q <= head => q \in handled

Handle == /\ \E p \in Eligible : /\ p <= head
                                   /\ HandledUpTo(p - 1)
                                   /\ handled' = handled \cup {p}
          /\ UNCHANGED << head, checkpoint >>

Save == /\ \E c \in 0..MaxPosition : HandledUpTo(c) /\ checkpoint' = c
        /\ UNCHANGED << head, handled >>

Next == Publish \/ Handle \/ Save

Spec == Init /\ [][Next]_vars
===============================================================================
