-------------------------- MODULE ExactlyOnceDelivery --------------------------
(***************************************************************************)
(* What the transactional projection facility promises: the read model is  *)
(* the effect of the selected events, each delivered once, in the order of *)
(* their delivery positions and with none left out, except those the       *)
(* application chose to skip.  A reset empties the read model and starts   *)
(* over.  TransactionalProjection implements this specification.           *)
(***************************************************************************)
EXTENDS Integers, Sequences

CONSTANTS Selected,   \* the delivery positions of the selected events
          MaxPosition \* bound on the source's frontier

VARIABLES frontier,  \* the greatest committed delivery position
          progress,  \* the position delivered last, 0 for none
          readModel, \* the positions whose effects the read model holds
          skipped    \* the positions passed over by choice

vars == << frontier, progress, readModel, skipped >>

Init == frontier = 0 /\ progress = 0 /\ readModel = << >> /\ skipped = {}

Publish == /\ \E last \in (frontier + 1)..MaxPosition : frontier' = last
           /\ UNCHANGED << progress, readModel, skipped >>

(***************************************************************************)
(* The next selected event is p: none lies between it and the progress.    *)
(***************************************************************************)
Due(p) == /\ p \in Selected /\ progress < p /\ p <= frontier
          /\ \A q \in Selected : q <= progress \/ p <= q

Deliver == \E p \in 1..frontier : /\ Due(p)
                                  /\ progress' = p
                                  /\ readModel' = Append(readModel, p)
                                  /\ UNCHANGED << frontier, skipped >>

Skip == \E p \in 1..frontier : /\ Due(p)
                               /\ progress' = p
                               /\ skipped' = skipped \cup {p}
                               /\ UNCHANGED << frontier, readModel >>

Reset == /\ progress' = 0 /\ readModel' = << >> /\ skipped' = {}
         /\ UNCHANGED frontier

Next == Publish \/ Deliver \/ Skip \/ Reset

Spec == Init /\ [][Next]_vars
===============================================================================
