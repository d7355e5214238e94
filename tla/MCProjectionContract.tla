-------------------------- MODULE MCProjectionContract --------------------------
(***************************************************************************)
(* Small instance of ProjectionContract.  The longest test publishes eight *)
(* selected events.                                                        *)
(***************************************************************************)
EXTENDS ProjectionContract

MCSelected == {p \in 1..MaxPosition : p % 2 = 0}
===============================================================================
