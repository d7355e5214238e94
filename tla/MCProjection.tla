------------------------------ MODULE MCProjection ------------------------------
(***************************************************************************)
(* Small instances of TransactionalProjection.  Calls are interchangeable: *)
(* what each is, its mode and its identity are chosen in Init.             *)
(***************************************************************************)
EXTENDS TransactionalProjection, TLC

Interchangeable == Permutations(Runners)
===============================================================================
