------------------------------- MODULE MCPolling -------------------------------
(***************************************************************************)
(* Small instances of ProjectionPipeline; the mode of each call is chosen  *)
(* in Init.                                                                *)
(***************************************************************************)
EXTENDS ProjectionPipeline

CONSTANTS r1, r2
===============================================================================
