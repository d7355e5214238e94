-------------------------------- MODULE MCAppend --------------------------------
(***************************************************************************)
(* Small instances of PostgresAppend.                                      *)
(***************************************************************************)
EXTENDS PostgresAppend

CONSTANTS a1, a2, a3

(***************************************************************************)
(* Writers of one stream that read another, a writer of two streams in two *)
(* chunks, a writer of one stream, and an empty batch.                     *)
(***************************************************************************)
SmallRequests ==
  { [declared |-> {1, 2}, entries |-> << 1 >>],
    [declared |-> {1, 2}, entries |-> << 2, 1, 2 >>],
    [declared |-> {2, 3}, entries |-> << 3 >>],
    [declared |-> {1}, entries |-> << 1 >>],
    [declared |-> {1}, entries |-> << >>] }
===============================================================================
