------------------------------- MODULE MCSnapshot -------------------------------
(***************************************************************************)
(* Small instances of SnapshotReplay.                                      *)
(***************************************************************************)
EXTENDS SnapshotReplay

CONSTANTS c1, c2

(***************************************************************************)
(* Two commands over the same streams: the order in which they visit the   *)
(* discovered ones differs.                                                *)
(***************************************************************************)
SmallDeclared == [c \in Commands |-> IF c = c1 THEN << 1 >> ELSE << 1, 2 >>]

(***************************************************************************)
(* The first event of stream 1 leads to streams 3 and 2, the second one    *)
(* only to stream 2: discovery may shrink.                                 *)
(***************************************************************************)
SmallResolver ==
  [E \in SUBSET Event |-> IF << 1, 2 >> \in E THEN << 2 >>
                          ELSE IF << 1, 1 >> \in E THEN << 3, 2, 3 >>
                          ELSE << >>]

SmallBatches == [c \in Commands |-> IF c = c1 THEN {<< 2 >>} ELSE {<< 3, 1 >>, << >>}]
===============================================================================
