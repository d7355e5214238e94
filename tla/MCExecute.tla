------------------------------- MODULE MCExecute -------------------------------
(***************************************************************************)
(* Small instances of ExecutePipeline.  `c1` declares one stream and may   *)
(* discover the other (its resolver repeats itself and names streams that  *)
(* are already scheduled); it writes, forgets to declare, or emits         *)
(* nothing.  `c2` declares both streams and writes to one or both; `c3`    *)
(* competes on a single stream.                                            *)
(***************************************************************************)
EXTENDS ExecutePipeline

CONSTANTS c1, c2, c3, a, b

Batches(atA, atB) == [s \in Streams |-> IF s = a THEN atA ELSE atB]

MCDeclared ==
  [c \in Commands |-> CASE c = c1 -> << a >> [] c = c2 -> << b, a >> [] OTHER -> << a >>]

MCResolver ==
  [c \in Commands |-> IF c = c1 THEN {<< >>, << b, a, b >>} ELSE {<< >>}]

MCEmits ==
  [c \in Commands |->
     CASE c = c1 -> {Batches(0, 0), Batches(0, 1)}
       [] c = c2 -> {Batches(1, 0), Batches(1, 2)}
       [] OTHER -> {Batches(1, 0)}]
===============================================================================
