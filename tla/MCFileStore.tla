------------------------------- MODULE MCFileStore -------------------------------
(***************************************************************************)
(* Small instances of FileStore: two copies, two streams; a guarded batch  *)
(* writes one of them having read the other.                               *)
(***************************************************************************)
EXTENDS FileStore

CONSTANTS a, b, s1, s2

Plain == [reads |-> {}, writes |-> {s1}]

Guarded == [reads |-> {s1}, writes |-> {s2}]

\* b, whose clock is ahead, writes more often than a, which reads before it writes
MCBatches == [w \in {a, b} |-> IF w = a THEN {Plain, Guarded} ELSE {Plain}]

MCMaxAppends == [w \in {a, b} |-> IF w = a THEN 1 ELSE 2]

MCSkew == [w \in {a, b} |-> IF w = b THEN 2 ELSE 0]

\* b both ways, a plainly
ClaimsBatches == [w \in {a, b} |-> IF w = b THEN {Plain, Guarded} ELSE {Plain}]

ClaimsMaxAppends == [w \in {a, b} |-> IF w = a THEN 1 ELSE 3]
===============================================================================
