------------------------------- MODULE MCContract -------------------------------
(***************************************************************************)
(* Small instance of StoreContract: any two tests of the suite side by     *)
(* side.                                                                   *)
(***************************************************************************)
EXTENDS StoreContract

CONSTANTS c1, c2

MCCharacters == {"-", "_", "%", "!", "^", "?", "1", "2", "7", "a", "w", "x", "y", "z"}
MCLetterCases == {{"account", "Account"}, {"x", "X"}}

\* each unordered pair of tests once, and each test alone
MCSchedules ==
  LET tests == << "none" >> \o FoldSet(LAMBDA t, seq : Append(seq, t), << >>, DOMAIN SuiteFor(c1))
  IN {(c1 :> tests[p[1]]) @@ (c2 :> tests[p[2]]) :
        p \in {q \in (DOMAIN tests) \X (DOMAIN tests) : q[2] <= q[1]}}
===============================================================================
