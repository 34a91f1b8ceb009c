----------------------------- MODULE MCRunQueue -----------------------------
(***************************************************************************)
(* Small sets of launches for TLC.  Launches are named a, b, c, d.         *)
(***************************************************************************)
EXTENDS RunQueue

CONSTANTS h1, s1, k1

OneHost == [x \in Run \cup Hand |-> s1]

\* a and b carry the same dedupe key.
ABShareKey == [r \in Run |-> IF r \in {"a", "b"} THEN k1 ELSE NoKey]

\* c and d carry the same trigger data, without a dedupe key.
CDAlike == [r \in Run |-> IF r = "d" THEN "c" ELSE r]

AllDiffer == [r \in Run |-> r]
=============================================================================
