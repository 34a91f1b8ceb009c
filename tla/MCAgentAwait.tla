----------------------------- MODULE MCAgentAwait -----------------------------
(* Instances of AgentAwait for TLC. *)
EXTENDS AgentAwait, TLC

CONSTANTS a1, a2, c1, c2

TwoAwaits == {a1, a2}
OneAwait == {a1}
NoAwait == {}
OnlyA2 == {a2}
OneChild == {c1}
TwoChildren == {c1, c2}

\* a1 joins both runs; a1 waits for c1; a1 and a2 wait for c1.
JoinBoth == (a1 :> {c1, c2})
WaitForOne == (a1 :> {c1})
SharedChild == (a1 :> {c1} @@ a2 :> {c1})

\* Bound: the registration of a1 is over before that of a2 starts.
OneAfterTheOther == registrar[a2] = "create" \/ registrar[a1] = "done"
=============================================================================
