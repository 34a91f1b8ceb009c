----------------------- MODULE MCWorkflowRunProgress -----------------------
(***************************************************************************)
(* Small job graphs for TLC.  Jobs are named a, b, c, d in the order of    *)
(* the definition; a .cfg picks one graph by giving Needs, CondReads and   *)
(* Transitions the definitions below.                                      *)
(***************************************************************************)
EXTENDS WorkflowRunProgress, TLC

\* Handlers other than the launcher are interchangeable.
HandlerSymmetry == Permutations(Handler \ {Launcher})

Order == [a |-> 0, b |-> 1, c |-> 2, d |-> 3]

MCRank == [j \in Job |-> Order[j]]

After(id) == [id |-> id, policy |-> "success", optional |-> FALSE]

AfterAll(ids) == {After(id) : id \in ids}

NoJobs == [j \in Job |-> {}]

Only(j, S) == [k \in Job |-> IF k = j THEN S ELSE {}]

\* a fans out to b and c, d needs a and c: it falls with c when a goes to b.
Fork ==
  [j \in Job |-> CASE j = "a" -> {}
                   [] j \in {"b", "c"} -> AfterAll({"a"})
                   [] OTHER -> AfterAll({"a", "c"})]

\* a and b are roots, c waits for a alone.
Staggered == Only("c", AfterAll({"a"}))

\* The condition of d tests the output of a.
DTestsA == Only("d", {"a"})

\* a and b are roots, c and d join them.
TwoJoins ==
  [j \in Job |-> IF j \in {"c", "d"} THEN AfterAll({"a", "b"}) ELSE {}]

\* a branches to c.
AToC == Only("a", {"c"})

\* a branches to b or c.
AToBOrC == Only("a", {"b", "c"})

\* The graphs above are acyclic, with the jobs in an order of the levels.
ASSUME GraphLayered == Layered
=============================================================================
