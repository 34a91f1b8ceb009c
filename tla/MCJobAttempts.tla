--------------------------- MODULE MCJobAttempts ---------------------------
(***************************************************************************)
(* The reports of agents that arrive, for the runs.                        *)
(***************************************************************************)
EXTENDS JobAttempts

NoReports == {}

\* The agent of the first execution beats, that of the second is finalized.
SomeReports == {<<"heartbeat", 1>>, <<"finalizer", 2>>}

\* Bound: a run is followed up to its end.
Unfinished == run = "RUNNING"
=============================================================================
