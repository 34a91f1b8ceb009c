--------------------------- MODULE MCScheduledJobs ---------------------------
(***************************************************************************)
(* The schedules of the instance.                                          *)
(***************************************************************************)
EXTENDS ScheduledJobs

\* The job is created at time 0: by time 4 a run of the shorter interval has
\* been missed, and a tick may be off the grid of either interval.
MCSchedules == {[type |-> "one_time", value |-> 3], [type |-> "interval", value |-> 2],
                [type |-> "interval", value |-> 3], [type |-> "cron", value |-> 2]}
=============================================================================
