----------------------------- MODULE ScheduledJobs -----------------------------
(***************************************************************************)
(* One scheduled job of the automation module: the poll tick that claims   *)
(* its due occurrences and dispatches a workflow for each, the API         *)
(* requests that edit, pause, resume, trigger and delete it, and the       *)
(* listener that copies the workflow's progress to the scheduled run.      *)
(*                                                                         *)
(* Times are ticks of the clock, 0 stands for null.  An occurrence is      *)
(* named by its due time, which is also the unique key of its row in       *)
(* scheduled_job_runs.  Each awaited call is a step: a poller claims with  *)
(* the row findDueJobs returned, a request writes what it computed from    *)
(* the row it read.                                                        *)
(***************************************************************************)
EXTENDS Naturals, Sequences, FiniteSets

CONSTANTS
    Pollers,        \* processes that may run a poll tick
    Requests,       \* API requests, each of them made once at most
    Schedules,      \* schedules the requests choose from
    MaxTime,        \* bound: the clock
    MaxFaults,      \* bound: restarts and database errors
    Reported        \* bound: occurrences whose workflow leaves the launch queue

\* A schedule: its type and, in ticks, its date, interval or cron period.
Schedule == [type : {"one_time", "interval", "cron"}, value : Nat \ {0}]

ASSUME SchedulesAssumption ==
    /\ Schedules \subseteq Schedule
    /\ MaxTime \in Nat \ {0}
    /\ MaxFaults \in Nat
    /\ Reported \subseteq 1 .. MaxTime
    /\ Pollers \cap Requests = {}

Due == 1 .. MaxTime
Proc == Pollers \cup Requests

VARIABLES
    now,        \* the clock
    job,        \* the row of scheduled_jobs
    runs,       \* the rows of scheduled_job_runs, by due_at
    started,    \* history: workflows started for an occurrence
    claimed,    \* history: occurrences some poller advanced the job past
    wf,         \* the workflow run of a scheduled run
    events,     \* workflow run events whose update the listener has not made
    missed,     \* history: ends whose update found no row with the run id
    proc,       \* local state of pollers and requests
    faults

table == <<job, runs, claimed>>
workflows == <<started, wf, events, missed>>
vars == <<now, job, runs, started, claimed, wf, events, missed, proc,
          faults>>

End == {"succeeded", "failed", "cancelled"}
NoRow == [status |-> "none", linked |-> FALSE]
Absent == [status |-> "absent"]
Local(pc, due, at, row) == [pc |-> pc, due |-> due, at |-> at, job |-> row]
Idle == Local("idle", 0, 0, Absent)

-----------------------------------------------------------------------------
(* Schedule expressions                                                    *)

\* The next multiple of the period: fields of a cron expression are fixed.
CronAfter(period, t) == ((t \div period) + 1) * period

\* The first run of a schedule, for a request at time t.
InitialRun(s, t) ==
    CASE s.type = "one_time" -> s.value
      [] s.type = "interval" -> t + s.value
      [] s.type = "cron"     -> CronAfter(s.value, t)
Resolvable(s, t) == s.type = "one_time" => s.value > t

\* Seeded fault: an interval goes on from the last run, whatever was missed.
RunAfterReplaying(s, t, last) ==
    CASE s.type = "one_time" -> 0
      [] s.type = "interval" -> last + s.value
      [] s.type = "cron"     -> CronAfter(s.value, last)

\* The run after the one due at last, computed by a tick at time t: an
\* interval skips the runs that were missed, cron takes the first after last.
RunAfter(s, t, last) ==
    CASE s.type = "one_time" -> 0
      [] s.type = "interval" ->
            IF last >= t THEN last + s.value
            ELSE last + (((t - last) \div s.value) + 1) * s.value
      [] s.type = "cron"     -> CronAfter(s.value, last)

-----------------------------------------------------------------------------
Active(s, t) == [status |-> "active", schedule |-> s, next |-> InitialRun(s, t)]

\* The job was created, and perhaps paused, at time 0.
Init ==
    /\ now = 1
    /\ \E s \in Schedules, status \in {"active", "paused"} :
          Resolvable(s, 0) /\ job = [Active(s, 0) EXCEPT !.status = status]
    /\ runs = [d \in Due |-> NoRow]
    /\ started = [d \in Due |-> 0]
    /\ claimed = {}
    /\ wf = [d \in Due |-> "none"]
    /\ events = [d \in Due |-> << >>]
    /\ missed = {}
    /\ proc = [p \in Proc |-> Idle]
    /\ faults = 0

Clock ==
    /\ now < MaxTime
    /\ now' = now + 1
    /\ UNCHANGED <<table, workflows, proc, faults>>

At(p, pc) == proc[p].pc = pc
Goto(p, pc) == proc' = [proc EXCEPT ![p].pc = pc]
\* A request is over for good, a poller waits for its next tick.
Done(p) == Local(IF p \in Pollers THEN "idle" ELSE "over", 0, 0, Absent)
Leave(p) == proc' = [proc EXCEPT ![p] = Done(p)]
\* The process has the occurrence d to run.
Hold(p, d) == proc' = [proc EXCEPT ![p] = Local("create", d, 0, Absent)]

-----------------------------------------------------------------------------
(* The poll tick                                                           *)

\* The time of the tick is taken before the query that uses it.
Tick(p) ==
    /\ p \in Pollers /\ At(p, "idle")
    /\ proc' = [proc EXCEPT ![p] = Local("find", 0, now, Absent)]
    /\ UNCHANGED <<now, table, workflows, faults>>

\* Seeded fault: a run due at the very time of the tick is not found.
IsDueLater(t) == job.status = "active" /\ job.next # 0 /\ job.next < t

\* Seeded fault: null is taken for a time in the past.
IsDueAtNull(t) == job.status = "active" /\ job.next <= t

IsDue(t) == job.status = "active" /\ job.next # 0 /\ job.next <= t

FindDueJobs(p) ==
    /\ At(p, "find")
    /\ IF IsDue(proc[p].at)
       THEN proc' = [proc EXCEPT ![p] = Local("claim", job.next, @.at, job)]
       ELSE Leave(p)
    /\ UNCHANGED <<now, table, workflows, faults>>

StillDue(p) == job.status = "active" /\ job.next = proc[p].due

AdvanceNextRunIfDue(p) ==
    /\ At(p, "claim")
    /\ IF StillDue(p)
       THEN /\ job' = [job EXCEPT
                 !.next = RunAfter(proc[p].job.schedule, proc[p].at, proc[p].due)]
            /\ claimed' = claimed \cup {proc[p].due}
            /\ Hold(p, proc[p].due)
       ELSE Leave(p) /\ UNCHANGED <<job, claimed>>
    /\ UNCHANGED <<now, runs, workflows, faults>>

-----------------------------------------------------------------------------
(* The scheduled run                                                       *)

\* Seeded fault: no unique index, a second row takes the place of the first.
FreeKeyAlways(d) == TRUE

FreeKey(d) == runs[d].status = "none"

\* Also the create of a manual run, whose duplicate throws.
CreateRun(p) ==
    /\ At(p, "create")
    /\ IF FreeKey(proc[p].due)
       THEN /\ runs' = [runs EXCEPT ![proc[p].due] = [NoRow EXCEPT !.status = "triggered"]]
            /\ Goto(p, "mark")
       ELSE Leave(p) /\ UNCHANGED runs
    /\ UNCHANGED <<now, job, claimed, workflows, faults>>

SetStatus(d, status) == runs' = [runs EXCEPT ![d].status = status]

MarkRunning(p) ==
    /\ At(p, "mark")
    /\ SetStatus(proc[p].due, "running")
    /\ Goto(p, "start")
    /\ UNCHANGED <<now, job, claimed, workflows, faults>>

\* What becomes of a launch: the run is started, or waits in the queue.
Launches(d) == {"queued"} \cup {s \in {"active"} : d \in Reported}

\* startWorkflow: a new run announces itself, a queued one does not; or it
\* returns null under the concurrency policy, or throws.
StartWorkflow(p) ==
    /\ At(p, "start")
    /\ \/ /\ \E s \in Launches(proc[p].due) :
               /\ wf' = [wf EXCEPT ![proc[p].due] = s]
               /\ events' = [events EXCEPT ![proc[p].due] =
                               IF s = "active" THEN Append(@, "running") ELSE @]
          /\ started' = [started EXCEPT ![proc[p].due] = @ + 1]
          /\ Goto(p, "link")
          /\ UNCHANGED missed
       \/ /\ \E pc \in {"skip", "fail"} : Goto(p, pc)
          /\ UNCHANGED workflows
    /\ UNCHANGED <<now, table, faults>>

LinkRun(p) ==
    /\ At(p, "link")
    /\ runs' = [runs EXCEPT ![proc[p].due].linked = TRUE]
    /\ Leave(p)
    /\ UNCHANGED <<now, job, claimed, workflows, faults>>

\* The catch around startWorkflow also covers the update that stores its id.
LinkFails(p) ==
    /\ At(p, "link")
    /\ faults < MaxFaults
    /\ faults' = faults + 1
    /\ Goto(p, "fail")
    /\ UNCHANGED <<now, table, workflows>>

\* Seeded fault: a start the concurrency policy skipped leaves the row as it is.
MarkRunEndedIfFailed(p) ==
    /\ \E pc \in {"skip", "fail"} :
          /\ At(p, pc)
          /\ IF pc = "fail" THEN SetStatus(proc[p].due, "failed") ELSE UNCHANGED runs
    /\ Leave(p)
    /\ UNCHANGED <<now, job, claimed, workflows, faults>>

MarkRunEnded(p) ==
    /\ \E pc \in {"skip", "fail"} :
          /\ At(p, pc)
          /\ SetStatus(proc[p].due, IF pc = "skip" THEN "skipped" ELSE "failed")
    /\ Leave(p)
    /\ UNCHANGED <<now, job, claimed, workflows, faults>>

Dispatch(p) == \/ CreateRun(p) \/ MarkRunning(p) \/ StartWorkflow(p)
               \/ LinkRun(p) \/ MarkRunEnded(p)

-----------------------------------------------------------------------------
(* API requests                                                            *)

Present == job.status # "absent"
Ask(p, pc, row) ==
    /\ p \in Requests /\ At(p, "idle") /\ Present
    /\ proc' = [proc EXCEPT ![p] = Local(pc, 0, 0, row)]
    /\ UNCHANGED <<now, table, workflows, faults>>

\* An update that names no schedule writes back the one it read, next_run_at
\* included; of a paused job a new schedule leaves next_run_at as it was.
AskUpdate(p) ==
    \/ Ask(p, "update", job)
    \/ \E s \in Schedules :
          /\ Resolvable(s, now)
          /\ Ask(p, "update", IF job.status = "active" THEN Active(s, now)
                              ELSE [job EXCEPT !.schedule = s])

AskPause(p) == job.status # "paused" /\ Ask(p, "pause", job)

\* Resuming does not ask whether the job is paused.
AskResume(p) ==
    /\ Present
    /\ Resolvable(job.schedule, now)
    /\ Ask(p, "resume", Active(job.schedule, now))

AskDelete(p) == Ask(p, "delete", job)

RunNow(p) ==
    /\ p \in Requests /\ At(p, "idle") /\ Present
    /\ Hold(p, now)
    /\ UNCHANGED <<now, table, workflows, faults>>

\* The fields a request sets in the row.
Patched(p) ==
    CASE At(p, "update") -> [job EXCEPT !.schedule = proc[p].job.schedule,
                                        !.next = proc[p].job.next]
      [] At(p, "pause")  -> [job EXCEPT !.status = "paused"]
      [] At(p, "resume") -> [job EXCEPT !.status = "active", !.next = proc[p].job.next]
      [] At(p, "delete") -> Absent

SaveJob(p) ==
    /\ proc[p].pc \in {"update", "pause", "resume", "delete"}
    /\ job' = IF Present THEN Patched(p) ELSE job
    /\ Leave(p)
    /\ UNCHANGED <<now, runs, claimed, workflows, faults>>

RequestStep(p) == \/ AskUpdate(p) \/ AskPause(p) \/ AskResume(p) \/ AskDelete(p)
                  \/ RunNow(p) \/ SaveJob(p)

\* The process restarts, or a call of the database throws: the batch or the
\* request ends where it is.
Fault(p) ==
    /\ ~At(p, "idle") /\ ~At(p, "over")
    /\ faults < MaxFaults
    /\ faults' = faults + 1
    /\ Leave(p)
    /\ UNCHANGED <<now, table, workflows>>

-----------------------------------------------------------------------------
(* The workflow run and the listener                                       *)

\* Pausing and resuming a run both report it as running.
WorkflowReports(d) ==
    /\ wf[d] = "active" /\ events[d] = << >>
    /\ events' = [events EXCEPT ![d] = <<"running">>]
    /\ UNCHANGED <<now, table, started, wf, missed, proc, faults>>

WorkflowEnds(d) ==
    /\ \E s \in End : /\ wf[d] \in {"active", "queued"}
                      /\ wf' = [wf EXCEPT ![d] = s]
                      /\ events' = [events EXCEPT ![d] = Append(@, s)]
    /\ UNCHANGED <<now, table, started, missed, proc, faults>>

\* Seeded fault: the listener does not subscribe to cancellations.
SubscribesNoCancel(s) == s # "cancelled"

Subscribes(s) == s \in End \cup {"running"}

\* updateByWorkflowRunId: no row has the id before LinkRun stored it.  The
\* updates of one workflow run are made in the order of its events.
ApplyUpdate(d) ==
    /\ events[d] # << >>
    /\ IF runs[d].linked /\ Subscribes(Head(events[d]))
       THEN SetStatus(d, Head(events[d])) ELSE UNCHANGED runs
    /\ missed' = IF ~runs[d].linked /\ Head(events[d]) \in End THEN missed \cup {d} ELSE missed
    /\ events' = [events EXCEPT ![d] = Tail(@)]
    /\ UNCHANGED <<now, job, claimed, started, wf, proc, faults>>

-----------------------------------------------------------------------------
PollStep(p) == \/ Tick(p) \/ FindDueJobs(p) \/ AdvanceNextRunIfDue(p)
               \/ p \in Pollers /\ Dispatch(p)

Next ==
    \/ Clock
    \/ \E p \in Pollers : PollStep(p)
    \/ \E p \in Requests : RequestStep(p) \/ Dispatch(p)
    \/ \E p \in Proc : LinkFails(p) \/ Fault(p)
    \/ \E d \in Reported : WorkflowReports(d) \/ WorkflowEnds(d)
    \/ \E d \in Due : ApplyUpdate(d)

Spec == Init /\ [][Next]_vars

\* The tick is repeated and a batch goes on.
FairSpec == Spec /\ \A p \in Pollers : WF_vars(PollStep(p))

-----------------------------------------------------------------------------
(* Properties                                                              *)

Job == [status : {"active", "paused"}, schedule : Schedules, next : Nat]
Pcs == {"idle", "find", "claim", "create", "mark", "start", "link", "skip", "fail",
        "update", "pause", "resume", "delete", "over"}

TypeOK ==
    /\ now \in Nat
    /\ job \in Job \cup {Absent}
    /\ runs \in [Due -> [status : {"none", "triggered", "running", "skipped"} \cup End,
                        linked : BOOLEAN]]
    /\ started \in [Due -> Nat]
    /\ claimed \subseteq Due
    /\ wf \in [Due -> {"none", "queued", "active"} \cup End]
    /\ missed \subseteq Due
    /\ events \in [Due -> Seq(End \cup {"running"})]
    /\ proc \in [Proc -> [pc : Pcs, due : Nat, at : Nat, job : Job \cup {Absent}]]
    /\ faults \in 0 .. MaxFaults

\* One workflow at most is started for an occurrence, although two pollers
\* may overlap and an update that read the row before a claim writes the old
\* next_run_at back, so that the occurrence is claimed again.
OneWorkflowPerOccurrence == \A d \in Due : started[d] <= 1

\* An occurrence that was claimed but has no row, and a row that is open but
\* belongs to no workflow and to no process, are the work of a fault each.
Handled(d) == \E p \in Proc :
    proc[p].due = d /\ proc[p].pc \in {"create", "mark", "start", "link", "skip", "fail"}
Lost(d) == /\ \/ d \in claimed /\ runs[d].status = "none"
              \/ runs[d].status \in {"triggered", "running"} /\ ~runs[d].linked
           /\ ~Handled(d)
OnlyFaultsLose == Cardinality({d \in Due : Lost(d)}) <= faults

Claims(p) == At(p, "claim") /\ proc'[p].pc = "create"

\* Of the runs an interval job has missed the tick makes one: the next is in
\* the future, by an interval at most, and still in step with the first.
SkipsMissed == [][\A p \in Pollers :
    LET every == proc[p].job.schedule.value IN
    (Claims(p) /\ proc[p].job.schedule.type = "interval") =>
        /\ job'.next > proc[p].at
        /\ job'.next <= proc[p].at + every
        /\ (job'.next - proc[p].due) % every = 0]_vars

\* When time stops no active job stays due, cron runs that were missed and
\* stale writes of next_run_at included.
CatchesUp == <>[]~(job.status = "active" /\ job.next # 0 /\ job.next <= now)

\* The row of a workflow has ended as the workflow did, once the updates of
\* its events are made, unless its end was reported before its id was stored.
RowFollows == \A d \in Due :
    (wf[d] \in End /\ events[d] = << >> /\ runs[d].linked /\ d \notin missed)
        => runs[d].status = wf[d]
=============================================================================
