------------------------ MODULE WorkflowRunProgress ------------------------
(***************************************************************************)
(* How one workflow run advances through its job graph.                    *)
(*                                                                         *)
(* The run is one database row: a status, a current step, a completion     *)
(* time stamp and the JSON document state_variables with the flags         *)
(* _internal.queued_jobs.J, _internal.completed_jobs.J, the loop counters  *)
(* and the recorded output and result of every job.  Every await of the    *)
(* handlers below is one statement on that row, so each is one action; the *)
(* handlers are promise chains of the same API process (or of several) and *)
(* interleave between any two awaits.                                      *)
(*                                                                         *)
(* Modelled handlers: the launch loop of createAndStartRun, the worker's   *)
(* dispatch, JobCompletionHandler.handle, JobFailureHandler.handle for a   *)
(* failure that is not retried, and cancelSingleRun.  Auto-retry, parking  *)
(* on a question or an await, and process restarts are not part of it.     *)
(***************************************************************************)
EXTENDS Integers, FiniteSets

CONSTANTS
  Job,          \* the jobs of the definition
  Handler,      \* promise chains that can be in flight at the same time
  Launcher,     \* the handler that runs createAndStartRun
  NoJob,        \* "no job": null or undefined in the code
  NoStamp,      \* completed_at is null
  Needs,        \* Needs[j]: the normalized needs of j, a set of Need records
  UsesNeeds,    \* jobs that declare them under `needs`, not `depends_on`
  Strict,       \* jobs with strict dependency semantics
  CondReads,    \* CondReads[j]: jobs whose output the condition of j tests
  Transitions,  \* Transitions[j]: targets of the transitions of j
  Special,      \* jobs run synchronously inside the queue worker
  Savers,       \* agent jobs that call set_job_output
  Rank,         \* position of a job in the definition and in its parallel groups
  MaxLoops,     \* 10 in the code: bound on one transition's loop counter
  MaxCancels    \* bound: cancellations requested in one behaviour

Results == {"success", "failed", "skipped"}

\* A job's own output, by what it makes of the conditions that test it.
Own == {"met", "unmet"}

\* What jobs.J.output holds: nothing, the marker of a skip, or the job's own.
Recorded == Own \cup {"none", "skipped"}

Policies == {"success", "failed", "success_or_skipped", "any"}

Need == [id : Job, policy : Policies, optional : BOOLEAN]

ASSUME ConstantsAssumption ==
  /\ Launcher \in Handler
  /\ NoJob \notin Job
  /\ NoStamp \notin Handler
  /\ Needs \in [Job -> SUBSET Need]
  /\ UsesNeeds \subseteq Job
  /\ Strict \subseteq Job
  /\ CondReads \in [Job -> SUBSET Job]
  /\ Transitions \in [Job -> SUBSET Job]
  /\ Special \subseteq Job
  /\ Savers \subseteq Job \ Special
  /\ Rank \in [Job -> Nat]
  /\ MaxLoops \in Nat
  /\ MaxCancels \in Nat

VARIABLES
  status,       \* workflow_runs.status
  currentStep,  \* workflow_runs.current_step_id
  completedAt,  \* workflow_runs.completed_at; a stamp names the handler that wrote it
  queued,       \* _internal.queued_jobs
  completed,    \* _internal.completed_jobs
  output,       \* jobs.J.output: absent, the job's own data, or the skip marker
  result,       \* jobs.J.result and _internal.job_results.J, "none" when absent
  saving,       \* how far the set_job_output call of J in flight has come
  loops,        \* _internal.loops.J.K
  stepQueue,    \* jobs waiting in the BullMQ queue workflow-steps
  dispatching,  \* jobs whose worker passed the preflight and has not started them
  running,      \* jobs with a live execution
  triggers,     \* terminal-write triggers raised and not yet handled
  cancels,      \* cancellations requested so far
  pc,           \* pc[h]: the await at which h is suspended
  ctx,          \* ctx[h]: the local variables of h
  adds          \* adds[j]: how often j was put on the step queue

runVars    == <<status, currentStep, completedAt>>
flagVars   == <<queued, completed>>
recordVars == <<output, result, saving>>
workVars   == <<stepQueue, dispatching, running>>
vars == <<runVars, flagVars, recordVars, loops, workVars, triggers, cancels,
          pc, ctx, adds>>

Statuses == {"RUNNING", "COMPLETED", "FAILED", "CANCELLED"}

Terminal == {"COMPLETED", "FAILED", "CANCELLED"}

Trigger == [job : Job, kind : {"turn_end", "event", "failed"}, result : Results]

\* A call of set_job_output has passed its guard, or holds what it has read.
Calls == Recorded \cup {"idle", "started"}

Labels == {"idle", "launch", "claim", "existing", "output", "result", "completed", "route",
           "advance", "needs", "blocked", "condition", "queue", "add",
           "skipOutput", "skipResult", "skipCompleted", "branch", "unqueue",
           "uncomplete", "target", "move", "scan", "load", "complete",
           "handover", "failGate", "failing", "close", "cancelKill",
           "cancelLoad", "cancelWrite", "cancelPurge"}

Modes == {"none", "launch", "dag", "branch"}

Context == [job : Job \cup {NoJob}, result : Results, mode : Modes,
            todo : SUBSET Job, unread : SUBSET Job,
            cand : Job \cup {NoJob}, first : Job \cup {NoJob},
            next : Job \cup {NoJob}, seen : Handler \cup {NoStamp},
            existing : Recorded]

NoContext == [job |-> NoJob, result |-> "success", mode |-> "none",
              todo |-> {}, unread |-> {}, cand |-> NoJob, first |-> NoJob,
              next |-> NoJob, seen |-> NoStamp, existing |-> "none"]

TypeOK ==
  /\ status \in Statuses
  /\ currentStep \in Job \cup {NoJob}
  /\ completedAt \in Handler \cup {NoStamp}
  /\ queued \in [Job -> BOOLEAN]
  /\ completed \in [Job -> BOOLEAN]
  /\ output \in [Job -> Recorded]
  /\ result \in [Job -> Results \cup {"none"}]
  /\ saving \in [Job -> Calls] /\ \A j \in Job \ Savers : saving[j] = "idle"
  /\ loops \in [Job \X Job -> Nat]
  /\ stepQueue \subseteq Job
  /\ dispatching \subseteq Job
  /\ running \subseteq Job
  /\ triggers \subseteq Trigger
  /\ cancels \in Nat
  /\ pc \in [Handler -> Labels]
  /\ ctx \in [Handler -> Context]
  /\ adds \in [Job -> Nat]
-----------------------------------------------------------------------------
(* The job graph. *)

NeedIds(j) == {n.id : n \in Needs[j]}

\* depends_on as tryAdvanceToNextJob reads it: absent when the job uses `needs`.
DependsOn(j) == IF j \in UsesNeeds THEN {} ELSE NeedIds(j)

\* The level of a job: one more than the highest level it needs.
Level[j \in Job] ==
  IF NeedIds(j) = {} THEN 0
  ELSE 1 + CHOOSE l \in {Level[d] : d \in NeedIds(j)} :
             \A d \in NeedIds(j) : Level[d] <= l

\* Seeded fault: the level right after j's is passed over.
LaterLevelsButOne(j) == {k \in Job : Level[k] > Level[j] + 1}

LaterLevels(j) == {k \in Job : Level[k] > Level[j]}

\* What an acyclic graph gives: a job lies above the jobs it needs, and the
\* levels are passed in ascending order.
Layered ==
  \A k \in Job : /\ Level[k] \in Nat
                 /\ \A d \in NeedIds(k) : Level[d] < Level[k] /\ Rank[d] < Rank[k]

Successors(j) == {k \in Job : j \in NeedIds(k)} \cup Transitions[j]

\* The least set that holds j and is closed under dependents and transitions.
Reachable(j) ==
  {k \in Job : \A S \in SUBSET Job :
                 (j \in S /\ \A x \in S : Successors(x) \subseteq S) => k \in S}

IsFirst(j, S) == j \in S /\ \A k \in S : Rank[j] <= Rank[k]

\* A job at level 0 that no transition targets.
InitialJobs ==
  {j \in Job : NeedIds(j) = {} /\ \A k \in Job : j \notin Transitions[k]}

Accepts(policy, r) ==
  \/ policy = r
  \/ policy = "any" /\ r # "none"
  \/ policy = "success_or_skipped" /\ r \in {"success", "skipped"}

\* areNeedsSatisfied over one read of the state variables; a job has an entry
\* under jobs.* once its output is written.
NeedsSatisfied(j) ==
  \A n \in Needs[j] :
    IF output[n.id] = "none" THEN n.optional ELSE Accepts(n.policy, result[n.id])

\* The condition of j tests values in the outputs of CondReads[j].
ConditionTrue(j) == \A d \in CondReads[j] : output[d] = "met"

\* The outputs a job can record: the difference shows in a condition only.
Outputs(j) == IF \E k \in Job : j \in CondReads[k] THEN Own ELSE {"met"}

\* After its dependencies a candidate has its condition tested, if it has one.
AfterNeeds(j) == IF CondReads[j] = {} THEN "queue" ELSE "condition"

\* Seeded fault: the dependency check is dropped.
FirstReadUnchecked(j) == AfterNeeds(j)

\* Where tryAdvanceToNextJob starts: a lenient job without depends_on reads nothing.
FirstRead(j) ==
  IF j \notin Strict /\ DependsOn(j) = {} THEN AfterNeeds(j) ELSE "needs"
-----------------------------------------------------------------------------
(* Handlers: promise chains that hold local variables between two awaits. *)

\* What the handlers write into their local variables.
Starting(j, r) == [NoContext EXCEPT !.job = j, !.result = r]

Advancing(c, S) == [c EXCEPT !.mode = "dag", !.todo = S]

Branching(c, k, S) == [c EXCEPT !.mode = "branch", !.next = k, !.todo = S]

Consider(c, j, S) == [c EXCEPT !.cand = j, !.todo = @ \ {j}, !.unread = S]

Pass(c, j) == [c EXCEPT !.todo = @ \ {j}]

Unread(c, S) == [c EXCEPT !.unread = S]

WithFirst(c, first) == [c EXCEPT !.first = first]

Settled(c, first) == [c EXCEPT !.cand = NoJob, !.unread = {}, !.first = first]

Targeting(c) == [c EXCEPT !.cand = c.next]

Seeing(c, stamp) == [c EXCEPT !.seen = stamp]

Holding(c, o) == [c EXCEPT !.existing = o]

\* h awaits at label with the local variables c.
Step(h, label, c) ==
  /\ pc' = [pc EXCEPT ![h] = label]
  /\ ctx' = [ctx EXCEPT ![h] = c]

Goto(h, label) == Step(h, label, ctx[h])

Finish(h) == Step(h, "idle", NoContext)

LoopOf(mode) ==
  CASE mode = "launch" -> "launch" [] mode = "branch" -> "branch" [] OTHER -> "advance"

\* The candidate is settled: back to the loop that chose it.
Resume(h, first) ==
  IF ctx[h].mode = "branch" /\ ctx[h].cand = ctx[h].next
  THEN Finish(h)
  ELSE Step(h, LoopOf(ctx[h].mode), Settled(ctx[h], first))

Return(h) == Resume(h, ctx[h].first)

\* Seeded fault: the claim does not test the flag.
ClaimableAgain(flag, j) == status = "RUNNING"

\* tryClaimInternalJobFlag: one UPDATE that tests the status and the flag.
Claimable(flag, j) == status = "RUNNING" /\ ~flag[j]

\* A failure report: JobFailureHandler has read a RUNNING row.
StartFailing(h, j) ==
  Step(h, "failing", Seeing(Starting(j, "failed"), completedAt))

Stamp(h) == IF ctx[h].seen = NoStamp THEN h ELSE completedAt

Init ==
  /\ status = "RUNNING"
  /\ IF InitialJobs = {} THEN currentStep = NoJob
     ELSE currentStep \in {j \in Job : IsFirst(j, InitialJobs)}
  /\ completedAt = NoStamp
  /\ queued = [j \in Job |-> FALSE]
  /\ completed = [j \in Job |-> FALSE]
  /\ output = [j \in Job |-> "none"]
  /\ result = [j \in Job |-> "none"]
  /\ saving = [j \in Job |-> "idle"]
  /\ loops = [e \in Job \X Job |-> 0]
  /\ stepQueue = {}
  /\ dispatching = {}
  /\ running = {}
  /\ triggers = {}
  /\ cancels = 0
  /\ pc = [h \in Handler |-> IF h = Launcher THEN "launch" ELSE "idle"]
  /\ ctx = [h \in Handler |->
              IF h = Launcher
              THEN [NoContext EXCEPT !.mode = "launch", !.todo = InitialJobs]
              ELSE NoContext]
  /\ adds = [j \in Job |-> 0]
-----------------------------------------------------------------------------
(* createAndStartRun: enqueue every initial job, one after the other. *)

Launch(h) ==
  /\ pc[h] = "launch"
  /\ \/ \E j \in ctx[h].todo :
          /\ IsFirst(j, ctx[h].todo)
          /\ Step(h, "queue", Consider(ctx[h], j, {}))
     \/ /\ ctx[h].todo = {}
        /\ IF InitialJobs = {} THEN Goto(h, "load") ELSE Finish(h)
  /\ UNCHANGED <<runVars, flagVars, recordVars, loops, workVars, triggers,
                 cancels, adds>>

(* enqueueJob: claim the queued flag of a RUNNING run, then add to BullMQ. *)

Queue(h) ==
  /\ pc[h] = "queue"
  /\ LET j == ctx[h].cand
         first == IF ctx[h].mode = "dag" /\ ctx[h].first = NoJob
                  THEN j ELSE ctx[h].first
     IN  \/ /\ Claimable(queued, j)
            /\ queued' = [queued EXCEPT ![j] = TRUE]
            /\ Step(h, "add", WithFirst(ctx[h], first))
         \/ /\ ~Claimable(queued, j)
            /\ Resume(h, first)
            /\ UNCHANGED queued
  /\ UNCHANGED <<runVars, completed, recordVars, loops, workVars, triggers,
                 cancels, adds>>

\* BullMQ ignores an add whose job id is waiting or active.
Add(h) ==
  /\ pc[h] = "add"
  /\ LET j == ctx[h].cand
         held == stepQueue \cup dispatching \cup (running \cap Special)
     IN  \/ /\ j \in held
            /\ UNCHANGED <<stepQueue, adds>>
         \/ /\ j \notin held
            /\ stepQueue' = stepQueue \cup {j}
            /\ adds' = [adds EXCEPT ![j] = @ + 1]
  /\ Return(h)
  /\ UNCHANGED <<runVars, flagVars, recordVars, loops, dispatching, running,
                 triggers, cancels>>
-----------------------------------------------------------------------------
(* The queue worker and the executions it starts. *)

\* process and resolveJobPreflightContext: one read of the run decides.
Dispatch(j) ==
  /\ j \in stepQueue
  /\ stepQueue' = stepQueue \ {j}
  /\ \/ /\ status # "RUNNING"
        /\ UNCHANGED <<dispatching, triggers>>
     \/ /\ status = "RUNNING"
        /\ ConditionTrue(j)
        /\ dispatching' = dispatching \cup {j}
        /\ UNCHANGED triggers
     \/ /\ status = "RUNNING"
        /\ ~ConditionTrue(j)
        /\ triggers' = triggers \cup
             {[job |-> j, kind |-> "turn_end", result |-> "skipped"]}
        /\ UNCHANGED dispatching
  /\ UNCHANGED <<runVars, flagVars, recordVars, loops, running, cancels, pc,
                 ctx, adds>>

\* The container is up (or the special step entered): a kill can now find it.
StartExecution(j) ==
  /\ j \in dispatching
  /\ dispatching' = dispatching \ {j}
  /\ running' = running \cup {j}
  /\ UNCHANGED <<runVars, flagVars, recordVars, loops, stepQueue, triggers,
                 cancels, pc, ctx, adds>>

Failure(j) == [job |-> j, kind |-> "failed", result |-> "failed"]

\* The capability preflight, the owner lease or the step budget refuses the job
\* before its container exists.
DispatchFails(j) ==
  /\ j \in dispatching
  /\ dispatching' = dispatching \ {j}
  /\ triggers' = triggers \cup {Failure(j)}
  /\ UNCHANGED <<runVars, flagVars, recordVars, loops, stepQueue, running,
                 cancels, pc, ctx, adds>>

(* set_job_output: a guard, a read and a write of the recorded output, each
   awaited.  A call that passed the guard goes on without its agent. *)

StartSaving(j) ==
  /\ j \in running \cap Savers
  /\ saving[j] = "idle"
  /\ status \notin Terminal
  /\ saving' = [saving EXCEPT ![j] = "started"]
  /\ UNCHANGED <<runVars, flagVars, output, result, loops, workVars, triggers,
                 cancels, pc, ctx, adds>>

ReadRecorded(j) ==
  /\ saving[j] = "started"
  /\ saving' = [saving EXCEPT ![j] = output[j]]
  /\ UNCHANGED <<runVars, flagVars, output, result, loops, workVars, triggers,
                 cancels, pc, ctx, adds>>

\* The data of the call over the value read; nothing is written when the merge
\* equals that value.
PersistJobOutput(j) ==
  /\ saving[j] \in Recorded
  /\ saving' = [saving EXCEPT ![j] = "idle"]
  /\ \E o \in Outputs(j) :
       output' = IF o = saving[j] THEN output ELSE [output EXCEPT ![j] = o]
  /\ UNCHANGED <<runVars, flagVars, result, loops, workVars, triggers, cancels,
                 pc, ctx, adds>>

Ended(j, ts) ==
  /\ running' = running \ {j}
  /\ triggers' = triggers \cup ts
  /\ UNCHANGED <<runVars, flagVars, recordVars, loops, stepQueue, dispatching,
                 cancels, pc, ctx, adds>>

\* An agent's turn ends: the executor completes the job and, from the telemetry
\* side, the execution.completed event completes it as well.  The worker may
\* still lose its reply or its container and report a failure after that.
AgentEnds(j) ==
  /\ j \in running \ Special
  /\ \E later \in {{}, {Failure(j)}} :
       Ended(j, later \cup {[job |-> j, kind |-> k, result |-> "success"] :
                             k \in {"turn_end", "event"}})

AgentDies(j) ==
  /\ j \in running \ Special
  /\ Ended(j, {Failure(j)})

\* A special step completes its job itself; its output may say it failed.
SpecialEnds(j) ==
  /\ j \in running \cap Special
  /\ \E r \in {"success", "failed"} :
       Ended(j, {[job |-> j, kind |-> "turn_end", result |-> r]})

\* A special step throws on its last BullMQ attempt.
SpecialDies(j) ==
  /\ j \in running \cap Special
  /\ Ended(j, {Failure(j)})

\* stopManagedContainersForRun: every live agent dies; special steps have none.
KillAgents ==
  /\ running' = running \cap Special
  /\ triggers' = triggers \cup {Failure(j) : j \in running \ Special}
-----------------------------------------------------------------------------
(* JobCompletionHandler.handle *)

GateCompletion(h, t) ==
  /\ pc[h] = "idle"
  /\ t \in triggers
  /\ t.kind # "failed"
  /\ triggers' = triggers \ {t}
  /\ \/ /\ status = "RUNNING"
        /\ Step(h, "claim", Starting(t.job, t.result))
     \/ /\ status # "RUNNING"
        /\ UNCHANGED <<pc, ctx>>
  /\ UNCHANGED <<runVars, flagVars, recordVars, loops, workVars, cancels,
                 adds>>

\* tryMarkJobCompleted: one conditional UPDATE.
ClaimCompletion(h) ==
  /\ pc[h] = "claim"
  /\ LET j == ctx[h].job
     IN  \/ /\ Claimable(completed, j)
            /\ completed' = [completed EXCEPT ![j] = TRUE]
            /\ Goto(h, "existing")
         \/ /\ ~Claimable(completed, j)
            /\ Finish(h)
            /\ UNCHANGED completed
  /\ UNCHANGED <<runVars, queued, recordVars, loops, workVars, triggers,
                 cancels, adds>>

(* markJobCompleted: read the output, write the merge, then the result and the
   flag. *)

ReadOutput(h) ==
  /\ pc[h] = "existing"
  /\ Step(h, "output", Holding(ctx[h], output[ctx[h].job]))
  /\ UNCHANGED <<runVars, flagVars, recordVars, loops, workVars, triggers,
                 cancels, adds>>

\* The reported fields win over those read; a report of a skip has no data, and
\* leaves the tested value as it was read.
Merged(c) ==
  IF c.result # "skipped" THEN Outputs(c.job)
  ELSE {IF c.existing \in Own THEN c.existing ELSE "skipped"}

RecordOutput(h) ==
  /\ pc[h] = "output"
  /\ \E o \in Merged(ctx[h]) : output' = [output EXCEPT ![ctx[h].job] = o]
  /\ Step(h, "result", Holding(ctx[h], "none"))
  /\ UNCHANGED <<runVars, flagVars, result, saving, loops, workVars, triggers,
                 cancels, adds>>

\* Seeded fault: the output is stored under the result's path.
RecordOutputAsResult(h) ==
  /\ pc[h] = "result"
  /\ result' = [result EXCEPT ![ctx[h].job] = output[ctx[h].job]]
  /\ Goto(h, "completed")
  /\ UNCHANGED <<runVars, flagVars, output, saving, loops, workVars, triggers,
                 cancels, adds>>

RecordResult(h) ==
  /\ pc[h] = "result"
  /\ result' = [result EXCEPT ![ctx[h].job] = ctx[h].result]
  /\ Goto(h, "completed")
  /\ UNCHANGED <<runVars, flagVars, output, saving, loops, workVars, triggers,
                 cancels, adds>>

RecordCompleted(h) ==
  /\ pc[h] = "completed"
  /\ completed' = [completed EXCEPT ![ctx[h].job] = TRUE]
  /\ Goto(h, "route")
  /\ UNCHANGED <<runVars, queued, recordVars, loops, workVars, triggers,
                 cancels, adds>>

\* resolveNextJobId: the transition expressions read data outside the model,
\* so any target, or none, can be the one that evaluates to true.
Route(h) ==
  /\ pc[h] = "route"
  /\ LET j == ctx[h].job
     IN  \/ /\ Step(h, "advance", Advancing(ctx[h], LaterLevels(j)))
            /\ UNCHANGED loops
         \/ \E k \in Transitions[j] :
              /\ loops[<<j, k>>] < MaxLoops
              /\ loops' = [loops EXCEPT ![<<j, k>>] = @ + 1]
              /\ Step(h, "branch", Branching(ctx[h], k, Job \ {j}))
         \/ \E k \in Transitions[j] :
              /\ loops[<<j, k>>] >= MaxLoops
              /\ Goto(h, "failGate")
              /\ UNCHANGED loops
  /\ UNCHANGED <<runVars, flagVars, recordVars, workVars, triggers, cancels,
                 adds>>
-----------------------------------------------------------------------------
(* progressDagOrComplete: one candidate after the other, level by level. *)

LevelDone(h) ==
  /\ ctx[h].first # NoJob
  /\ \A k \in ctx[h].todo : Level[k] # Level[ctx[h].first]

\* enqueueEligibleDagNextJobs ends a level by pointing current_step_id at the
\* first job it enqueued.
FinishLevel(h) ==
  /\ pc[h] = "advance"
  /\ LevelDone(h)
  /\ currentStep' = ctx[h].first
  /\ Step(h, "advance", WithFirst(ctx[h], NoJob))
  /\ UNCHANGED <<status, completedAt, flagVars, recordVars, loops, workVars,
                 triggers, cancels, adds>>

Advance(h) ==
  /\ pc[h] = "advance"
  /\ ~LevelDone(h)
  /\ \/ \E j \in ctx[h].todo :
          /\ IsFirst(j, ctx[h].todo)
          /\ Step(h, FirstRead(j), Consider(ctx[h], j, DependsOn(j)))
     \/ /\ ctx[h].todo = {}
        /\ Step(h, "scan", Unread(ctx[h], Job))
  /\ UNCHANGED <<runVars, flagVars, recordVars, loops, workVars, triggers,
                 cancels, adds>>

\* areDependenciesCompleted: a strict job reads the state variables once, any
\* other reads one completed flag per awaited call.
ReadNeeds(h) ==
  /\ pc[h] = "needs"
  /\ LET j == ctx[h].cand
     IN  \/ /\ j \in Strict
            /\ NeedsSatisfied(j)
            /\ Goto(h, AfterNeeds(j))
         \/ /\ j \in Strict
            /\ ~NeedsSatisfied(j)
            /\ Step(h, "blocked", Unread(ctx[h], NeedIds(j)))
         \/ \E d \in ctx[h].unread :
              /\ j \notin Strict
              /\ completed[d]
              /\ Step(h, IF ctx[h].unread = {d} THEN AfterNeeds(j) ELSE "needs",
                         Unread(ctx[h], ctx[h].unread \ {d}))
         \/ /\ j \notin Strict
            /\ \E d \in ctx[h].unread : ~completed[d]
            /\ Return(h)
  /\ UNCHANGED <<runVars, flagVars, recordVars, loops, workVars, triggers,
                 cancels, adds>>

\* skipStrictJobWhenDependencyResultsBlock: skip the job once every need ended.
ReadBlocked(h) ==
  /\ pc[h] = "blocked"
  /\ \/ /\ ctx[h].unread = {}
        /\ Goto(h, "skipOutput")
     \/ \E d \in ctx[h].unread :
          /\ completed[d]
          /\ Step(h, "blocked", Unread(ctx[h], ctx[h].unread \ {d}))
     \/ /\ \E d \in ctx[h].unread : ~completed[d]
        /\ Return(h)
  /\ UNCHANGED <<runVars, flagVars, recordVars, loops, workVars, triggers,
                 cancels, adds>>

TestCondition(h) ==
  /\ pc[h] = "condition"
  /\ Goto(h, IF ConditionTrue(ctx[h].cand) THEN "queue" ELSE "skipOutput")
  /\ UNCHANGED <<runVars, flagVars, recordVars, loops, workVars, triggers,
                 cancels, adds>>

(* markJobSkipped: output, result, completed flag, in that order. *)

SkipOutput(h) ==
  /\ pc[h] = "skipOutput"
  /\ output' = [output EXCEPT ![ctx[h].cand] = "skipped"]
  /\ Goto(h, "skipResult")
  /\ UNCHANGED <<runVars, flagVars, result, saving, loops, workVars, triggers,
                 cancels, adds>>

SkipResult(h) ==
  /\ pc[h] = "skipResult"
  /\ result' = [result EXCEPT ![ctx[h].cand] = "skipped"]
  /\ Goto(h, "skipCompleted")
  /\ UNCHANGED <<runVars, flagVars, output, saving, loops, workVars, triggers,
                 cancels, adds>>

SkipCompleted(h) ==
  /\ pc[h] = "skipCompleted"
  /\ completed' = [completed EXCEPT ![ctx[h].cand] = TRUE]
  /\ Return(h)
  /\ UNCHANGED <<runVars, queued, recordVars, loops, workVars, triggers,
                 cancels, adds>>
-----------------------------------------------------------------------------
(* enqueueTransitionJob *)

InSelectedBranch(h, j) == j \in Reachable(ctx[h].next)

NextInBranch(h, j) == pc[h] = "branch" /\ IsFirst(j, ctx[h].todo)

\* Seeded fault: the excluded job is skipped and not marked queued.
ExcludeUnqueued(h, j) ==
  /\ NextInBranch(h, j)
  /\ ~InSelectedBranch(h, j)
  /\ Step(h, "skipOutput", Consider(ctx[h], j, {}))
  /\ UNCHANGED <<runVars, flagVars, recordVars, loops, workVars, triggers,
                 cancels, adds>>

\* A job outside the selected branch is marked queued and skipped, whatever
\* has become of it so far.
Exclude(h, j) ==
  /\ NextInBranch(h, j)
  /\ ~InSelectedBranch(h, j)
  /\ queued' = [queued EXCEPT ![j] = TRUE]
  /\ Step(h, "skipOutput", Consider(ctx[h], j, {}))
  /\ UNCHANGED <<runVars, completed, recordVars, loops, workVars, triggers,
                 cancels, adds>>

\* A job of the branch that has not completed is made claimable again; the
\* target itself and completed jobs keep their flags.
Include(h, j) ==
  /\ NextInBranch(h, j)
  /\ InSelectedBranch(h, j)
  /\ IF j = ctx[h].next \/ completed[j]
     THEN Step(h, "branch", Pass(ctx[h], j))
     ELSE Step(h, "unqueue", Consider(ctx[h], j, {}))
  /\ UNCHANGED <<runVars, flagVars, recordVars, loops, workVars, triggers,
                 cancels, adds>>

\* The condition of the target decides between queueing and skipping it.
EnterTarget(h) ==
  /\ pc[h] = "branch"
  /\ ctx[h].todo = {}
  /\ Step(h, IF ConditionTrue(ctx[h].next) THEN "move" ELSE "skipOutput",
             Targeting(ctx[h]))
  /\ UNCHANGED <<runVars, flagVars, recordVars, loops, workVars, triggers,
                 cancels, adds>>

ClearQueued(h) ==
  /\ pc[h] = "unqueue"
  /\ queued' = [queued EXCEPT ![ctx[h].cand] = FALSE]
  /\ Goto(h, "uncomplete")
  /\ UNCHANGED <<runVars, completed, recordVars, loops, workVars, triggers,
                 cancels, adds>>

ClearCompleted(h) ==
  /\ pc[h] = "uncomplete"
  /\ completed' = [completed EXCEPT ![ctx[h].cand] = FALSE]
  /\ Return(h)
  /\ UNCHANGED <<runVars, queued, recordVars, loops, workVars, triggers,
                 cancels, adds>>

MoveStep(h) ==
  /\ pc[h] = "move"
  /\ currentStep' = ctx[h].cand
  /\ Goto(h, "queue")
  /\ UNCHANGED <<status, completedAt, flagVars, recordVars, loops, workVars,
                 triggers, cancels, adds>>
-----------------------------------------------------------------------------
(* areAllJobsCompleted and completeWorkflowRun *)

\* Seeded fault: the first completed job ends the scan.
ScanForAny(h) ==
  /\ pc[h] = "scan"
  /\ \/ /\ \E j \in ctx[h].unread : completed[j]
        /\ Goto(h, "load")
     \/ /\ \A j \in ctx[h].unread : ~completed[j]
        /\ Finish(h)
  /\ UNCHANGED <<runVars, flagVars, recordVars, loops, workVars, triggers,
                 cancels, adds>>

Scan(h) ==
  /\ pc[h] = "scan"
  /\ \/ /\ ctx[h].unread = {}
        /\ Goto(h, "load")
     \/ \E j \in ctx[h].unread :
          /\ IsFirst(j, ctx[h].unread)
          /\ \/ /\ completed[j]
                /\ Step(h, "scan", Unread(ctx[h], ctx[h].unread \ {j}))
             \/ /\ ~completed[j]
                /\ Finish(h)
  /\ UNCHANGED <<runVars, flagVars, recordVars, loops, workVars, triggers,
                 cancels, adds>>

LoadRun(h) ==
  /\ pc[h] = "load"
  /\ Step(h, "complete", Seeing(ctx[h], completedAt))
  /\ UNCHANGED <<runVars, flagVars, recordVars, loops, workVars, triggers,
                 cancels, adds>>

\* The UPDATE names the row only: it does not test the status.
CompleteRun(h) ==
  /\ pc[h] = "complete"
  /\ status' = "COMPLETED"
  /\ completedAt' = Stamp(h)
  /\ IF ctx[h].mode = "launch"
     THEN Finish(h)
     ELSE Goto(h, "handover")
  /\ UNCHANGED <<currentStep, flagVars, recordVars, loops, workVars, triggers,
                 cancels, adds>>

\* tryActivateNextQueuedRun
HandOver(h) ==
  /\ pc[h] = "handover"
  /\ Finish(h)
  /\ UNCHANGED <<runVars, flagVars, recordVars, loops, workVars, triggers,
                 cancels, adds>>
-----------------------------------------------------------------------------
(* JobFailureHandler.handle, for a failure that is not retried *)

\* Seeded fault: every failure is retried, without a bound.
RetryForever(h, t) ==
  /\ pc[h] = "idle"
  /\ t \in triggers
  /\ t.kind = "failed"
  /\ triggers' = triggers \ {t}
  /\ stepQueue' = stepQueue \cup {t.job}
  /\ UNCHANGED <<runVars, flagVars, recordVars, loops, dispatching, running,
                 cancels, pc, ctx, adds>>

GateFailure(h, t) ==
  /\ pc[h] = "idle"
  /\ t \in triggers
  /\ t.kind = "failed"
  /\ triggers' = triggers \ {t}
  /\ \/ /\ status = "RUNNING"
        /\ StartFailing(h, t.job)
     \/ /\ status # "RUNNING"
        /\ UNCHANGED <<pc, ctx>>
  /\ UNCHANGED <<runVars, flagVars, recordVars, loops, workVars, cancels,
                 adds>>

\* A lost transport after set_job_output persisted the output completes the job.
Salvage(h, t) ==
  /\ pc[h] = "idle"
  /\ t \in triggers
  /\ t.kind = "failed"
  /\ status = "RUNNING"
  /\ output[t.job] \in Own
  /\ triggers' = (triggers \ {t}) \cup
       {[job |-> t.job, kind |-> "turn_end", result |-> "success"]}
  /\ UNCHANGED <<runVars, flagVars, recordVars, loops, workVars, cancels, pc,
                 ctx, adds>>

\* reportMaxLoopIterations enters the failure handler from the completion one.
GateLoopFailure(h) ==
  /\ pc[h] = "failGate"
  /\ \/ /\ status = "RUNNING"
        /\ StartFailing(h, ctx[h].job)
     \/ /\ status # "RUNNING"
        /\ Finish(h)
  /\ UNCHANGED <<runVars, flagVars, recordVars, loops, workVars, triggers,
                 cancels, adds>>

FailRun(h) ==
  /\ pc[h] = "failing"
  /\ status' = "FAILED"
  /\ completedAt' = Stamp(h)
  /\ Goto(h, "close")
  /\ UNCHANGED <<currentStep, flagVars, recordVars, loops, workVars, triggers,
                 cancels, adds>>

\* closeFailedRun: empty the queue of waiting jobs and stop the containers.
CloseRun(h) ==
  /\ pc[h] = "close"
  /\ stepQueue' = {}
  /\ KillAgents
  /\ Goto(h, "handover")
  /\ UNCHANGED <<runVars, flagVars, recordVars, loops, dispatching, cancels,
                 adds>>
-----------------------------------------------------------------------------
(* cancelSingleRun *)

StartCancel(h) ==
  /\ pc[h] = "idle"
  /\ cancels < MaxCancels
  /\ status \notin Terminal
  /\ cancels' = cancels + 1
  /\ Goto(h, "cancelKill")
  /\ UNCHANGED <<runVars, flagVars, recordVars, loops, workVars, triggers,
                 adds>>

CancelKill(h) ==
  /\ pc[h] = "cancelKill"
  /\ KillAgents
  /\ Goto(h, "cancelLoad")
  /\ UNCHANGED <<runVars, flagVars, recordVars, loops, stepQueue, dispatching,
                 cancels, adds>>

CancelLoad(h) ==
  /\ pc[h] = "cancelLoad"
  /\ Step(h, "cancelWrite", Seeing(ctx[h], completedAt))
  /\ UNCHANGED <<runVars, flagVars, recordVars, loops, workVars, triggers,
                 cancels, adds>>

\* Seeded fault: the row is written back as it was loaded.
CancelWriteStale(h) ==
  /\ pc[h] = "cancelWrite"
  /\ completedAt' = Stamp(h)
  /\ Goto(h, "cancelPurge")
  /\ UNCHANGED <<status, currentStep, flagVars, recordVars, loops, workVars,
                 triggers, cancels, adds>>

CancelWrite(h) ==
  /\ pc[h] = "cancelWrite"
  /\ status' = "CANCELLED"
  /\ completedAt' = Stamp(h)
  /\ Goto(h, "cancelPurge")
  /\ UNCHANGED <<currentStep, flagVars, recordVars, loops, workVars, triggers,
                 cancels, adds>>

CancelPurge(h) ==
  /\ pc[h] = "cancelPurge"
  /\ stepQueue' = {}
  /\ Finish(h)
  /\ UNCHANGED <<runVars, flagVars, recordVars, loops, dispatching, running,
                 triggers, cancels, adds>>
-----------------------------------------------------------------------------
Completion(h) ==
  \/ ClaimCompletion(h) \/ ReadOutput(h) \/ RecordOutput(h)
  \/ RecordResult(h) \/ RecordCompleted(h) \/ Route(h)

DagStep(h) ==
  \/ FinishLevel(h) \/ Advance(h) \/ ReadNeeds(h) \/ ReadBlocked(h)
  \/ TestCondition(h) \/ SkipOutput(h) \/ SkipResult(h) \/ SkipCompleted(h)

BranchStep(h) ==
  \/ \E j \in Job : Exclude(h, j) \/ Include(h, j)
  \/ EnterTarget(h) \/ ClearQueued(h) \/ ClearCompleted(h) \/ MoveStep(h)

EndStep(h) ==
  \/ Scan(h) \/ LoadRun(h) \/ CompleteRun(h) \/ HandOver(h)
  \/ GateLoopFailure(h) \/ FailRun(h) \/ CloseRun(h)

CancelStep(h) ==
  CancelKill(h) \/ CancelLoad(h) \/ CancelWrite(h) \/ CancelPurge(h)

HandlerStep(h) ==
  \/ Launch(h) \/ Queue(h) \/ Add(h)
  \/ Completion(h) \/ DagStep(h) \/ BranchStep(h) \/ EndStep(h) \/ CancelStep(h)

Gate(h, t) == GateCompletion(h, t) \/ GateFailure(h, t) \/ Salvage(h, t)

Execution(j) ==
  \/ StartSaving(j) \/ ReadRecorded(j) \/ PersistJobOutput(j) \/ AgentEnds(j) \/ AgentDies(j)
  \/ SpecialEnds(j) \/ SpecialDies(j)

Work(j) ==
  Dispatch(j) \/ StartExecution(j) \/ DispatchFails(j) \/ Execution(j)

\* Nothing can still drive the run: no handler, no queued or running work.
Quiet ==
  /\ \A h \in Handler : pc[h] = "idle"
  /\ stepQueue \cup dispatching \cup running = {}
  /\ triggers = {}

\* The run is over; without this step TLC would report its end as a deadlock.
Over == Quiet /\ status \in Terminal /\ UNCHANGED vars

Next ==
  \/ \E h \in Handler : HandlerStep(h) \/ StartCancel(h)
  \/ \E h \in Handler, t \in triggers : Gate(h, t)
  \/ \E j \in Job : Work(j)
  \/ Over

Spec == Init /\ [][Next]_vars

\* A promise chain resumes after every await, a raised trigger is delivered,
\* the worker drains its queue and an execution ends (agents run under a
\* turn timeout and a supervisor that reaps them).
Fairness ==
  /\ \A h \in Handler : WF_vars(HandlerStep(h))
  /\ WF_vars(\E h \in Handler, t \in triggers : Gate(h, t))
  /\ \A j \in Job :
       /\ WF_vars(Dispatch(j) \/ StartExecution(j) \/ DispatchFails(j))
       /\ WF_vars(AgentEnds(j) \/ AgentDies(j) \/ SpecialEnds(j) \/ SpecialDies(j))

FairSpec == Spec /\ Fairness
-----------------------------------------------------------------------------
(* Properties *)

\* No job is put on the step queue twice: however completions interleave, the
\* queued flag lets one enqueueJob through.
DispatchedOnce == \A j \in Job : adds[j] <= 1

Completing == {"existing", "output", "result", "completed", "route"}

\* Of the two triggers of a turn's end, one at most records and routes the job.
OneCompletionPerJob ==
  \A g, h \in Handler :
    g # h /\ pc[g] \in Completing /\ pc[h] \in Completing
    => ctx[g].job # ctx[h].job

\* A job reaches the queue only after every job it depends on has completed,
\* although the flags are read one by one while other handlers write them.
DependenciesFirst ==
  [][\A j \in Job : adds'[j] > adds[j] => \A d \in DependsOn(j) : completed[d]]_vars

\* A COMPLETED run has completed every job: the flags scanned one by one by
\* areAllJobsCompleted hold together when the status is written.
CompletedMeansAllJobs == status = "COMPLETED" => \A j \in Job : completed[j]

\* A COMPLETED run has no job waiting, starting or running.
CompletedMeansNoWork ==
  status = "COMPLETED" => stepQueue \cup dispatching \cup running = {}

\* No run is left RUNNING with nothing to drive it.
NoDriverlessRun == Quiet => status \in Terminal

\* A job that ended as skipped is not dispatched afterwards.
SkipIsFinal ==
  [][\A j \in Job : completed[j] /\ result[j] = "skipped" => adds'[j] = adds[j]]_vars

\* Every run ends, and what has ended stays so.
RunEnds == []<>(status \in Terminal)
=============================================================================
