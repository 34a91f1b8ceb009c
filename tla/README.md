# Formal model of the Nexus Orchestrator workflow engine

This directory is a TLA+ verification project for the repository. It models five
parts of the API:

* `WorkflowRunProgress` decides whether a workflow run makes progress, makes it
  once, and ends: the handlers that react to the end of a job, advance the job graph,
  and write the terminal status.
* `RunQueue` decides which runs of a workflow may run together: the launch locks,
  the concurrency policy and the queue of pending runs.
* `AgentAwait` suspends an agent until the runs it started have ended, and
  implements the abstract `AwaitContract`.
* `JobAttempts` is one agent job from the queue to its end: executions, the events
  that report their end, the retries, and the supervisor.
* `ScheduledJobs` starts a workflow for each occurrence of a schedule.

TLC checks small instances, TLAPS proves the properties that do not depend on
their size.

## 1. Inventory of the system

The repository is a TypeScript monorepo: a NestJS API (`apps/api`), a kanban
service (`apps/kanban`), a web client (`apps/web`) and shared packages. State
lives in Postgres (TypeORM), queues in Redis (BullMQ), agents in containers.

| Component | State it keeps | Operations | Talks to | What is hard | What makes it correct |
|---|---|---|---|---|---|
| Run progress (`workflow/job-completion.handler.ts`, `job-failure.handler.ts`, `workflow-run-job-execution.*`, `workflow-needs.utils.ts`, `dag-resolver.service.ts`) | one row per run: status, current step, `completed_at`, a JSON document of flags, outputs, results and loop counters | job completed, job failed, enqueue job, advance DAG, take a transition, finalize | step queue, worker, terminal closer, pending queue | every `await` is a separate statement; handlers of the same run interleave; two triggers per turn end | each job dispatched once, after its dependencies; a run that is COMPLETED is complete; a run that is RUNNING is driven; every run ends |
| Launch (`workflow-engine-launch-orchestrator.service.ts`) | none of its own | validate, dedupe, apply concurrency policy, create run, enqueue first jobs | concurrency manager, run progress | in-process locks, unique keys, counts read before create | no more than `max_runs` active; one run per dedupe key |
| Concurrency and pending queue (`workflow-concurrency-manager.service.ts`, `concurrency-policy.service.ts`, `workflow-run-job-execution.utils.ts`) | PENDING and RUNNING rows by scope | skip, queue, cancel running, activate next, pause, resume | launch, progress, reconciler | unconditional UPDATEs by id, hand-over and reconciler both activate | a queued run activates once, when a slot is free |
| Cancellation cascade (`workflow-cancellation-cascade.service.ts`) | run status | cancel a run and its children | containers, queue | kill, status and purge are three steps | a cancelled run runs nothing |
| Step worker (`workflow-step-execution/*`, `workflow-special-steps/*`) | BullMQ jobs, execution rows | preflight, special step, dispatch, publish result | progress, containers, execution lifecycle | background executions, several attempts | an execution ends with one terminal trigger that reaches the run |
| Auto-retry (`workflow-run-retry-policy.helpers.ts`, `workflow-auto-retry-activation-guard.service.ts`) | attempt counter, marker, delayed job | schedule, activate, give up | failure handler, queue | check then act, marker before add | attempts bounded; a failure is retried or fails the run |
| Reconciliation (`workflow-run-operations/workflow-run-reconciliation.service.ts`) | none | reap stale runs, activate orphaned PENDING runs | all of the above | races the handlers it backs up | never reaps a live run |
| Durable await (`workflow/workflow-await/*`) | await rows, wait state of the parent run | register, child ended, sweep, resume, give up, cancel | progress, sessions, step queue | a save from a stale read, two paths that resume, a child that ends before the parent is parked | joined only when every child has ended; settled for good in the end |
| Execution lifecycle (`execution-lifecycle/*`) | execution rows, leases, outbox | claim, heartbeat, supervise, project events | worker, telemetry | duplicated and reordered events, lost owners | terminal states are final; one owner |
| War room (`war-room/*`) | session, votes | invite, post, sign off, deadlock | agents | concurrent signoffs | consensus means everybody signed the last state |
| Cost governance (`cost-governance/*`) | budgets, reservations | evaluate, reserve, settle | worker | check then act | spending stays under the limit |
| Automation (`automation/*`) | scheduled jobs, their runs | create, edit, pause, resume, delete, run now; poll, claim, dispatch, link | launch, run events | overlapping polls, edits from stale reads, restarts after a claim, a run that ends before it is linked | one workflow per occurrence, none lost without a fault |
| Plugin kernel (`plugin-kernel/*`) | deliveries | deliver, retry, disable | event bus | retries, limits | at least once, bounded |
| Kanban (`apps/kanban/src/*`) | work items, run links | dispatch, review, sync | API | two services, lost callbacks | item status follows its run |

The remaining parts (chat, MCP, tools, memory, settings, auth, telemetry, web) are
listed in `PROJECT.json` with the reason each is left out: request-scoped logic,
pure I/O, or display.

## 2. Plan

1. `WorkflowRunProgress` (done): one run, its job graph, all handlers that move
   it, cancellation.
2. `RunQueue` (done): several runs of one scope: launch locks, skip / queue /
   cancel_running, coalescing by trigger and dedupe key, hand-over, orphan sweep. It
   meets module 1 in the run lifecycle (`PENDING`, `RUNNING`, terminal), of which it
   keeps whether the first jobs were queued, and in `tryActivateNextQueuedRun`,
   which is the step `HandOver` there. To come: the two composed on one small graph,
   for the first jobs of an activated run, and the cascade over child runs.
3. `AgentAwait` (done) with its abstract specification `AwaitContract`: register,
   child completion, sweep, resume, give up, cancel, restart.
4. `JobAttempts` (done): auto-retry with its marker and activation guard, and the
   execution lifecycle below it: worker, owner lease, event bus, projector,
   finalizer, supervisor, restart. It refines what module 1 keeps as "an execution
   ends and raises its triggers".
5. `ScheduledJobs` (done): poll, claim, dispatch, requests, listener.
6. To come: question parking (an idle timer, an answer and the end of the container
   race for one run; its resume is the one of module 3); modules 1 and 2 composed on
   one small graph; the stale-run watchdog against the handlers it backs up; the
   durable-output reconcile and freezing in module 4; `WarRoom`, `Budget`,
   `PluginDelivery`, `KanbanDispatch`.

Abstract specifications: `AwaitContract` is stated, checked and proved to be
implemented. Worth stating next: a job ledger in which every job is pending, then
dispatched or skipped, then settled, each at most once, which module 1 should
implement when the graph has no transitions; and a first-come-first-served queue with
a limit, which module 2 should implement as long as nothing is cut short.

Theorems worth proving next: the safety of one run on graphs with transitions, for the
flags that a branch leaves alone; that module 1 implements the job ledger.

## 3. The module `WorkflowRunProgress`

### State

| Variable | Code |
|---|---|
| `status`, `currentStep`, `completedAt` | columns of `workflow_runs`; a time stamp is the name of the handler that wrote it, so an overwrite shows |
| `queued`, `completed` | `_internal.queued_jobs.J`, `_internal.completed_jobs.J` |
| `output`, `result` | `jobs.J.output`, `jobs.J.result` with `_internal.job_results.J` |
| `saving` | a call of `set_job_output` in flight: behind its guard, or with the output it has read |
| `loops` | `_internal.loops.J.K` |
| `stepQueue`, `dispatching`, `running` | BullMQ jobs waiting; jobs past the worker's preflight; jobs with a live execution |
| `triggers` | terminal-write triggers raised and not handled yet |
| `pc`, `ctx` | for every handler in flight, the `await` at which it is suspended and its local variables |
| `adds`, `cancels` | history and bound: how often a job was put on the queue, cancellations requested |

A handler is a promise chain. Each statement it awaits is one action, with the
reads and writes of that statement; between two of them any other handler, the
worker, an agent or a cancellation may act. `tryClaimInternalJobFlag` is the one
statement that tests and sets: it is `Claimable` in `Queue` and `ClaimCompletion`.

### Actions

* `Launch` then `Queue`, `Add`: the enqueue loop of `createAndStartRun`, and
  `enqueueJob` (claim of the queued flag, then `stepQueue.add`).
* `Dispatch`, `StartExecution`, `DispatchFails`: `resolveJobPreflightContext`, then
  the container or special step. `AgentEnds`, `AgentDies`, `SpecialEnds`, `SpecialDies`:
  how an execution ends. The end of a turn raises two triggers, one from the executor
  and one from the `execution.completed` event, and a failure as well when the worker
  loses its reply or its container after that.
* `StartSaving`, `ReadRecorded`, `PersistJobOutput`: `setJobOutput`, which passes its
  guard, reads the recorded output and writes the merge. An agent may call it again and
  again, and a call in flight goes on without its agent.
* `GateCompletion`, `ClaimCompletion`, `ReadOutput`, `RecordOutput`, `RecordResult`,
  `RecordCompleted`, `Route`: `JobCompletionHandler.handle` up to the choice
  between a transition and the DAG. `markJobCompleted` reads the recorded output,
  writes the merge, in which the reported fields win, and then the result and the flag.
* `Advance`, `ReadNeeds`, `ReadBlocked`, `TestCondition`, `SkipOutput`, `SkipResult`,
  `SkipCompleted`, `FinishLevel`, `Scan`, `LoadRun`, `CompleteRun`, `HandOver`:
  `progressDagOrComplete`. Dependencies are read one flag per step (any order).
* `Exclude`, `Include`, `ClearQueued`, `ClearCompleted`, `EnterTarget`, `MoveStep`:
  `enqueueTransitionJob`.
* `GateFailure`, `Salvage`, `GateLoopFailure`, `FailRun`, `CloseRun`:
  `JobFailureHandler.handle` for a failure that is not retried.
* `StartCancel`, `CancelKill`, `CancelLoad`, `CancelWrite`, `CancelPurge`: `cancelSingleRun`.

### Abstractions

* An output is `met` or `unmet`: what it makes of the conditions that read it. Jobs
  no condition reads record `met` only. Merging is what it does to this value: the
  later fields win. `Savers` are the agents that call `set_job_output`.
* Which transition fires is a free choice, as its expression reads agent output.
* The result is one variable for the two paths that always receive the same value
  one statement apart; nothing reads the two together.
* Killing all containers of a run is one step; the triggers of a turn end are
  raised at once and handled in any order; the loop counter is read and written in
  one step.
* `Rank` gives the order of jobs in the definition, which is also their order
  inside a parallel group.
* A job held by BullMQ under the same id is not added twice; a special job is
  held until its handler ends, an agent job only until it is dispatched.
* The park, await and auto-retry branches are left out here: `GateFailure` is the
  failure whose retry policy says no. `AgentAwait` and `JobAttempts` model them for
  one run and one job. Process crashes inside these handlers, and transition
  expressions that throw, are left out.

The step `Over` lets a finished run stutter, so that TLC's deadlock check finds
a handler that is stuck. Definitions whose comment says *Seeded fault* are not
part of the specification: each is a plausible bug of the definition below it,
used to see that a property notices it.

## 4. The module `RunQueue`

One workflow and one concurrency scope. A launch request and the row it may insert
have one name, so `pc[r]` and `status[r]` speak of the same run.

### State

| Variable | Code |
|---|---|
| `status`, `born`, `ended` | `workflow_runs.status` (`absent` before the insert), `created_at`, whether `completed_at` is set |
| `now` | the clock of `created_at` |
| `waited` | rows inserted as PENDING (event `workflow.queued`) |
| `jobs` | how far a run was started: no trace of a job, `current_step_id` names the first, jobs are live, closed after that |
| `policy` | `concurrency.on_conflict` in the stored definition |
| `line`, `keyLine` | the promise chains of `runExclusive` under `concurrency:W` and `workflow-launch:W:K`, per process |
| `pc`, `plan`, `victim` | of a launch: the await it is suspended at, the policy it loaded, the run it cancels |
| `act`, `picked`, `todo` | of a handler that ends a run and of a reconciler: the await, the row read and not written yet, the rows of the sweep |
| `cancelling`, `aged` | cancellations on the way to their write; rows queued for longer than the grace window |
| `upsets` | bound on disturbances |

### Actions

* `Arrive` (`startWorkflow` up to the first lock), `FindExisting` (launch dedupe),
  `CheckConcurrency` (`checkAndApply`), `FindOldestRunning`, `LoadVictim`,
  `CancelVictim` (`cancel_running`), `CreateRun`, `NameFirstStep`, `StartRun`
  (`createAndStartRun`), `FindQueuedByKey`, `FindQueuedByTrigger`,
  `CreateQueuedRun` (`createQueuedRun`); `FindExistingFails`, `LoadVictimFails` and
  `LaunchFails` are a statement of these that throws.
* `EndRun`, `WriteEnd`: a handler of module 1, or the watchdog, ends a run.
  `ReadPolicy`, `PickOldest`, `Activate`, `NameFirst`, `EnqueueFirst`:
  `tryActivateNextQueuedRun`.
* `Sweep`, `FindOwner`, `CheckUnactivatable`, `CancelUnactivatable`:
  `reconcileOrphanedPendingRuns`, one per process at a time (`reconciliationInFlight`).
  It shares the steps of the activation.
* `EditPolicy`, `RequestCancel`, `CancelRun`, `Age`, `Restart`,
  `ActivationFails`: what happens around.

### Abstractions

* The start of a run is the three statements that matter to the queue (status, name
  of the first step, first enqueue); its end is one choice of COMPLETED or FAILED.
* A run whose jobs are not live can still be ended if the watchdog finds the name of
  a job in it (`Stale`, after `resolveStalledJobIds`); a run without such a name is
  `Stranded`.
* The cascade over child runs, the kill of containers and the purge of the queue in
  `cancelSingleRun` do not touch the scope and are part of the step that
  writes the status.
* Workflows without a concurrency policy take another lock and no queue; deleted
  workflows and scopes other than the one modelled are left out. So are
  `pauseWorkflow`, which nothing calls, and `resumeWorkflow`, which an operator's
  repair action calls (`operations/doctor-workflow-repair.service.ts:229`,
  `operations/system-recovery-repair.service.ts:138`).
* The policy changes under running requests (`EditPolicy`); `max_runs` does not.

## 5. The modules `AgentAwait` and `AwaitContract`

### State

| Variable | Code |
|---|---|
| `row` | `agent_await`: status, `satisfied_run_ids`, whether `parent_session_ref` is set |
| `ended`, `parent` | whether the run of a child is terminal; the status of the parent's run |
| `parked` | `wait_reason = dependency` on the parent's run |
| `registrar` | how far `register` and the end of the suspending step have come |
| `cancelling` | parents whose cancelled event has not reached `cancelParentAwaits` |
| `th` | the threads: one listener call per child that ends, and the sweep. Each has a label, the child it reports, the rows left, the entity it has read and the record it resumes |
| `sweep`, `attempts` | the loop of `reconcileOnce`; `resumeAttempts`, which a restart clears |
| `joins`, `failed` | what reached the parent: the join messages on the step queue, by the children they name; the jobs failed by `giveUp` |

The listener and the sweep share `onChildTerminal` and `resumeParent`, so their
actions take the thread as a parameter.

### Actions

`CreateAwait`, `ParkParent`, `CaptureRef` (registration, and the session reference
written when the suspending step ends); `ChildEnds`, `CancelParent`, `CancelAwaits`
(events); `FindWaiting`, `ReadEntity`, `SaveEntity`, `Refresh`, `PromoteOne`, `AllMarked`
(`onChildTerminal`, with `markSatisfied` as a read and a save of the whole entity);
`StartResume`, `CheckRun`, `SetRunning`, `Enqueue`, `EnqueueThrows`, `FinishResume`
(`resumeParent` and `resumeJobWithMessage`); `SweepStarts` to `GiveUpFail` (the
reconciler); `Crash`.

### Abstractions

* The grace period of a RESUMING row is a choice: `SkipYoung` leaves the row alone,
  `PickStuck` takes it. Fairness lets it grow old.
* The join message is the set of children it names. The text, the nodes appended to
  the session tree and which tree is the freshest are left out; `HasTree` says
  whether a parent has one at all.
* `handleJobFailed` of the parent's job is the fact that it was called: what it does
  is module 3.
* Parents run until a user cancels them: a parent that ends for another reason while
  it waits is not modelled.

`AwaitContract` has three variables and three actions: a child ends, a parent is
resumed, a parent is dropped, the last two only when every child it waits for has
ended. `AgentAwait` implements it under `resumed <- {a : joins[a] # {}}` and
`dropped <- failed`; the property is `KeepsContract`.

## 6. The module `JobAttempts`

One agent job of one run. An execution is numbered in the order of `created_at`.

### State

| Variable | Code |
|---|---|
| `run`, `done`, `step` | status of the run, `_internal.completed_jobs.J`, whether `current_step_id` names this job |
| `attempt`, `marker` | `_internal.auto_retry.J.attempt` and `.last_failure` |
| `slot`, `meta`, `consumer` | the BullMQ jobs of the two ids a job can have, the attempt in the data of the retry, the local state of the worker that processes one |
| `row`, `lease` | `executions.state`, the owner and its lease |
| `up`, `agent`, `signal` | containers that run, the agents in them, the latest `workflow.agent.completed` of the job in the event ledger |
| `pub` | the publishers, each with the label of its next awaited call, the event, the execution it is about, the state the projector writes, and the attempt counter it has read |
| `crashes` | bound |

`publish()` of the in-process bus calls the subscribers one after the other, and
whoever publishes awaits them. The subscribers of an end are the completion
listener and the projector. So an end is reported by a publisher that walks through
the engine's handlers and then through the row, one awaited call per step, while
other publishers of the same or of another execution do the same. There are four per
execution: its background worker, the finalizer of its `agent_end`, a heartbeat,
the supervisor. The `process()` of a BullMQ job, too, may call a handler of the engine, and
is a publisher while it does.

### Actions

* `ReadContext`, `CheckSiblings`: the completion listener. `GateCompletion`,
  `ClaimCompletion`, `ClearRetryState`: the completion handler. `DecideRetry`,
  `SetAttempt`, `SetMarker`, `SetStep`, `AddRetry`, `ClearFailed`, `FailRun`, `CloseRun`: the
  failure handler and `scheduleWorkflowAutoRetry`.
* `Project`, `Save`: `applyTransition`, which reads and tests in one call and saves in
  another. A completion is projected twice, as `completing` and as `completed`.
* `ClaimLease`, `KillStale`, `Provision`, `StartAgent`, `TurnEnds`, `Cleanup`,
  `ReleaseLease`: `runAgentJobAndPublishResult` and `executeJobCore`.
* `AgentEnds`, `FindRunning`, `Heartbeat`, `ContainerDies`: agent and container.
* `Sweep`, `Reap`, `Reconcile`, `LeaveAlone`: the supervisor, with the classifier as
  the predicates `ContainerLost`, `Undispatched`, `AgentEnded`, `OwnerLost`, `Overrun`.
* `Take`, `GuardRetry`, `MarkActivated`, `Preflight`, `HandlerReturns`, `FindPrior`,
  `CancelPrior`, `SaveCancelled`, `CreateExecution`, `PublishCreated`, `Acknowledge`: the
  step worker. `Preflight` may leave a run that has ended alone, complete a job whose condition is
  false, or report that the capability check failed, while BullMQ still holds its job.
* `Crash`, `MoveStep` (a parallel branch moves `current_step_id`), `CompleteRun`.

### Abstractions

* `ListenerFirst` says which of the two subscribers registered first. Both register
  in `onModuleInit`, so the order is that of Nest's module initialisation, which nothing
  in the code fixes. The run `retries` has the projector first and `restart_between` the
  listener; `BudgetKept` is proved for both orders, and `RunSettles` holds for one only
  (section 8).
* `Settled` and `Backoff`: a retry is delayed, so steps in flight are over when it is
  taken. The initial delay is at least 60 s whatever the setting
  (`workflow-run-auto-retry-config.helpers.ts:73-77`), and the jitter takes a fifth of
  it away by default (`jitterRatio` 0.2). A jitter ratio of 1, which the settings
  allow, could bring the delay near 0; `Backoff` excludes that. `Quiet`: the grace periods of the supervisor outlast the
  steps of a publisher at work on the execution, but not the start of a container.
  Both leave out interleavings that need a call to last for minutes.
* `Heard` selects the heartbeats and finalizers an instance has. A report that is not
  heard is one the telemetry lost.
* The reads of the failure handler up to its decision are one step; the comment at
  `DecideRetry` says why this hides nothing.
* `onFailed` (`step-execution.consumer.ts:223-257`), which reports a BullMQ job whose
  `process()` threw on its last attempt, is left out: no call of `process()` throws here.
* The cap on retries in flight over all runs is a free choice; the unlimited retries
  of usage limits (429), the retries for missing tool calls and for provider outages,
  salvage and the durable-output reconcile are left out.
* Parks: `gateCompletion` may suspend the completion of a job whose run waits for a
  question or an await. See `AgentAwait`.
* Frozen rows and the startup resume are left out: the supervisor skips frozen rows,
  and a frozen row that cannot be resumed is set to `failed` without an event, so the
  engine is not told.

## 7. The module `ScheduledJobs`

One scheduled job. Times are ticks, 0 is null, an occurrence is named by its due
time, which is the unique `(job, due_at)` key of its row.

| Variable | Code |
|---|---|
| `job` | the row of `scheduled_jobs`: status, schedule, `next_run_at` |
| `runs` | the rows of `scheduled_job_runs`, and whether `workflow_run_id` is stored |
| `wf`, `events` | the workflow of an occurrence, its events the listener has not applied |
| `proc` | pollers and requests: label, occurrence, time of the tick, row read |
| `now`, `faults` | clock; bound on restarts and database errors |
| `started`, `claimed`, `missed` | history |

`Tick`, `FindDueJobs`, `AdvanceNextRunIfDue`, `CreateRun`, `MarkRunning`,
`StartWorkflow`, `LinkRun`, `LinkFails`, `MarkRunEnded` are one poll; `AskUpdate`,
`AskPause`, `AskResume`, `AskDelete`, `RunNow` are the requests, which read and compute,
and `SaveJob` writes what they computed; `WorkflowReports`, `WorkflowEnds`, `ApplyUpdate`
are run events and the listener; `Fault` ends a batch or a request where it is.

Abstractions: the arithmetic of `computeNextRunAfterExecution` is modelled as it is;
a cron expression is a period whose multiples it names. One job, so the batch size
and the order of a batch do not show, but time may pass between the query and the
claim as it does when other jobs of the batch come first. Poll settings and input
templates are left out. The updates of one workflow are applied in the order of its
events. A launch that is coalesced with an existing run stores that run's id; this
reuse is left out. A queued run announces itself when it is activated, not when it
is inserted. `Reported` bounds the occurrences whose workflow starts and reports; the
others stay in the launch queue (`Launches`).

## 8. Runs

`MCWorkflowRunProgress` holds the job graphs. Jobs are the strings `a` to `d`, the
launcher is one of the handlers, the others are interchangeable (symmetry is used
only in runs without liveness properties).

Bounds: two or three handlers in flight. Two is the least at which any race shows
and three lets a third completion overtake two that are suspended; a
behaviour with more triggers than handlers delays some of them, which is a
schedule of the same system. Three or four jobs: four are needed for a
branch that is not taken and has a descendant of its own. In `dag_branches` three jobs are
special steps and one is an agent, whose turn end raises two or three triggers and which
calls `set_job_output`; all agents would only multiply the same handlers. `MaxLoops` is 10 as in the code, or 0 to be at the
limit at once. `MaxCancels` is 0 or 1. No other counter is bounded: `adds` and
`loops` stay finite because each job is queued finitely often.

### Runs that pass

| Run | Graph | Shows |
|---|---|---|
| `dag_branches` | `a` goes on to `b` and `c` or branches to one of them; `d` needs `a` and `c`; the agent of `b` saves its output while it works | no double dispatch, no double completion, dependencies first; COMPLETED means every job completed; a RUNNING run always has something that drives it; a branch not taken stays skipped, and so does the descendant that falls with it |
| `joins_end` | two roots that are special steps, a strict join and a conditional join | every run ends (liveness), skip races and failed results included |
| `cancelled_run` | two roots, a dependent job, a transition at its loop bound, one cancellation, three handlers | a cancellation never leaves a run RUNNING without a driver nor COMPLETED with work in flight |
| `queue_drains` | three launches, two with one dedupe key; policy `queue` or `cancel_running`; one disturbance | runs started at once stay within the limit, every launch is answered (liveness), every queued run is started or cancelled unless a half-started run holds the scope (liveness) |
| `launch_races` | four launches, two with one dedupe key, two with equal triggers | one live run per key, equal triggers coalesce, the queue is served oldest first |
| `await_join` | one parent, two children, one restart | joined only after both children ended (refinement of `AwaitContract`); a listener's record names both; RESUMED only with a message on the queue; the await is settled for good (liveness) |
| `await_shared` | two parents, one child; one parent may be cancelled and has no session tree; one queue error | nobody is given up without a queue error; settled rows stay, except for a save from an older read |
| `restart_between` | no retry, two executions, one restart; heartbeats of the first, finalizer of the second; the listener comes first | the engine hears of the end (liveness); no execution row stays live (liveness) |
| `retries` | one retry, two executions, a parallel branch; the projector comes first | no more executions than the budget allows; types |
| `schedules` | a one-time, a cron and two interval jobs, two pollers, one request, four ticks, one fault; the workflow of the third tick reports | one workflow per occurrence; a fault loses one at most; the row ends as its workflow did; missed intervals are folded into one; once time stops, the job catches up with the clock (liveness) |

The liveness properties are stated as `[]<>` of what must be reached ("again and
again the run is over") where the reached state is one that lasts: that is what they mean
here, and TLC checks it on one graph of the behaviours instead of one for each obligation.

`MCAgentAwait`: two children are needed for a join to be incomplete, and two parents
with one child for the listener to promote one of two. `OneAfterTheOther` bounds `await_shared` to
registrations that do not overlap; what overlaps is the registration of each with the end
of the child, the listener and the sweep. `MaxResumeAttempts` is 1 (3 in
the code, `agent-await-reconciler.service.ts:33`): giving up is then one
failure away, and two would only repeat the step. One restart, or one queue error.

`MCJobAttempts`: two executions are what a retry, or a job handed out again after a
restart, adds. `MaxRetries` is 0 or 1: the term of `BudgetKept` for restarts is a matter of
the proof, as `retries` has none. `Unfinished` bounds `retries` to runs that are not over: the states
in which a run ends are checked, what stale consumers do afterwards is not. The instances with a retry have no report
other than those of the workers and the supervisor, and the one with a restart has
no retry, to stay within reach: `RunSettles` and `EveryAttemptEnds` are checked with the
listener first, the finalizer of the second execution and no retry, and are claimed for
no more. The list of behaviours below says what other instances show.

`MCScheduledJobs`: intervals of 2 and 3 ticks and a clock of 4, so that an occurrence is
missed, a late tick is off the grid, and the next run must come back to it. The workflow of
one occurrence (`Reported`) starts, pauses and ends; the others stay in the launch queue. Two pollers stand for two API processes, or
for two polls of which one is late.

`MCRunQueue` names the launches `a` to `d`. One process and one handler that ends
runs, beside the reconciler: two activators already pick and write in every order.
Three launches are the least at which one runs, one waits and one arrives in
between; four let two wait and one be coalesced. `MaxUpsets` is 1: any one edit,
cancellation, failure or restart, at any point. `max_runs` is 1, which makes a second
run a violation. A launch is made once, so a behaviour may end and these
runs do not check deadlock; `QueueDrains` and `LaunchAnswered` say what must not be
left over.

The invariant `CompletedMeansNoWork` speaks of work that is waiting, dispatched or
running, and of handlers that may still add some; a handler that is past its last
effect may finish after the run.

### The runs that exhibit a disagreement

`v_old_signal` and `v_revived_parent` each check one statement of a comment, and TLC finds
a behaviour of the code that violates it. The quotes are in `PROJECT.json` under `findings`.

`v_revived_parent`: a comment of `resumeJobWithMessage`
(`workflow-job-message-queue.service.ts:50`) says that a terminal run must never be flipped
back to RUNNING. Its check reads the status, the definition of the workflow is loaded, and
only then RUNNING is written, by id and whatever the status is. A cancellation in
between is undone: the parent runs again and is sent its join message.

`v_old_signal`: `agent-end-signal.reader.ts:14` says that the signal confirms that an
agent loop has finished. The supervisor takes the latest signal of the run and step. After an
attempt whose agent ended in failure, that is the signal of the old attempt: a sweep
that sees the retry running reconciles it to failed while its agent works.

### Behaviours of the model worth knowing

These follow from the same definitions: TLC finds each of them when the statement it
contradicts is checked. No run is kept for them.

Of one run:

* Two handlers that settle the last two jobs can both find every job completed, and
  both hand the slot over.
* `completed_at` is written twice when two terminal writers had loaded the run
  without it: the patch is computed from the run read earlier, although
  `docs/guide/06-workflow-engine.md:346` calls it idempotent.
* A lenient job that declares `needs` does not wait for them: `tryAdvanceToNextJob`
  reads `depends_on` only.
* A later level starts as soon as its own `depends_on` are met: the candidates of
  `tryAdvanceToNextJob` are all later levels, so a level is not a barrier.
* A strict job can be skipped as blocked between the completion flag of its
  dependency and the record of its result: the entry under `jobs` is there, its
  result is not. Another handler finds the result and enqueues the job: it runs although
  it was skipped, its output is replaced by the skip marker, and the run can be
  COMPLETED while it still runs and FAILED after that.
* The same happens to a job whose condition tests a dependency that has claimed its
  completion and has not recorded its output, when two handlers reach it.
* A transition target whose condition is false is skipped by `enqueueJob`, and
  nothing advances the graph after the skip: the run stays RUNNING.
* In the review loop of `docs/SDD.md` the first step is itself a transition target,
  so there is no job at level 0 to start and the launch completes the run at once.
* The other branch is marked skipped whatever has become of it (`Exclude`): the skip marker
  replaces the outputs of jobs that already completed.
* `set_job_output` and the completion of the job both read, merge and write the recorded
  output, so a concurrent pair loses the fields of one of them. A call in flight may also
  write after the completion was recorded. If a condition tests that value, one handler may
  find it true and another false: the job is skipped and run.
* A turn end that was reported may be followed by a failure of the same job, when the reply
  or the container is lost after it. A failure handler that read RUNNING before the run
  completed writes FAILED over COMPLETED.
* A container that starts between the kill and the status write of a cancellation
  is left running.

Of the queue:

* The launch locks live in the memory of one process (`workflowStartLocks`);
  `docs/guide/06-workflow-engine.md:441` calls them Redis-based. With two processes
  two runs of one dedupe key, and two runs where one is allowed, are started
  together. `Server` and `Host` are parameters of the model for that reason.
* A row that was cancelled between the read and the write of an activation becomes
  RUNNING again, and its first job is enqueued.
* Under `cancel_running` a launch starts its run even when the run to cancel could
  not be loaded, so the limit is exceeded; `AdmittedWithinLimit` leaves such
  launches out.
* Each end of a run activates one queued run, and the reconciler none while a row is
  RUNNING: with `max_runs` above 1 a slot that was freed by a cancellation stays
  unused until another run of the scope ends.

* With `max_runs: 1` two runs of a scope can be RUNNING: a hand-over activates a queued
  run without testing the limit, and a launch may have taken the slot.
* A start that is cut short between the statement that writes RUNNING and the one that
  names the first step leaves a run that no recovery path ends.

Of one run, with cancellations or branches:

* A cancellation and the write of COMPLETED or FAILED overwrite each other, as all of
  them write by id.
* A dependency whose completion is claimed but not recorded yet makes the condition
  of the job that reads it false, and the job is skipped.
* The queued flag of a transition's target is kept: a loop back to a job that already
  ran is not enqueued, and the run stays RUNNING.
* A branch resets the completed flag between the two triggers of one turn end, and the
  completion is claimed twice.

Of an await:

* The late park. A child ends between the two statements of `register`, and the
  parent is resumed before it is parked. Then `setWaitState` marks a parent that
  works again as waiting, with an await that is RESUMED: `gateCompletion` suspends its
  completion (`workflow-question-park.helpers.ts:33`) and the watchdog passes over it
  (`workflow-run-reconciliation.service.ts:168`).
* A restart after `giveUp` has cancelled the row, and before it has failed the job,
  leaves the parent parked: no sweep looks at a CANCELLED row.
* `markSatisfied` saves the row it has read. It can undo a promotion, or drop a
  child that another call has added; the sweep repairs both. The join message of the
  sweep may then name fewer children than have ended.
* An engine without session tree: the session reference is only stored in a WAITING
  row. If the child ends first, the row is RESUMING, the reference is lost and the
  parent cannot be resumed.
* A parent can be sent two join messages: the listener and the sweep both resume, or
  a restart comes between the queued message and RESUMED.

Of the attempts of a job, when the finalizer and the heartbeats of both executions are
heard:

* Two agents work on one job: the supervisor reaps an execution whose container is slow
  to come up, the retry is taken, and the first worker goes on.
* An execution that was replaced still charges a failure to the budget, when its report
  has passed the listener before the supersede is saved.
* A job that has completed is retried: the worker of a reaped execution claims the
  completion while the retry it caused is being taken, and nothing on the way of the
  retry looks at the completed flag.
* Two reports of one failure both find no marker and both add the retry. They write
  the same attempt, and BullMQ drops the second job: this is what keeps the budget.
* The capability check of a retry fails. `handleJobFailed` schedules the next retry
  while BullMQ still holds the job of the same id, the add is ignored, and when `process()`
  returns nothing is queued: the marker stays, the run stays RUNNING. It takes a budget of two.
* A parallel branch moves `current_step_id` before the delayed retry is guarded: the
  retry is skipped as stale, its marker stays, and nothing moves the job any more.
* The run can be set FAILED after the job has completed: `FailRun` writes by id.
* A restart between the listener that clears the retry state of a step and the write of
  FAILED leaves the job with a fresh budget. `BudgetKept` therefore allows a full budget
  more per restart, beside the first job that is handed out again.
* The row of an execution can say completed before the engine knows. When the projector is
  called before the listener this is the normal order, and the listener then
  ignores every completion whose row is completed already
  (`step-execution-completion.listener.ts:71`): the end of a turn reaches the engine through
  the executor only. A finalizer that completes the row, and a restart before the executor
  reports, leave the run RUNNING for good, because the supervisor looks at live rows only.
  `RunSettles` fails with `ListenerFirst = FALSE`.
* With the listener first it happens when the finalizer of the first execution is heard.
  The first execution was reaped, its agent goes on and ends when the retry starts.
  The finalizer takes the row of the retry. The listener ignores the completion,
  because that row is still provisioning; when the projector reads it, it is
  running, and completed is written while the second agent works. The engine still
  learns of the end from the executor of the second agent.

Of a scheduled job:

* A restart after the claim and before the row loses the occurrence. A one-time job
  then never runs; its `next_run_at` is null.
* When the run id cannot be stored, the row says FAILED while the workflow runs, and
  the listener will not find it. Nor does it when the workflow ends before the id is stored:
  the row then stays RUNNING.
* The claim tests the status of the job in its own statement, so no paused job is claimed.
  An occurrence that was claimed before the pause still starts its workflow.
* A manual run whose time equals the due time of an occurrence takes its key.
* An edit writes back the `next_run_at` it has read. An occurrence is then claimed
  twice, and the unique key drops the second.


### Fairness

`FairSpec` asks for weak fairness of each handler's next step (an awaited promise
settles), of the delivery of raised triggers, of the worker and of the end of an
execution: agents run under a turn timeout, the supervisor reaps those that do
not report, and special steps under BullMQ's lock. No fairness is asked of
cancellations, of agents recording output, or of any particular outcome.

`RunQueue` asks for weak fairness of all that launches, handlers and accepted
cancellations have left to do (`Work`), and of each reconciler, whose timer fires
for ever. One condition on `Work` as a whole is enough: every launch, every end of a
run and every cancellation has a finite amount of it. No fairness is asked of
arrivals, of requests to cancel, of edits or of failures.

`AgentAwait` asks for weak fairness of each thread's next step, of the registrar and of
a cancellation under way, and of the sweep, which a timer starts every 30 seconds.
Strong fairness is asked of `PickStuck` for each row: a row that stays RESUMING is
looked at by every sweep, and at some sweep it is older than the grace period.
Nothing is asked of children, restarts or cancellations.

`JobAttempts` asks for weak fairness of each publisher's and each consumer's next step.
Strong fairness is asked of `Sweep` and `Reap` for each execution, because the
supervisor handles one row at a time and a state it would reap may be seen by one
sweep and not by the next. Nothing is asked of agents: they may never end, and the
maximum runtime passes (`Overrun`).

`ScheduledJobs` asks for weak fairness of the pollers: the poll is a repeatable job of
the queue. Nothing is asked of the clock, of requests or of workflows.


## 9. Proofs

### `WorkflowRunProgress`

Proofs are in `WorkflowRunProgress_proofs` (types) and `WorkflowRunSafety_proofs`
(safety). They hold for every set of jobs and handlers and every graph that
`ConstantsAssumption` admits, with any number of failures and cancellations; the
safety theorems name what else they assume.

| Theorem | Assumes | States |
|---|---|---|
| `TypeCorrect` | - | `Spec => []TypeOK`, transitions included |
| `DispatchedOnceHolds` | `NoTransitions` | a job is put on the step queue at most once |
| `OneCompletionHolds` | `NoTransitions` | at most one handler records and routes the completion of a job |
| `CompletedMeansAllJobsHolds` | `NoTransitions`, `InitialJobs # {}` | a COMPLETED run has every completed flag set |
| `DependenciesFirstHolds` | `NoTransitions`, `PlainNeeds`, `InitialJobs # {}` | a job is queued only after its `depends_on` have completed |
| `CompletedMeansNoWorkHolds` | `PlainGraph` | no job of a COMPLETED run waits, starts or runs |
| `SkipIsFinalHolds` | `PlainGraph` | a skipped job is not dispatched afterwards |
| `NoDriverlessRunHolds` | `NoTransitions`, `InitialJobs # {}`, `Layered` | no run is left RUNNING with nothing to drive it |

`NoTransitions` says that no job branches. It is needed: only a branch resets a
flag, and section 8 says what then goes wrong. `InitialJobs # {}`
excludes the graph that completes before anything has run. `PlainNeeds` says that a
strict job lists required needs whose policy a skipped result does not satisfy; a
policy `any` or an optional need lets such a job start early on purpose.
`PlainGraph` adds to `NoTransitions` and `InitialJobs # {}` that no job is strict and that a
condition tests at most the one job that all others wait for, which does not call
`set_job_output` (`OnlyRootTested`). Each part is needed: with a strict join of two roots, with a
condition on one of two roots, and with a tested output that is still being saved when the
job is recorded, TLC finds jobs that are both skipped and run (section 8).
`Layered` says that a job lies on a higher level than the jobs it needs and later in the
order of the levels. `detectCycles` refuses a definition with a cycle,
`findParallelJobs` puts a job one above the highest job it needs, and
`progressDagOrComplete` walks the groups in ascending order; `Rank` stands for that
order. That the recursive `Level` of an acyclic graph has this property is induction
over data; TLC evaluates `Layered` on the graph of every run (`GraphLayered`).

**Types.** `TypeOK` is not inductive, because a handler that resumes uses its local
variables: `Queue` adds `ctx[h].cand` to the step queue. `TypeInv` adds
`HandlersOK`: at each label the locals that the next statement uses are jobs.
Lemmas about record updates (`Starting`, `Consider`, `Settled`, ...) say what each
leaves in the context, one lemma per group of actions shows that it preserves
`TypeInv`, and `StepTypes` joins them.

**Flags.** Without transitions no handler is ever at a label that resets a flag
(`Linear`), so flags are only set. Then `ClaimInv` is inductive: a job is added
at most once, only after its queued flag was set; a handler between the claim and
the add holds a job that is not added yet, and no two handlers hold the same. `CompletionInv` says the same of the
completed flag and of the labels from `existing` to `route`.

**Scan.** `CompleteRun` trusts flags read one at a time, earlier. `ScanInv` says that
at the label `scan` a handler holds every job whose flag it has not read in
`unread`, and that every other flag is set and, by the argument above, stays set;
at `complete` none is unread. The steps are classified by what they write
(`StepKinds`: ordinary, claims, adds, completes) and by where a handler arrives
(`Heads`), so each kind is argued once and not once per action.

**Dependencies.** `NeedsInv` says the same of the dependencies of a candidate: at
`needs` those that are not in `unread` have completed, and at `condition`, `queue`
and `add` all have. `DependenciesFirst` follows at the step that claims the queued
flag.

**The life of a job.** The two theorems under `PlainGraph` share `LifeInv`. `StageInv` says
that a job is queued in each of its stages - about to be added, in work (waiting, starting or
running), reported by a trigger, held by a handler that has not claimed its completion yet -,
that it is not completed before it is reported, and that it does not go back to an earlier
stage. A reported job may have completed, since its turn end raises several triggers.
`FlagFlow`, `AddFlow` and the like say how one step moves jobs between the stages; each is
shown of every action once, and the stages follow. What excludes a skip of a job that runs is its
condition: `CondInv` has it true at the claim of the queued flag, false at the skip, and
`OutputStable` says that it does not change in between. That rests on `RootInv`: until the
root is recorded no handler considers another job.

**The drive.** `NoDriverlessRun` says that a quiet run has ended; strict jobs, conditions
and cancellations are allowed. Its invariant `RunningInv`, of a RUNNING run, names who
drives what. An initial job is queued or `Launches` names the handler of the launch loop
that will queue it. A job all of whose needs have completed is queued, completed, or
`Takes` names a handler that will still consider it: one that has claimed a completion on
a lower level, or one that walks the levels and has not passed the job. A queued job that
has not completed is in a stage (not `Lost`), or a handler is about to fail the run. If
every job has completed, a handler is on its way to `complete` (`Concludes`). `DriveHead`
says of each action that it drops nothing its handler was about to do. The step that
needs an argument is the one that completes the last need of a job: a claimed completion
is routed later, and a handler that skips a job has not passed its dependents, because it
walks in the order of the levels (`Ordered`, `Placed`, `DependentsLater`). A quiet
RUNNING run then has a job that is not completed, the lowest of those (`LowestOpen`) has
completed needs only, and nobody takes it, a contradiction.

Only model-checked, not proved: everything on graphs with transitions, where
`NoDriverlessRun` holds in the runs `dag_branches` and `cancelled_run`. `RunEnds` is
liveness under fairness and `Level` and `Reachable` are defined by recursion or closure:
what they compute for every graph is outside what the prover can show, so the proofs use
only their types and, of `Level`, the hypothesis `Layered`.

### `RunQueue`

Proofs are in `RunQueue_proofs` (types, locks, rows) and `RunQueueSafety_proofs`. They
hold for every number of launches, handlers and keys, every `max_runs` and every
`MaxUpsets`, so with any number of edits of the policy, cancellations, failed
statements and restarts, in any order.

| Theorem | Assumes | States |
|---|---|---|
| `TypeCorrect` | - | `Spec => []TypeOK` |
| `AdmittedWithinLimitHolds` | `OneServer` | runs started at once stay within `max_runs` |
| `OneQueuedPerTriggerHolds` | `OneServer` | no two queued rows have the same trigger |
| `OneLiveRunPerKeyHolds` | `OneServer` | one live run per dedupe key |
| `OldestFirstHolds` | - | the row that is activated is an oldest one of the queue |

`OneServer` says that all launches arrive at one API process. It is needed: the
chains are in the memory of a process, and two processes check at the same time.

**Types and locks.** `Head` and `Tail` of an empty chain would leave the types, so
types need `LocksOK`: a launch is in the chain of every lock it waits for or holds
and at the head of each it holds. One lemma per way of joining, continuing and
leaving (`JoinLocks`, `ContinueLocks`, `AnswerLocks`, ...) says that a step of one
launch keeps the places of the others. `RowsOK` says that a launch that has not
inserted has no row, that no activator, sweep or cancellation holds a row that
does not exist, and that an activator activates a row that was queued. That
`Oldest` is in its set needs a minimum of numbers that may be infinitely many:
`SomeLeast` takes it from the well-foundedness of finite sets.

**Check, then insert.** Every step either inserts one row (`CreateRun`,
`CreateQueuedRun`) or adds nothing to the queue, to the runs started at once and to
the rows that never ended (`Shrinks`, `StepShrinks`). What a check has found - room
below the limit, no twin, no run of the key - is therefore still true at the insert
unless another launch inserts in between, and the head of the chain is one launch
only (`OneInLock`, `InsertAlone`). `Enters` says how a launch comes to the insert.
The hand-overs, the reconciler and the watchdog work without the locks, and the
proofs show that they cannot break these three properties; they do break the
limit on all RUNNING rows (section 8).

**First come, first served.** `OldestInv` says that what an activator has picked is
no younger than any queued row until it is written: rows leave the queue, and a
new one is born at a later `now`. This needs no lock.

Only model-checked: `LaunchAnswered` and `QueueDrains` (liveness).

### `AgentAwait`

`AgentAwait_proofs` holds for any sets of awaits and children, any number of attempts,
restarts and queue errors, cancellations and parents with and without a session tree.

| Theorem | States |
|---|---|
| `TypeCorrect` | `Spec => []TypeOK` |
| `Refinement` | `Spec => KeepsContract`: the code implements `AwaitContract` |
| `ResumedWasSentHolds` | a RESUMED row has a join message on the queue |
| `ListenerNamesAllHolds` | a listener's record names every child |
| `SettledStaysHolds` | a settled row stays, but for a save from an older read |
| `GivesUpOnlyInTroubleHolds` | a job is given up only after as many queue errors as attempts |

The refinement needs that a parent is joined only when every child has ended, while
rows are overwritten from stale reads. `Inv` says so of every place a row can be:
in the table, in the entity a thread has read, in the record it resumes, in the work
list of the sweep. A `satisfied` set holds ended children only, and a record says
RESUMING or RESUMED only when all have ended; a save then writes nothing worse than what
the table may hold. `StepGrows` says that ended children and join messages only grow, so
a record stays sound however old it is, and each action is argued for the thread that
moves. `SettledStays` follows from the shape of single steps.
`GivesUpOnlyInTrouble` needs `TroubleInv`: the counter of a row never exceeds the errors
it has met, plus one for an attempt under way. The instance has `MaxResumeAttempts = 1`;
the theorem has any.

### `JobAttempts`

Proofs are in `JobAttempts_proofs` (types) and `JobAttemptsSafety_proofs`. They hold for
any number of executions, retries and restarts, any reports that are heard, and both
orders of the subscribers.

| Theorem | Assumes | States |
|---|---|---|
| `TypeCorrect` | - | `Spec => []TypeOK` |
| `BudgetKeptHolds` | `Backoff` | as many executions are started as the budget and the restarts pay for |

**Types.** `TypeOK` bounds the attempt counter, the marker and the queued retry by the
budget, and is not inductive: `SetAttempt` writes what `DecideRetry` read some steps
before. `PubInv` adds that a publisher on its way to the queue has read a counter below the
budget.

**Budget.** `Dispatches` counts the executions there are and those that nothing but the end
of the run can prevent: of a job that waits on the first slot or is past the guard of the
retry. `BudgetInv` says that every dispatch is matched by the attempt counter, by the counter
that a failure handler has read, or by the run being about to fail (`Failing`), as long as
the job has not completed: `CounterLeads` while a handler decides, `RetryCounted` while
the retry waits, `GuardCounted` while it is tested. Two handlers of one failure are
harmless because both write what both have read. `Restarts` is what restarts give away.
`Backoff` is needed: a retry that is taken while another failure handler is half-way is
tested against a counter that is written later.

A publisher that is the `process()` of a BullMQ job brings `Called`: while it reports, its
consumer waits for it, so the job of that consumer has not been dispatched yet and the
report of a failed capability check is counted like any other.

### `ScheduledJobs`

`ScheduledJobs_proofs` holds for any pollers, requests and schedules, any clock bound
and any number of faults.

| Theorem | States |
|---|---|
| `TypeCorrect` | `Spec => []TypeOK` |
| `IntervalSkips` | the next run of an interval lies after the tick, by an interval at most, a whole number of intervals after the last |
| `SkipsMissedHolds` | so does the one that a claim writes |
| `OneWorkflowHolds` | one workflow per occurrence |
| `RowFollowsHolds` | a linked row ends as its workflow did |
| `OnlyFaultsLoseHolds` | no more occurrences are lost than there were faults |

`IntervalSkips` is arithmetic: quotient and remainder (`DivMod`, `NextMultiple`,
`MultipleModulo`). `OneWorkflowHolds` and `RowFollowsHolds` share `DispatchInv`: a row
that is inserted is held by one process until it is linked or has ended, and a
workflow is started only by the process that holds the row. `OnlyFaultsLose` speaks of
occurrences that nobody handles any more, a number that also falls again when a late
write settles one. The inductive `DroppedInv` counts the occurrences dropped when a
process lets go of them: one lemma per way of taking up an occurrence, going on with it
and letting go of it (`TakesUp`, `GoesOn`, `LetsGo`, `LetsGoWell`) says how the set
changes, and only a fault lets go badly.

### Only model-checked

The safety of one run on graphs with transitions, and the liveness properties `RunEnds`, `LaunchAnswered`, `QueueDrains`, `AwaitSettles`, `RunSettles`,
`EveryAttemptEnds`, `CatchesUp`, which are out of the prover's reach.


## 10. What is not modelled

Question parking, subagents, child runs of a cancellation, the reconciliation of
failed queue jobs, the part of the stale-run watchdog that ends runs with live jobs,
freezing and the startup resume of executions, the durable-output reconcile, crashes
of the API process inside the handlers of one run, and every component marked
`not_modelled` in `PROJECT.json`. The repository has some 4100 source files, most of
which are endpoints, read models, user interface and adapters; the project covers the
protocols that several actors run on shared rows, and is small beside the whole.
