------------------------------ MODULE JobAttempts ------------------------------
(***************************************************************************)
(* The attempts of one agent job of one run: how the step worker           *)
(* dispatches an execution, how its end is published, projected on its row *)
(* and reported to the engine, how a failure is retried, and what the      *)
(* execution supervisor repairs.                                           *)
(*                                                                         *)
(* An event is published by whoever awaits publish(): the bus calls its    *)
(* subscribers one after the other, each of them a chain of database       *)
(* calls.  For the end of an execution they are the completion listener,   *)
(* which tells the engine, and the projector, which writes the row.  The   *)
(* publishers of one execution are its background worker, the telemetry    *)
(* finalizer of its agent_end, its heartbeats and the supervisor.          *)
(*                                                                         *)
(* Each awaited call is a step.  applyTransition reads a row, tests the    *)
(* edge and then saves: the save does not test again.                      *)
(***************************************************************************)
EXTENDS Naturals, FiniteSets

CONSTANTS
    MaxAttempts,    \* bound: executions of the job
    MaxRetries,     \* workflow_auto_retry_max_attempts
    MaxCrashes,     \* bound: restarts of the API process
    Heard,          \* bound: reports of the agent that arrive
    Backoff,        \* the delay of a retry outlasts the steps in flight
    ListenerFirst,  \* the completion listener subscribed before the projector
    Branching       \* a parallel branch of the run may move current_step_id

ASSUME AttemptsAssumption ==
    /\ MaxAttempts \in Nat \ {0}
    /\ MaxRetries \in Nat
    /\ MaxCrashes \in Nat
    /\ Heard \subseteq {"finalizer", "heartbeat"} \X (1 .. MaxAttempts)
    /\ Backoff \in BOOLEAN
    /\ ListenerFirst \in BOOLEAN
    /\ Branching \in BOOLEAN

\* Executions of the job in the order of created_at.
Attempt == 1 .. MaxAttempts

\* BullMQ jobs of (run, job): workflow-step-R-J and auto-retry-R-J.
Slot == {"first", "retry"}

\* Who is at work: a publisher of events on an execution, or process() of a
\* BullMQ job, which calls a handler of the engine itself.
Role == {"worker", "finalizer", "heartbeat", "supervisor"}
Publisher == (Role \X Attempt) \cup (Slot \X {1})

VARIABLES
    run,        \* workflow_runs.status
    done,       \* _internal.completed_jobs.J
    step,       \* current_step_id: this job ("here") or another one
    attempt,    \* _internal.auto_retry.J.attempt
    marker,     \* the attempt named by _internal.auto_retry.J.last_failure, 0 if none
    slot,       \* the BullMQ job of each id
    meta,       \* autoRetry.attempt in the data of the retry job
    consumer,   \* local state of the worker that processes a BullMQ job
    row,        \* executions.state
    lease,      \* owner_instance_id and its expiry
    up,         \* executions whose container runs
    agent,      \* the agent in the container of an execution
    signal,     \* outcome of the latest workflow.agent.completed of the job
    pub,        \* local state of the publishers
    crashes

engine == <<run, done, step, attempt, marker>>
queue == <<slot, meta, consumer>>
world == <<up, agent, signal, crashes>>
vars == <<run, done, step, attempt, marker, slot, meta, consumer, row, lease,
          up, agent, signal, pub, crashes>>

Terminal == {"completed", "failed", "reaped", "cancelled"}
State == {"absent", "pending", "provisioning", "running", "completing"} \cup Terminal
Live(s) == s \notin Terminal \cup {"absent"}

\* Seeded fault: the supervisor cannot reap a completing row.
EdgesUnreaped(s) ==
    CASE s = "pending"      -> {"provisioning", "reaped", "cancelled"}
      [] s = "provisioning" -> {"running", "failed", "reaped", "cancelled"}
      [] s = "running"      -> {"running", "completing", "failed", "reaped", "cancelled"}
      [] s = "completing"   -> {"completed", "failed"}
      [] OTHER              -> {}

\* Terminal states and rows that are not there have no successor.
Edges(s) ==
    CASE s = "pending"      -> {"provisioning", "reaped", "cancelled"}
      [] s = "provisioning" -> {"running", "failed", "reaped", "cancelled"}
      [] s = "running"      -> {"running", "completing", "failed", "reaped", "cancelled"}
      [] s = "completing"   -> {"completed", "failed", "reaped"}
      [] OTHER              -> {}

Event == {"provisioning", "provisioned", "heartbeat", "completed", "failed", "reaped"}
Ending == {"completed", "failed", "reaped"}

\* The first transition the projector applies for an event.
Projection(ev) ==
    CASE ev \in {"provisioned", "heartbeat"} -> "running"
      [] ev = "completed" -> "completing"
      [] OTHER -> ev

ListenerPcs == {"context", "siblings"}
FailurePcs == {"policy", "set_attempt", "set_marker", "set_step", "add", "clear_failed",
               "fail_run", "close_run"}
CompletionPcs == {"gate_completion", "claim", "clear_retry"}
ProjectorPcs == {"project", "save"}
WorkerPcs == {"claim_lease", "kill", "provision", "start", "await", "cleanup", "release"}
Pcs == {"idle", "find", "probe"} \cup ListenerPcs \cup FailurePcs \cup CompletionPcs
         \cup ProjectorPcs \cup WorkerPcs

ConsumerPcs == {"idle", "guard", "activate", "preflight", "called", "prior",
                "cancel", "cancel_save", "create", "created", "ack"}

\* of: the execution the event is about; to: the state the projector writes,
\* or the row a supervisor has read; tries: the attempt counter read.
Local == [at : Pcs, ev : Event \cup {"none", "turn_end", "dispatch"}, of : Attempt,
          to : State, tries : Nat]
Rest(e) == [at |-> "idle", ev |-> "none", of |-> e, to |-> "absent", tries |-> 0]
NoJob == [at |-> "idle", prior |-> {}, new |-> 0]

Init ==
    /\ run = "RUNNING"
    /\ done = FALSE
    /\ step = "here"
    /\ attempt = 0
    /\ marker = 0
    /\ slot = [s \in Slot |-> IF s = "first" THEN "waiting" ELSE "empty"]
    /\ meta = 0
    /\ consumer = [s \in Slot |-> NoJob]
    /\ row = [e \in Attempt |-> "absent"]
    /\ lease = [e \in Attempt |-> "none"]
    /\ up = {}
    /\ agent = [e \in Attempt |-> "off"]
    /\ signal = "none"
    /\ pub = [p \in Publisher |-> Rest(p[2])]
    /\ crashes = 0

At(p, pc) == pub[p].at = pc
Goto(p, pc) == pub' = [pub EXCEPT ![p] = [@ EXCEPT !.at = pc]]

\* publish(): the outbox append cannot be told from the call of the first
\* subscriber.
Publishing(l, ev, e) ==
    [l EXCEPT !.at = IF ev \in Ending /\ ListenerFirst THEN "context" ELSE "project",
              !.ev = ev, !.of = e, !.to = Projection(ev), !.tries = 0]
Publish(p, ev, e) == pub' = [pub EXCEPT ![p] = Publishing(@, ev, e)]

\* Where a publisher is after the last subscriber.
Published(p) ==
    IF p[1] # "worker" THEN "idle"
    ELSE CASE pub[p].ev = "provisioning" -> "kill"
           [] pub[p].ev = "provisioned" -> "start"
           [] OTHER -> "release"

Resting(p) == [pub EXCEPT ![p] =
    IF Published(p) = "idle" THEN Rest(p[2]) ELSE [@ EXCEPT !.at = Published(p), !.to = "absent", !.tries = 0]]

ListenerDone(p) == IF ListenerFirst THEN Goto(p, "project") ELSE pub' = Resting(p)
ProjectorDone(p) ==
    IF pub[p].ev \in Ending /\ ~ListenerFirst THEN Goto(p, "context") ELSE pub' = Resting(p)

\* handleJobComplete and handleJobFailed return to the listener, to the
\* executor that called handleJobComplete at the end of its turn, or to the
\* process() of the BullMQ job.
Answered(p) ==
    CASE pub[p].ev = "turn_end" -> Goto(p, "cleanup")
      [] pub[p].ev = "dispatch" -> pub' = [pub EXCEPT ![p] = Rest(p[2])]
      [] OTHER -> ListenerDone(p)

-----------------------------------------------------------------------------
(* The completion listener. *)

ReadContext(p) ==
    LET e == pub[p].of
        ev == pub[p].ev
    IN  /\ At(p, "context")
        /\ \/ /\ \/ row[e] \in {"absent", "cancelled"}
                 \/ ev = "completed" /\ row[e] \notin {"running", "completing"}
              /\ ListenerDone(p)
           \/ /\ ev = "completed"
              /\ row[e] \in {"running", "completing"}
              /\ Goto(p, "gate_completion")
           \/ /\ ev # "completed"
              /\ row[e] \notin {"absent", "cancelled"}
              /\ Goto(p, IF ev = "reaped" THEN "siblings" ELSE "policy")
        /\ UNCHANGED <<engine, queue, row, lease, world>>

\* A reaped execution is not retried once another one has completed the job.
CheckSiblings(p) ==
    /\ At(p, "siblings")
    /\ IF \E e \in Attempt : row[e] = "completed"
       THEN ListenerDone(p)
       ELSE Goto(p, "policy")
    /\ UNCHANGED <<engine, queue, row, lease, world>>

-----------------------------------------------------------------------------
(* JobCompletionHandler, as far as the attempts of the job see it. *)

GateCompletion(p) ==
    /\ At(p, "gate_completion")
    /\ IF run = "RUNNING" THEN Goto(p, "claim") ELSE Answered(p)
    /\ UNCHANGED <<engine, queue, row, lease, world>>

ClaimCompletion(p) ==
    /\ At(p, "claim")
    /\ done' = TRUE
    /\ IF done THEN Answered(p) ELSE Goto(p, "clear_retry")
    /\ UNCHANGED <<run, step, attempt, marker, queue, row, lease, world>>

ClearRetryState(p) ==
    /\ At(p, "clear_retry")
    /\ attempt' = 0
    /\ marker' = 0
    /\ Answered(p)
    /\ UNCHANGED <<run, done, step, queue, row, lease, world>>

-----------------------------------------------------------------------------
(* JobFailureHandler and scheduleWorkflowAutoRetry. *)

\* Seeded fault: the budget is one attempt larger.
DecideRetryOnceMore(p) ==
    /\ At(p, "policy")
    /\ \/ /\ run # "RUNNING" \/ marker # 0
          /\ Answered(p)
       \/ /\ run = "RUNNING" /\ marker = 0 /\ attempt <= MaxRetries
          /\ pub' = [pub EXCEPT ![p] = [@ EXCEPT !.at = "set_attempt", !.tries = attempt]]
       \/ /\ run = "RUNNING" /\ marker = 0
          /\ Goto(p, "clear_failed")
    /\ UNCHANGED <<engine, queue, row, lease, world>>

\* The reads up to the decision are one step: whatever they find one after the
\* other can also be found at one moment, because the counter is raised before
\* the marker and the marker is cleared before the run fails.  A failure that
\* is not retryable, or for which the queue has no capacity, fails the run as
\* an exhausted budget does.
DecideRetry(p) ==
    /\ At(p, "policy")
    /\ \/ /\ run # "RUNNING" \/ marker # 0
          /\ Answered(p)
       \/ /\ run = "RUNNING" /\ marker = 0 /\ attempt < MaxRetries
          /\ pub' = [pub EXCEPT ![p] = [@ EXCEPT !.at = "set_attempt", !.tries = attempt]]
       \/ /\ run = "RUNNING" /\ marker = 0
          /\ Goto(p, "clear_failed")
    /\ UNCHANGED <<engine, queue, row, lease, world>>

SetAttempt(p) ==
    /\ At(p, "set_attempt")
    /\ attempt' = pub[p].tries + 1
    /\ Goto(p, "set_marker")
    /\ UNCHANGED <<run, done, step, marker, queue, row, lease, world>>

SetMarker(p) ==
    /\ At(p, "set_marker")
    /\ marker' = pub[p].tries + 1
    /\ Goto(p, "set_step")
    /\ UNCHANGED <<run, done, step, attempt, queue, row, lease, world>>

\* The UPDATE of current_step_id.
SetStep(p) ==
    /\ At(p, "set_step")
    /\ step' = "here"
    /\ Goto(p, "add")
    /\ UNCHANGED <<run, done, attempt, marker, queue, row, lease, world>>

\* BullMQ ignores an add under the id of a job it still holds.
AddRetry(p) ==
    /\ At(p, "add")
    /\ IF slot["retry"] = "empty"
       THEN /\ slot' = [slot EXCEPT !["retry"] = "waiting"]
            /\ meta' = pub[p].tries + 1
       ELSE UNCHANGED <<slot, meta>>
    /\ Answered(p)
    /\ UNCHANGED <<engine, consumer, row, lease, world>>

ClearFailed(p) ==
    /\ At(p, "clear_failed")
    /\ attempt' = 0
    /\ marker' = 0
    /\ Goto(p, "fail_run")
    /\ UNCHANGED <<run, done, step, queue, row, lease, world>>

FailRun(p) ==
    /\ At(p, "fail_run")
    /\ run' = "FAILED"
    /\ Goto(p, "close_run")
    /\ UNCHANGED <<done, step, attempt, marker, queue, row, lease, world>>

\* The queued jobs of the run are removed and its containers stopped.
CloseRun(p) ==
    /\ At(p, "close_run")
    /\ slot' = [s \in Slot |-> IF slot[s] = "waiting" THEN "empty" ELSE slot[s]]
    /\ up' = {}
    /\ Answered(p)
    /\ UNCHANGED <<engine, meta, consumer, row, lease, agent, signal, crashes>>

-----------------------------------------------------------------------------
(* The projector. *)

\* onCompleted applies completing and then completed, whatever became of the
\* first.
Projected(p) ==
    IF pub[p].ev = "completed" /\ pub[p].to = "completing"
    THEN pub' = [pub EXCEPT ![p] = [@ EXCEPT !.at = "project", !.to = "completed"]]
    ELSE ProjectorDone(p)

Project(p) ==
    /\ At(p, "project")
    /\ IF pub[p].to \in Edges(row[pub[p].of]) THEN Goto(p, "save") ELSE Projected(p)
    /\ UNCHANGED <<engine, queue, row, lease, world>>

Save(p) ==
    /\ At(p, "save")
    /\ row' = [row EXCEPT ![pub[p].of] = pub[p].to]
    /\ Projected(p)
    /\ UNCHANGED <<engine, queue, lease, world>>

-----------------------------------------------------------------------------
(* The background worker of an execution: runAgentJobAndPublishResult and  *)
(* executeJobCore.                                                         *)

ClaimLease(e) ==
    LET p == <<"worker", e>>
    IN  /\ At(p, "claim_lease")
        /\ IF Live(row[e])
           THEN /\ lease' = [lease EXCEPT ![e] = "held"]
                /\ Publish(p, "provisioning", e)
           ELSE /\ Publish(p, "failed", e)
                /\ UNCHANGED lease
        /\ UNCHANGED <<engine, queue, row, world>>

\* killStaleContainers: every container of (run, job).
KillStale(e) ==
    LET p == <<"worker", e>>
    IN  /\ At(p, "kill")
        /\ up' = {}
        /\ Goto(p, "provision")
        /\ UNCHANGED <<engine, queue, row, lease, agent, signal, crashes>>

\* A container that cannot be provisioned fails the execution.
Provision(e) ==
    LET p == <<"worker", e>>
    IN  /\ At(p, "provision")
        /\ \/ /\ up' = up \cup {e}
              /\ Publish(p, "provisioned", e)
           \/ /\ Goto(p, "cleanup")
              /\ UNCHANGED up
        /\ UNCHANGED <<engine, queue, row, lease, agent, signal, crashes>>

StartAgent(e) ==
    LET p == <<"worker", e>>
    IN  /\ At(p, "start")
        /\ IF e \in up
           THEN /\ agent' = [agent EXCEPT ![e] = "working"]
                /\ Goto(p, "await")
           ELSE /\ Goto(p, "cleanup")
                /\ UNCHANGED agent
        /\ UNCHANGED <<engine, queue, row, lease, up, signal, crashes>>

\* publishTurnEndAndComplete calls handleJobComplete before the event is out.
\* The request to an agent that does not answer times out, after six hours; the
\* reply of an agent that has ended well may be lost with its container.
TurnEnds(e) ==
    LET p == <<"worker", e>>
    IN  /\ At(p, "await")
        /\ \/ /\ agent[e] = "ok"
              /\ pub' = [pub EXCEPT ![p] = [@ EXCEPT !.at = "gate_completion", !.ev = "turn_end"]]
           \/ Goto(p, "cleanup")
        /\ UNCHANGED <<engine, queue, row, lease, world>>

Cleanup(e) ==
    LET p == <<"worker", e>>
    IN  /\ At(p, "cleanup")
        /\ up' = up \ {e}
        /\ Publish(p, IF pub[p].ev = "turn_end" THEN "completed" ELSE "failed", e)
        /\ UNCHANGED <<engine, queue, row, lease, agent, signal, crashes>>

ReleaseLease(e) ==
    LET p == <<"worker", e>>
    IN  /\ At(p, "release")
        /\ lease' = [lease EXCEPT ![e] = "none"]
        /\ pub' = [pub EXCEPT ![p] = Rest(e)]
        /\ UNCHANGED <<engine, queue, row, world>>

-----------------------------------------------------------------------------
(* The agent, its heartbeats and the telemetry finalizer. *)

\* agent_end: the ledger row is written, then the finalizer looks for the row,
\* unless the process has none (it is optional).
\* An agent works for longer than BullMQ takes to acknowledge its dispatch.
AgentEnds(e) ==
    LET p == <<"finalizer", e>>
    IN  /\ agent[e] = "working"
        /\ e \in up
        /\ \A s \in Slot : consumer[s].new # e
        /\ \E outcome \in {"ok", "bad"} :
              /\ agent' = [agent EXCEPT ![e] = outcome]
              /\ signal' = outcome
        /\ IF p \in Heard THEN Goto(p, "find") ELSE UNCHANGED pub
        /\ UNCHANGED <<engine, queue, row, lease, up, crashes>>

\* finalizeFromAgentEnd takes the newest provisioning or running row of the
\* job, whichever execution the agent belongs to.
FindRunning(e) ==
    LET p == <<"finalizer", e>>
        found == {x \in Attempt : row[x] \in {"provisioning", "running"}}
    IN  /\ At(p, "find")
        /\ IF found = {}
           THEN pub' = [pub EXCEPT ![p] = Rest(e)]
           ELSE \E x \in found :
                   /\ \A y \in found : y <= x
                   /\ Publish(p, IF agent[e] = "ok" THEN "completed" ELSE "failed", x)
        /\ UNCHANGED <<engine, queue, row, lease, world>>

\* Log lines and commands in flight beat while the worker follows the agent.
Heartbeat(e) ==
    LET p == <<"heartbeat", e>>
    IN  /\ p \in Heard
        /\ At(p, "idle")
        /\ At(<<"worker", e>>, "await")
        /\ agent[e] = "working"
        /\ e \in up
        /\ Publish(p, "heartbeat", e)
        /\ UNCHANGED <<engine, queue, row, lease, world>>

ContainerDies(e) ==
    /\ e \in up
    /\ up' = up \ {e}
    /\ UNCHANGED <<engine, queue, row, lease, agent, signal, crashes, pub>>

-----------------------------------------------------------------------------
(* The execution supervisor. *)

\* The sweep handles the rows it has read one after the other.
Sweep(e) ==
    LET p == <<"supervisor", e>>
    IN  /\ \A x \in Attempt : At(<<"supervisor", x>>, "idle")
        /\ Live(row[e])
        /\ pub' = [pub EXCEPT ![p] = [@ EXCEPT !.at = "probe", !.to = row[e]]]
        /\ UNCHANGED <<engine, queue, row, lease, world>>

\* The grace periods (1 to 5 minutes) outlast the steps of a publisher that is
\* at work on the execution, the start of a container excepted.
Quiet(e) ==
    /\ pub[<<"worker", e>>].at \in {"idle", "provision", "await"}
    /\ \A s \in Slot : consumer[s].new # e
    /\ \A p \in Publisher : p[1] \in {"finalizer", "heartbeat"} /\ ~At(p, "idle") => pub[p].of # e

ContainerLost(e, s) == s \in {"running", "completing"} /\ e \notin up
Undispatched(s) == s \in {"pending", "provisioning"}
AgentEnded(e, s) == s = "running" /\ e \in up /\ signal # "none"
OwnerLost(e, s) == s = "running" /\ e \in up /\ signal = "none" /\ lease[e] = "lapsed"

\* The maximum runtime passes while the agent works, or while nobody does.
Overrun(e) ==
    /\ pub[<<"worker", e>>].at \in {"idle", "await"}
    /\ \A s \in Slot : consumer[s].new # e

\* Seeded fault: only executions that have started are judged.
ReapsStarted(e, s) ==
    /\ s \in {"running", "completing"}
    /\ \/ Overrun(e)
       \/ Quiet(e) /\ (ContainerLost(e, s) \/ OwnerLost(e, s))

\* classifyExecutionForReaping, given the state the sweep has read.
Reaps(e, s) ==
    \/ Overrun(e)
    \/ Quiet(e) /\ (ContainerLost(e, s) \/ Undispatched(s) \/ OwnerLost(e, s))

Reap(e) ==
    LET p == <<"supervisor", e>>
    IN  /\ At(p, "probe")
        /\ Reaps(e, pub[p].to)
        /\ Publish(p, "reaped", e)
        /\ UNCHANGED <<engine, queue, row, lease, world>>

Reconcile(e) ==
    LET p == <<"supervisor", e>>
    IN  /\ At(p, "probe")
        /\ Quiet(e)
        /\ AgentEnded(e, pub[p].to)
        /\ Publish(p, IF signal = "ok" THEN "completed" ELSE "failed", e)
        /\ UNCHANGED <<engine, queue, row, lease, world>>

\* A grace period has not passed, or nothing is wrong.
LeaveAlone(e) ==
    LET p == <<"supervisor", e>>
    IN  /\ At(p, "probe")
        /\ pub' = [pub EXCEPT ![p] = Rest(e)]
        /\ UNCHANGED <<engine, queue, row, lease, world>>

-----------------------------------------------------------------------------
(* The step worker: process() of a BullMQ job up to the background start. *)

ConsumerAt(s, pc) == consumer[s].at = pc
Turn(s, pc) == consumer' = [consumer EXCEPT ![s] = [@ EXCEPT !.at = pc]]

\* Nobody is between two database calls: what is under way waits for Docker or
\* for an agent.
Settled ==
    /\ \A p \in Publisher :
          pub[p].at \in {"idle", "kill", "provision", "await", "cleanup", "close_run"}
    /\ \A s \in Slot : ConsumerAt(s, "idle")

Take(s) ==
    /\ slot[s] = "waiting"
    /\ ConsumerAt(s, "idle")
    /\ s = "retry" /\ Backoff => Settled
    /\ slot' = [slot EXCEPT ![s] = "active"]
    /\ Turn(s, IF s = "retry" THEN "guard" ELSE "preflight")
    /\ UNCHANGED <<engine, meta, row, lease, world, pub>>

\* shouldSkipStaleAutoRetryJob: a missing marker is no reason to skip.
GuardRetry(s) ==
    /\ ConsumerAt(s, "guard")
    /\ Turn(s, IF /\ run = "RUNNING"
                  /\ step = "here"
                  /\ attempt = meta
                  /\ marker \in {0, meta}
               THEN "activate" ELSE "ack")
    /\ UNCHANGED <<engine, slot, meta, row, lease, world, pub>>

\* Seeded fault: the activation clears the whole retry state.
MarkActivatedClearing(s) ==
    /\ ConsumerAt(s, "activate")
    /\ marker' = 0
    /\ attempt' = 0
    /\ Turn(s, "preflight")
    /\ UNCHANGED <<run, done, step, slot, meta, row, lease, world, pub>>

MarkActivated(s) ==
    /\ ConsumerAt(s, "activate")
    /\ marker' = 0
    /\ Turn(s, "preflight")
    /\ UNCHANGED <<run, done, step, attempt, slot, meta, row, lease, world, pub>>

\* A run that has ended is left alone.  When the condition of the job is false
\* process() completes the job, and when the capability check fails it reports
\* the failure, while BullMQ still holds its job.
Preflight(s) ==
    /\ ConsumerAt(s, "preflight")
    /\ \/ /\ Turn(s, IF run = "RUNNING" THEN "prior" ELSE "ack")
          /\ UNCHANGED pub
       \/ /\ run = "RUNNING"
          /\ Turn(s, "called")
          /\ \E pc \in {"gate_completion", "policy"} :
                pub' = [pub EXCEPT ![<<s, 1>>] = [@ EXCEPT !.at = pc, !.ev = "dispatch"]]
    /\ UNCHANGED <<engine, slot, meta, row, lease, world>>

HandlerReturns(s) ==
    /\ ConsumerAt(s, "called")
    /\ At(<<s, 1>>, "idle")
    /\ Turn(s, "ack")
    /\ UNCHANGED <<engine, slot, meta, row, lease, world, pub>>

\* supersedePriorExecutions
FindPrior(s) ==
    LET prior == {x \in Attempt : Live(row[x])}
    IN  /\ ConsumerAt(s, "prior")
        /\ consumer' = [consumer EXCEPT ![s] =
              [@ EXCEPT !.at = IF prior = {} THEN "create" ELSE "cancel", !.prior = prior]]
        /\ UNCHANGED <<engine, slot, meta, row, lease, world, pub>>

\* The next of the prior executions, or the creation after the last one.
Without(c, x) ==
    [c EXCEPT !.at = IF c.prior = {x} THEN "create" ELSE "cancel",
              !.prior = @ \ {x}, !.new = 0]

CancelPrior(s) ==
    /\ ConsumerAt(s, "cancel")
    /\ \E x \in consumer[s].prior :
          consumer' = [consumer EXCEPT ![s] =
            IF "cancelled" \in Edges(row[x])
            THEN [@ EXCEPT !.at = "cancel_save", !.new = x]
            ELSE Without(@, x)]
    /\ UNCHANGED <<engine, slot, meta, row, lease, world, pub>>

SaveCancelled(s) ==
    LET x == consumer[s].new
    IN  /\ ConsumerAt(s, "cancel_save")
        /\ row' = [row EXCEPT ![x] = "cancelled"]
        /\ consumer' = [consumer EXCEPT ![s] = Without(@, x)]
        /\ UNCHANGED <<engine, slot, meta, lease, world, pub>>

\* The first execution not created yet; MaxAttempts is the bound.
CreateExecution(s) ==
    /\ ConsumerAt(s, "create")
    /\ \E e \in Attempt :
          /\ row[e] = "absent"
          /\ \A x \in 1 .. e - 1 : row[x] # "absent"
          /\ row' = [row EXCEPT ![e] = "pending"]
          /\ consumer' = [consumer EXCEPT ![s] = [@ EXCEPT !.at = "created", !.new = e]]
    /\ UNCHANGED <<engine, slot, meta, lease, world, pub>>

\* The projector saves the row of the created event once more; then the
\* background worker is started.
PublishCreated(s) ==
    LET e == consumer[s].new
    IN  /\ ConsumerAt(s, "created")
        /\ row' = [row EXCEPT ![e] = "pending"]
        /\ Goto(<<"worker", e>>, "claim_lease")
        /\ Turn(s, "ack")
        /\ UNCHANGED <<engine, slot, meta, lease, world>>

\* BullMQ removes the job once process() has returned.
Acknowledge(s) ==
    /\ ConsumerAt(s, "ack")
    /\ slot' = [slot EXCEPT ![s] = "empty"]
    /\ consumer' = [consumer EXCEPT ![s] = NoJob]
    /\ UNCHANGED <<engine, meta, row, lease, world, pub>>

-----------------------------------------------------------------------------
(* The surroundings. *)

\* A restart loses what was in flight; BullMQ hands an active job out again.
Crash ==
    /\ crashes < MaxCrashes
    /\ crashes' = crashes + 1
    /\ pub' = [p \in Publisher |-> Rest(p[2])]
    /\ consumer' = [s \in Slot |-> NoJob]
    /\ slot' = [s \in Slot |-> IF slot[s] = "active" THEN "waiting" ELSE slot[s]]
    /\ lease' = [e \in Attempt |-> IF lease[e] = "held" THEN "lapsed" ELSE lease[e]]
    /\ UNCHANGED <<engine, meta, row, up, agent, signal>>

\* enqueueTransitionJob of a job in a parallel branch.
MoveStep ==
    /\ Branching
    /\ run = "RUNNING"
    /\ step' = "elsewhere"
    /\ UNCHANGED <<run, done, attempt, marker, queue, row, lease, world, pub>>

\* The run completes some time after its last job.
CompleteRun ==
    /\ run = "RUNNING"
    /\ done
    /\ run' = "COMPLETED"
    /\ UNCHANGED <<done, step, attempt, marker, queue, row, lease, world, pub>>

\* A run that has ended may rest.
Over == run # "RUNNING" /\ UNCHANGED vars

-----------------------------------------------------------------------------

Handle(p) ==
    \/ ReadContext(p) \/ CheckSiblings(p)
    \/ GateCompletion(p) \/ ClaimCompletion(p) \/ ClearRetryState(p)
    \/ DecideRetry(p) \/ SetAttempt(p) \/ SetMarker(p) \/ SetStep(p)
    \/ AddRetry(p) \/ ClearFailed(p) \/ FailRun(p) \/ CloseRun(p)
    \/ Project(p) \/ Save(p)

Work(e) ==
    \/ ClaimLease(e) \/ KillStale(e) \/ Provision(e) \/ StartAgent(e)
    \/ TurnEnds(e) \/ Cleanup(e) \/ ReleaseLease(e)

\* The next step of a publisher that is not at rest.
Proceed(p) ==
    \/ Handle(p)
    \/ p[1] = "worker" /\ Work(p[2])
    \/ p[1] = "finalizer" /\ FindRunning(p[2])
    \/ p[1] = "supervisor" /\ LeaveAlone(p[2])

Consume(s) ==
    \/ Take(s) \/ GuardRetry(s) \/ MarkActivated(s)
    \/ Preflight(s) \/ HandlerReturns(s)
    \/ FindPrior(s) \/ CancelPrior(s) \/ SaveCancelled(s)
    \/ CreateExecution(s) \/ PublishCreated(s) \/ Acknowledge(s)

Next ==
    \/ \E p \in Publisher : Proceed(p)
    \/ \E e \in Attempt :
         \/ Sweep(e) \/ Reap(e) \/ Reconcile(e)
         \/ AgentEnds(e) \/ Heartbeat(e) \/ ContainerDies(e)
    \/ \E s \in Slot : Consume(s)
    \/ Crash \/ MoveStep \/ CompleteRun \/ Over

Spec == Init /\ [][Next]_vars

\* Awaited calls return, the worker takes what is queued, every sweep comes to
\* every live row, and four hours pass.
FairSpec ==
    /\ Spec
    /\ \A p \in Publisher : WF_vars(Proceed(p))
    /\ \A e \in Attempt : SF_vars(Sweep(e)) /\ SF_vars(Reap(e))
    /\ \A s \in Slot : WF_vars(Consume(s))

-----------------------------------------------------------------------------

TypeOK ==
    /\ run \in {"RUNNING", "COMPLETED", "FAILED"}
    /\ done \in BOOLEAN
    /\ step \in {"here", "elsewhere"}
    /\ attempt \in 0 .. MaxRetries
    /\ marker \in 0 .. MaxRetries
    /\ slot \in [Slot -> {"empty", "waiting", "active"}]
    /\ meta \in 0 .. MaxRetries
    /\ consumer \in [Slot -> [at : ConsumerPcs, prior : SUBSET Attempt,
                              new : Attempt \cup {0}]]
    /\ row \in [Attempt -> State]
    /\ lease \in [Attempt -> {"none", "held", "lapsed"}]
    /\ up \subseteq Attempt
    /\ agent \in [Attempt -> {"off", "working", "ok", "bad"}]
    /\ signal \in {"none", "ok", "bad"}
    /\ pub \in [Publisher -> Local]
    /\ crashes \in 0 .. MaxCrashes

\* Whatever is lost in a restart, the engine hears of the job's end: the job
\* completes or the run stops running.  Nothing else moves a run on: the bus has
\* no memory (the rows of the outbox are never read again) and only the
\* supervisor looks for executions whose end got lost.  This needs ListenerFirst:
\* a projector that comes first may complete the row before a restart, and the
\* supervisor then has nothing to look at.
RunSettles == []<>(run # "RUNNING" \/ done)

\* Every execution that was created ends: no row stays live after its worker,
\* its container or the process behind it are gone.
EveryAttemptEnds == \A e \in Attempt : []<>~Live(row[e])

\* Whoever reports a failure, and however often the same failure is reported,
\* until the job has completed it is executed at most MaxRetries times more than
\* once.  A restart may hand the first job out once more, and let the budget
\* start afresh when it comes between the clearing of the retry state and FAILED.
BudgetKept ==
    \A s \in Slot :
        ConsumerAt(s, "create") /\ ~done =>
            Cardinality({e \in Attempt : row[e] # "absent"})
                <= MaxRetries + crashes * (MaxRetries + 2)

\* The supervisor ends an execution on the word of an agent_end only when the
\* agent of that execution has ended.
ReconcilesOwnEnd ==
    \A e \in Attempt :
        pub[<<"supervisor", e>>].ev \in {"completed", "failed"} => agent[e] # "working"
=============================================================================
