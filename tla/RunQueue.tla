------------------------------ MODULE RunQueue ------------------------------
(***************************************************************************)
(* How the runs of one workflow in one concurrency scope are admitted,     *)
(* queued and activated.                                                   *)
(*                                                                         *)
(* A launch checks its dedupe key and the concurrency policy inside locks  *)
(* that live in the memory of one API process, then inserts a RUNNING or a *)
(* PENDING row, or cancels the oldest run, or is dropped.  When a run ends *)
(* its handler activates the oldest PENDING row; a reconciler does so when *)
(* no row is RUNNING.  These activations read and write without the locks. *)
(*                                                                         *)
(* A launch request and the row it may insert have the same name.  Every   *)
(* awaited statement is one action.  Inside a run only this matters here:  *)
(* whether its first jobs were queued, and that it ends (module            *)
(* WorkflowRunProgress).  Child runs, workflows without a concurrency      *)
(* policy, and deleted workflows are not part of the model.                *)
(***************************************************************************)
EXTENDS Integers, Sequences, FiniteSets

CONSTANTS
  Run,          \* launch requests, and the rows they insert
  Hand,         \* handlers that can be ending a run at the same time
  Server,       \* API processes; each runs one reconciler
  Host,         \* Host[x]: the process of a launch or of a handler
  Key,          \* dedupe keys
  NoKey,        \* the launch has no dedupe key
  NoRun,        \* null
  KeyOf,        \* KeyOf[r]: the dedupe key of r, or NoKey
  TriggerOf,    \* TriggerOf[r]: the trigger data of r, compared as a whole
  MaxRuns,      \* concurrency.max_runs
  FirstPolicies,\* values of concurrency.on_conflict to start with
  MaxUpsets     \* bound: policy edits, operator cancellations, failed statements
                \* and process restarts, together

Conflict == {"skip", "queue", "cancel_running"}

Activator == Hand \cup Server

ASSUME QueueConstants ==
  /\ NoKey \notin Key
  /\ NoRun \notin Run
  /\ Hand \cap Server = {}
  /\ Host \in [Run \cup Hand -> Server]
  /\ KeyOf \in [Run -> Key \cup {NoKey}]
  /\ \A q, r \in Run : TriggerOf[q] = TriggerOf[r] => KeyOf[q] = KeyOf[r]
  /\ IsFiniteSet(Run)
  /\ MaxRuns \in Nat \ {0}
  /\ FirstPolicies \subseteq Conflict
  /\ MaxUpsets \in Nat

VARIABLES
  status,     \* workflow_runs.status, "absent" before the insert
  born,       \* workflow_runs.created_at
  now,        \* the clock that created_at is taken from
  ended,      \* rows whose completed_at is set
  waited,     \* rows that were inserted as PENDING (event workflow.queued)
  jobs,       \* the first jobs of a run, see JobStates
  policy,     \* concurrency.on_conflict in the stored definition
  line,       \* line[s]: chain of the lock concurrency:W in process s
  keyLine,    \* keyLine[s, k]: chain of the lock workflow-launch:W:k
  pc,         \* pc[r]: the await at which the launch r is suspended
  plan,       \* plan[r]: on_conflict in the definition that r loaded
  victim,     \* victim[r]: the run that r cancels
  act,        \* act[a]: the await at which an activator is suspended
  picked,     \* picked[a]: the row that a is about to write or start
  todo,       \* todo[s]: PENDING rows that the sweep of s has read
  cancelling, \* rows an operator's cancellation is about to write
  aged,       \* PENDING rows older than the grace window
  upsets      \* edits, cancellations, errors and restarts so far

rowVars    == <<status, born, now, ended, waited, jobs>>
launchVars == <<line, keyLine, pc, plan, victim>>
handVars   == <<act, picked, todo>>
vars == <<rowVars, launchVars, handVars, policy, cancelling, aged, upsets>>

Live == {"PENDING", "RUNNING"}

Terminal == {"COMPLETED", "FAILED", "CANCELLED"}

\* LAUNCH_DEDUPE_STATUSES
Deduped == Live \cup {"COMPLETED"}

Waiting == {"keyWait", "wait"}

\* Inside the lock of the workflow.
Exclusive == {"oldest", "cancelLoad", "cancelWrite", "create", "name",
              "start", "byKey", "byTrigger", "queue"}

\* No trace of a first job; current_step_id names it; it is in the step queue or a
\* later job of the run is live; the run was closed after that.
JobStates == {"none", "named", "live", "over"}

TypeOK ==
  /\ status \in [Run -> Live \cup Terminal \cup {"absent"}]
  /\ born \in [Run -> Nat]
  /\ now \in Nat
  /\ ended \subseteq Run
  /\ waited \subseteq Run
  /\ jobs \in [Run -> JobStates]
  /\ policy \in Conflict
  /\ line \in [Server -> Seq(Run)]
  /\ keyLine \in [Server \X Key -> Seq(Run)]
  /\ pc \in [Run -> {"new", "done"} \cup Waiting \cup Exclusive]
  /\ plan \in [Run -> Conflict]
  /\ victim \in [Run -> Run \cup {NoRun}]
  /\ act \in [Activator -> {"idle", "complete", "fail", "owner", "policy", "pick",
                            "activate", "name", "enqueue", "cancel",
                            "cancelWrite"}]
  /\ picked \in [Activator -> Run \cup {NoRun}]
  /\ todo \in [Server -> SUBSET Run]
  /\ cancelling \subseteq Run
  /\ aged \subseteq Run
  /\ upsets \in Nat
-----------------------------------------------------------------------------
(* Queries on the rows of the scope. *)

InStatus(S) == {r \in Run : status[r] \in S}

Pending == InStatus({"PENDING"})

Running == InStatus({"RUNNING"})

\* Seeded fault: the youngest row.
Youngest(S) == CHOOSE r \in S : \A q \in S : born[q] <= born[r]

\* ORDER BY created_at ASC, first row.
Oldest(S) == CHOOSE r \in S : \A q \in S : born[r] <= born[q]

\* Seeded fault: the limit itself is let through.
HasRoomUpTo == Cardinality(InStatus(Live)) <= MaxRuns

\* countActiveByScope against the limit.
HasRoom == Cardinality(InStatus(Live)) < MaxRuns

\* Seeded fault: a queued row does not count as an existing run.
SameKeyStarted(r) ==
  {q \in InStatus(Deduped \ {"PENDING"}) : KeyOf[q] = KeyOf[r]}

\* findLatestByWorkflowAndDedupeKey
SameKey(r) == {q \in InStatus(Deduped) : KeyOf[q] = KeyOf[r]}

\* Seeded fault: nothing is coalesced.
QueuedTwinNever(r) == {}

\* findPendingByScopeAndTrigger
QueuedTwin(r) == {q \in Pending : TriggerOf[q] = TriggerOf[r]}

\* Seeded fault: a queued row counts as an owner of the scope.
OwnersOrQueued == InStatus(Live)

\* findOldestRunningByScope finds one.
Owners == Running

Init ==
  /\ status = [r \in Run |-> "absent"]
  /\ born = [r \in Run |-> 0]
  /\ now = 0
  /\ ended = {}
  /\ waited = {}
  /\ jobs = [r \in Run |-> "none"]
  /\ policy \in FirstPolicies
  /\ line = [s \in Server |-> <<>>]
  /\ keyLine = [e \in Server \X Key |-> <<>>]
  /\ pc = [r \in Run |-> "new"]
  /\ plan = [r \in Run |-> policy]
  /\ victim = [r \in Run |-> NoRun]
  /\ act = [a \in Activator |-> "idle"]
  /\ picked = [a \in Activator |-> NoRun]
  /\ todo = [s \in Server |-> {}]
  /\ cancelling = {}
  /\ aged = {}
  /\ upsets = 0
-----------------------------------------------------------------------------
(* Writes shared by several handlers. *)

Wrote(r, s) == status' = [status EXCEPT ![r] = s]

\* An UPDATE by id to a terminal status; nothing of the run continues.
Close(r, s) ==
  /\ Wrote(r, s)
  /\ ended' = ended \cup {r}
  /\ jobs' = [jobs EXCEPT ![r] = IF @ = "live" THEN "over" ELSE @]
  /\ UNCHANGED <<born, now, waited>>

\* current_step_id of the first job.
NameStep(r) ==
  /\ jobs' = [jobs EXCEPT ![r] = IF @ = "none" THEN "named" ELSE @]
  /\ UNCHANGED <<status, born, now, ended, waited>>

\* enqueueJob for the first jobs: the claim wants a RUNNING row and a fresh flag.
StartJobs(r) ==
  /\ jobs' = [jobs EXCEPT ![r] =
                IF status[r] = "RUNNING" /\ @ = "named" THEN "live" ELSE @]
  /\ UNCHANGED <<status, born, now, ended, waited>>

\* Seeded fault: the row is inserted with a status of its own.
InsertNamed(r, s) ==
  /\ Wrote(r, IF s = "PENDING" THEN "QUEUED" ELSE s)
  /\ now' = now + 1
  /\ born' = [born EXCEPT ![r] = now']
  /\ waited' = IF s = "PENDING" THEN waited \cup {r} ELSE waited
  /\ UNCHANGED <<ended, jobs>>

Insert(r, s) ==
  /\ Wrote(r, s)
  /\ now' = now + 1
  /\ born' = [born EXCEPT ![r] = now']
  /\ waited' = IF s = "PENDING" THEN waited \cup {r} ELSE waited
  /\ UNCHANGED <<ended, jobs>>

Upset == upsets < MaxUpsets /\ upsets' = upsets + 1
-----------------------------------------------------------------------------
(* Launches: startAndDedupRun. *)

Await(r, label) == pc' = [pc EXCEPT ![r] = label]

Join(r) == line' = [line EXCEPT ![Host[r]] = Append(@, r)]

JoinKey(r) == keyLine' = [keyLine EXCEPT ![<<Host[r], KeyOf[r]>>] = Append(@, r)]

LeaveKey(r) ==
  IF KeyOf[r] = NoKey THEN UNCHANGED keyLine
  ELSE keyLine' = [keyLine EXCEPT ![<<Host[r], KeyOf[r]>>] = Tail(@)]

\* Seeded fault: a launch that is dropped or fails keeps the locks.
AnswerKeeping(r) ==
  /\ Await(r, "done")
  /\ victim' = [victim EXCEPT ![r] = NoRun]
  /\ IF status[r] = "absent" THEN UNCHANGED <<line, keyLine>>
     ELSE /\ line' = [line EXCEPT ![Host[r]] = Tail(@)]
          /\ LeaveKey(r)
  /\ UNCHANGED plan

\* The task settles: the next one in the chain of each lock may run.
Answer(r) ==
  /\ Await(r, "done")
  /\ victim' = [victim EXCEPT ![r] = NoRun]
  /\ line' = [line EXCEPT ![Host[r]] = Tail(@)]
  /\ LeaveKey(r)
  /\ UNCHANGED plan

Continue(r, label) ==
  /\ Await(r, label)
  /\ UNCHANGED <<line, keyLine, plan, victim>>

\* startWorkflow loads the definition, then takes its place in a lock.
Arrive(r) ==
  /\ pc[r] = "new"
  /\ plan' = [plan EXCEPT ![r] = policy]
  /\ IF KeyOf[r] = NoKey
     THEN Join(r) /\ Await(r, "wait") /\ UNCHANGED keyLine
     ELSE JoinKey(r) /\ Await(r, "keyWait") /\ UNCHANGED line
  /\ UNCHANGED <<rowVars, handVars, policy, cancelling, aged, upsets, victim>>

FindExisting(r) ==
  /\ pc[r] = "keyWait"
  /\ Head(keyLine[<<Host[r], KeyOf[r]>>]) = r
  /\ IF SameKey(r) # {}
     THEN Await(r, "done") /\ LeaveKey(r) /\ UNCHANGED line
     ELSE Await(r, "wait") /\ Join(r) /\ UNCHANGED keyLine
  /\ UNCHANGED <<rowVars, handVars, policy, cancelling, aged, upsets, plan, victim>>

\* checkAndApply
CheckConcurrency(r) ==
  /\ pc[r] = "wait"
  /\ Head(line[Host[r]]) = r
  /\ \/ HasRoom /\ Continue(r, "create")
     \/ ~HasRoom /\ plan[r] = "skip" /\ Answer(r)
     \/ ~HasRoom /\ plan[r] = "queue"
        /\ Continue(r, IF KeyOf[r] = NoKey THEN "byTrigger" ELSE "byKey")
     \/ ~HasRoom /\ plan[r] = "cancel_running" /\ Continue(r, "oldest")
  /\ UNCHANGED <<rowVars, handVars, policy, cancelling, aged, upsets>>

FindOldestRunning(r) ==
  /\ pc[r] = "oldest"
  /\ IF Running = {}
     THEN Answer(r)
     ELSE /\ victim' = [victim EXCEPT ![r] = Oldest(Running)]
          /\ Await(r, "cancelLoad")
          /\ UNCHANGED <<line, keyLine, plan>>
  /\ UNCHANGED <<rowVars, handVars, policy, cancelling, aged, upsets>>

\* cancelSingleRun passes over a run that is terminal.
LoadVictim(r) ==
  /\ pc[r] = "cancelLoad"
  /\ Continue(r, IF status[victim[r]] \in Terminal THEN "create" ELSE "cancelWrite")
  /\ UNCHANGED <<rowVars, handVars, policy, cancelling, aged, upsets>>

CancelVictim(r) ==
  /\ pc[r] = "cancelWrite"
  /\ Close(victim[r], "CANCELLED")
  /\ Continue(r, "create")
  /\ UNCHANGED <<handVars, policy, cancelling, aged, upsets>>

CreateRun(r) ==
  /\ pc[r] = "create"
  /\ Insert(r, "RUNNING")
  /\ Continue(r, "name")
  /\ UNCHANGED <<handVars, policy, cancelling, aged, upsets>>

NameFirstStep(r) ==
  /\ pc[r] = "name"
  /\ NameStep(r)
  /\ Continue(r, "start")
  /\ UNCHANGED <<handVars, policy, cancelling, aged, upsets>>

StartRun(r) ==
  /\ pc[r] = "start"
  /\ StartJobs(r)
  /\ Answer(r)
  /\ UNCHANGED <<handVars, policy, cancelling, aged, upsets>>

\* createQueuedRun reuses a PENDING row of the same key, then of the same trigger.
FindQueuedByKey(r) ==
  /\ pc[r] = "byKey"
  /\ IF \E q \in Pending : KeyOf[q] = KeyOf[r]
     THEN Answer(r)
     ELSE Continue(r, "byTrigger")
  /\ UNCHANGED <<rowVars, handVars, policy, cancelling, aged, upsets>>

FindQueuedByTrigger(r) ==
  /\ pc[r] = "byTrigger"
  /\ IF QueuedTwin(r) # {} THEN Answer(r) ELSE Continue(r, "queue")
  /\ UNCHANGED <<rowVars, handVars, policy, cancelling, aged, upsets>>

CreateQueuedRun(r) ==
  /\ pc[r] = "queue"
  /\ Insert(r, "PENDING")
  /\ Answer(r)
  /\ UNCHANGED <<handVars, policy, cancelling, aged, upsets>>

\* cancelSingleRun swallows an error of the load: nothing is cancelled.
LoadVictimFails(r) ==
  /\ pc[r] = "cancelLoad"
  /\ Upset
  /\ Continue(r, "create")
  /\ UNCHANGED <<rowVars, handVars, policy, cancelling, aged>>

FindExistingFails(r) ==
  /\ pc[r] = "keyWait"
  /\ Head(keyLine[<<Host[r], KeyOf[r]>>]) = r
  /\ Upset
  /\ Await(r, "done")
  /\ LeaveKey(r)
  /\ UNCHANGED <<rowVars, handVars, policy, cancelling, aged, line, plan, victim>>

\* Any other statement of the task throws: the caller gets the error and the
\* chains of both locks go on.
LaunchFails(r) ==
  /\ \/ pc[r] \in Exclusive \ {"cancelLoad"}
     \/ pc[r] = "wait" /\ Head(line[Host[r]]) = r
  /\ Upset
  /\ Answer(r)
  /\ UNCHANGED <<rowVars, handVars, policy, cancelling, aged>>

Launch(r) ==
  \/ FindExisting(r) \/ CheckConcurrency(r)
  \/ FindOldestRunning(r) \/ LoadVictim(r) \/ CancelVictim(r)
  \/ CreateRun(r) \/ NameFirstStep(r) \/ StartRun(r)
  \/ FindQueuedByKey(r) \/ FindQueuedByTrigger(r) \/ CreateQueuedRun(r)
-----------------------------------------------------------------------------
(* Activations: tryActivateNextQueuedRun, by the handler of a run that ends and *)
(* by the reconciler.                                                           *)

Turn(a, label) == act' = [act EXCEPT ![a] = label]

Rest(a) ==
  /\ Turn(a, "idle")
  /\ picked' = [picked EXCEPT ![a] = NoRun]
  /\ todo' = IF a \in Server THEN [todo EXCEPT ![a] = {}] ELSE todo

Proceed(a, label) == Turn(a, label) /\ UNCHANGED <<picked, todo>>

\* Nothing runs and nothing is about to: the stale-run watchdog reports a failed
\* job after the grace window, if it finds the name of one.
Stale(r) ==
  /\ jobs[r] \in {"named", "over"}
  /\ pc[r] \notin {"name", "start"}
  /\ \A a \in Activator : ~(act[a] \in {"name", "enqueue"} /\ picked[a] = r)

\* A handler has found the row RUNNING and is on its way to write its end.
EndRun(h, r) ==
  /\ act[h] = "idle"
  /\ status[r] = "RUNNING"
  /\ jobs[r] = "live" \/ Stale(r)
  /\ Turn(h, "complete") \/ Turn(h, "fail")
  /\ picked' = [picked EXCEPT ![h] = r]
  /\ UNCHANGED <<rowVars, launchVars, todo, policy, cancelling, aged, upsets>>

\* completeWorkflowRun, failRun: the status, then the hand-over of the scope.
WriteEnd(h) ==
  /\ act[h] \in {"complete", "fail"}
  /\ Close(picked[h], IF act[h] = "complete" THEN "COMPLETED" ELSE "FAILED")
  /\ Proceed(h, "policy")
  /\ UNCHANGED <<launchVars, policy, cancelling, aged, upsets>>

\* reconcileOrphanedPendingRuns
Sweep(s) ==
  /\ act[s] = "idle"
  /\ Pending # {}
  /\ todo' = [todo EXCEPT ![s] = Pending]
  /\ Turn(s, "owner")
  /\ UNCHANGED <<rowVars, launchVars, picked, policy, cancelling, aged, upsets>>

FindOwner(s) ==
  /\ act[s] = "owner"
  /\ IF Owners # {} THEN Rest(s) ELSE Proceed(s, "policy")
  /\ UNCHANGED <<rowVars, launchVars, policy, cancelling, aged, upsets>>

\* resolveQueuedRunActivationContext: the definition as it is stored now.
ReadPolicy(a) ==
  /\ act[a] = "policy"
  /\ IF policy = "queue" THEN Proceed(a, "pick")
     ELSE IF a \in Hand THEN Rest(a)
     ELSE /\ Turn(a, "cancel")
          /\ todo' = [todo EXCEPT ![a] = @ \cap aged]
          /\ UNCHANGED picked
  /\ UNCHANGED <<rowVars, launchVars, policy, cancelling, aged, upsets>>

PickOldest(a) ==
  /\ act[a] = "pick"
  /\ IF Pending = {}
     THEN Rest(a)
     ELSE /\ picked' = [picked EXCEPT ![a] = Oldest(Pending)]
          /\ Turn(a, "activate")
          /\ UNCHANGED todo
  /\ UNCHANGED <<rowVars, launchVars, policy, cancelling, aged, upsets>>

\* The UPDATE is by id: it does not ask whether the row is still PENDING.
Activate(a) ==
  /\ act[a] = "activate"
  /\ Wrote(picked[a], "RUNNING")
  /\ Proceed(a, "name")
  /\ UNCHANGED <<born, now, ended, waited, jobs, launchVars, policy, cancelling,
                 aged, upsets>>

NameFirst(a) ==
  /\ act[a] = "name"
  /\ NameStep(picked[a])
  /\ Proceed(a, "enqueue")
  /\ UNCHANGED <<launchVars, policy, cancelling, aged, upsets>>

EnqueueFirst(a) ==
  /\ act[a] = "enqueue"
  /\ StartJobs(picked[a])
  /\ Rest(a)
  /\ UNCHANGED <<launchVars, policy, cancelling, aged, upsets>>

\* cancelUnactivatableScope, one row of the sweep at a time.
CheckUnactivatable(s) ==
  /\ act[s] = "cancel"
  /\ \/ todo[s] = {} /\ Rest(s)
     \/ \E r \in todo[s] :
          /\ todo' = [todo EXCEPT ![s] = @ \ {r}]
          /\ IF status[r] = "PENDING"
             THEN Turn(s, "cancelWrite") /\ picked' = [picked EXCEPT ![s] = r]
             ELSE UNCHANGED <<act, picked>>
  /\ UNCHANGED <<rowVars, launchVars, policy, cancelling, aged, upsets>>

CancelUnactivatable(s) ==
  /\ act[s] = "cancelWrite"
  /\ Close(picked[s], "CANCELLED")
  /\ Proceed(s, "cancel")
  /\ UNCHANGED <<launchVars, policy, cancelling, aged, upsets>>

\* A statement of an activation throws: the handler is gone, the sweep ends.
ActivationFails(a) ==
  /\ act[a] # "idle"
  /\ Upset
  /\ Rest(a)
  /\ UNCHANGED <<rowVars, launchVars, policy, cancelling, aged>>

Activation(a) ==
  \/ ReadPolicy(a) \/ PickOldest(a) \/ Activate(a)
  \/ NameFirst(a) \/ EnqueueFirst(a)

Reconcile(s) ==
  \/ Sweep(s) \/ FindOwner(s) \/ CheckUnactivatable(s) \/ CancelUnactivatable(s)
-----------------------------------------------------------------------------
(* The world around the queue. *)

\* updateWorkflow stores another definition.
EditPolicy ==
  /\ Upset
  /\ policy' \in Conflict \ {policy}
  /\ UNCHANGED <<rowVars, launchVars, handVars, cancelling, aged>>

\* cancelWorkflowRun, up to the kill of its containers.
RequestCancel(r) ==
  /\ status[r] \in Live
  /\ Upset
  /\ cancelling' = cancelling \cup {r}
  /\ UNCHANGED <<rowVars, launchVars, handVars, policy, aged>>

CancelRun(r) ==
  /\ r \in cancelling
  /\ Close(r, "CANCELLED")
  /\ cancelling' = cancelling \ {r}
  /\ UNCHANGED <<launchVars, handVars, policy, aged, upsets>>

\* The grace window of a queued row passes.
Age(r) ==
  /\ r \in Pending \ aged
  /\ policy # "queue"
  /\ aged' = aged \cup {r}
  /\ UNCHANGED <<rowVars, launchVars, handVars, policy, cancelling, upsets>>

\* A process restarts: its promise chains and its locks are gone.
Restart(s) ==
  /\ Upset
  /\ pc' = [r \in Run |-> IF Host[r] = s /\ pc[r] # "new" THEN "done" ELSE pc[r]]
  /\ victim' = [r \in Run |-> IF Host[r] = s THEN NoRun ELSE victim[r]]
  /\ line' = [line EXCEPT ![s] = <<>>]
  /\ keyLine' = [e \in Server \X Key |-> IF e[1] = s THEN <<>> ELSE keyLine[e]]
  /\ LET gone(a) == a = s \/ (a \in Hand /\ Host[a] = s)
     IN /\ act' = [a \in Activator |-> IF gone(a) THEN "idle" ELSE act[a]]
        /\ picked' = [a \in Activator |-> IF gone(a) THEN NoRun ELSE picked[a]]
  /\ todo' = [todo EXCEPT ![s] = {}]
  /\ cancelling' \in SUBSET cancelling
  /\ UNCHANGED <<rowVars, plan, policy, aged>>

\* A start was cut short between the RUNNING status and the name of a step.
Stranded == {r \in Running : jobs[r] = "none"}

Next ==
  \/ \E r \in Run : \/ Arrive(r) \/ Launch(r)
                    \/ FindExistingFails(r) \/ LoadVictimFails(r) \/ LaunchFails(r)
                    \/ RequestCancel(r) \/ CancelRun(r) \/ Age(r)
  \/ \E h \in Hand : WriteEnd(h) \/ \E r \in Run : EndRun(h, r)
  \/ \E a \in Activator : Activation(a) \/ ActivationFails(a)
  \/ \E s \in Server : Reconcile(s) \/ Restart(s)
  \/ EditPolicy

Spec == Init /\ [][Next]_vars

\* All that launches, handlers and cancellations have left to do, a finite amount.
Work ==
  \/ \E r \in Run : Launch(r) \/ CancelRun(r) \/ Age(r)
  \/ \E h \in Hand : WriteEnd(h) \/ Activation(h) \/ \E r \in Run : EndRun(h, r)

\* Statements return, running jobs end, the grace window passes, and the timer of
\* the reconciler fires.
FairSpec ==
  /\ Spec
  /\ WF_vars(Work)
  /\ \A s \in Server : WF_vars(Reconcile(s) \/ Activation(s))
-----------------------------------------------------------------------------
(* Properties. *)

\* Runs started at once, by a launch whose policy does not cancel another run.
Admitted == {r \in Running \ waited : plan[r] # "cancel_running"}

\* The lock of the workflow makes count-then-insert one step for the launches: the
\* runs they start at once, still RUNNING, stay within max_runs, whatever
\* hand-overs, reconciler, cancellations, errors and restarts do meanwhile.
\* (checkAndApply and createAndStartRun inside runExclusive.)
AdmittedWithinLimit == Cardinality(Admitted) <= MaxRuns

\* Two launches with one dedupe key never both have a run that is waiting or
\* running and was never ended before: findExistingRun and the insert are under
\* the lock of the key.
OneLiveRunPerKey ==
  \A q, r \in InStatus(Live) \ ended :
    q # r /\ KeyOf[q] = KeyOf[r] => KeyOf[q] = NoKey

\* Equal triggers coalesce: the queue never holds two of them.
OneQueuedPerTrigger ==
  \A q, r \in Pending : TriggerOf[q] = TriggerOf[r] => q = r

\* Activation is first come first served, although the row is read before it is
\* written and several handlers and the reconciler activate at once.
OldestFirst ==
  [][\A r \in Pending : status'[r] = "RUNNING" =>
       \A q \in Pending : born[r] <= born[q]]_vars

\* Every launch gets an answer: the chains of the two locks never stop.
LaunchAnswered == \A r \in Run : []<>(pc[r] \in {"new", "done"})

\* A queued run is started or cancelled in the end, also when the run before it is
\* cancelled, a hand-over is lost, a process restarts or the policy no longer
\* queues; only a stranded run can hold the scope for ever.
QueueDrains ==
  \A r \in Run : []<>(status[r] # "PENDING" \/ Stranded # {})
=============================================================================
