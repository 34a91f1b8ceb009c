------------------------------ MODULE AgentAwait ------------------------------
(***************************************************************************)
(* The durable await of agent workflows (workflow/workflow-await).  An     *)
(* agent step that awaits child runs registers a row in agent_await and    *)
(* its run is parked.  The row is driven to its end by                     *)
(*                                                                         *)
(*   - the child-terminal listener, one call per child that ends: it marks *)
(*     the child satisfied in every waiting row, promotes the first row    *)
(*     that is complete and resumes its parent;                            *)
(*   - the reconciler, a periodic sweep that repairs what a lost event or  *)
(*     a crash left behind and gives up after MaxResumeAttempts;           *)
(*   - the cancellation of the parent run.                                 *)
(*                                                                         *)
(* Each awaited database or queue call is a step of its own, so the calls  *)
(* of concurrent handlers interleave.  markSatisfied reads a row and then  *)
(* saves the whole entity: whatever changed in between is overwritten.     *)
(***************************************************************************)
EXTENDS Naturals

CONSTANTS
    Awaits,              \* the await rows; one per parent step and run
    Children,            \* the awaited runs
    Awaited,             \* Awaited[a]: awaited_run_ids of the row a
    Cancellable,         \* bound: awaits whose parent a user may cancel
    HasTree,             \* awaits whose parent's engine keeps a session tree
    MaxResumeAttempts,   \* MAX_RESUME_ATTEMPTS
    MaxCrashes,          \* bound: restarts of the API process
    MaxQueueErrors,      \* bound: queue.add calls that throw
    Reconciler           \* the name of the sweep among the threads

ASSUME AwaitAssumption ==
    /\ Awaited \in [Awaits -> (SUBSET Children) \ {{}}]
    /\ Cancellable \subseteq Awaits
    /\ HasTree \subseteq Awaits
    /\ MaxResumeAttempts \in Nat \ {0}
    /\ MaxCrashes \in Nat
    /\ MaxQueueErrors \in Nat
    /\ Reconciler \notin Children

\* One listener call per child that ends, and the sweep.
Threads == Children \cup {Reconciler}

VARIABLES
    ended,        \* children whose run row is terminal
    row,          \* the agent_await rows
    parent,       \* status of the parent run: "RUNNING" or "CANCELLED"
    parked,       \* parents whose run row carries wait_reason = dependency
    registrar,    \* progress of AgentAwaitRegistryService.register per await
    cancelling,   \* awaits whose parent's cancelled event is being handled
    joins,        \* joins[a]: the sets of children named by enqueued joins
    failed,       \* awaits given up: handleJobFailed was called
    th,           \* local state of the threads
    sweep,        \* local state of the reconciler's loop
    attempts,     \* resumeAttempts, the in-memory counters
    crashes, queueErrors

vars == <<ended, row, parent, parked, registrar, cancelling, joins, failed,
          th, sweep, attempts, crashes, queueErrors>>

world == <<ended, parent, registrar, cancelling, crashes>>
budget == <<crashes, queueErrors>>

Statuses == {"NONE", "WAITING", "RESUMING", "RESUMED", "CANCELLED"}
Open == {"WAITING", "RESUMING"}

\* ref: parent_session_ref is set.
Row == [status : Statuses, satisfied : SUBSET Children, ref : BOOLEAN]
NoRow == [status |-> "NONE", satisfied |-> {}, ref |-> FALSE]

RegistryPcs == {"find", "mark", "save", "refresh", "promoteOne"}
ResumePcs   == {"unpark", "check", "setRunning", "enqueue", "finish"}
SweepPcs    == {"pick", "children", "reread", "attempt",
                "giveUpCancel", "giveUpUnpark", "giveUpFail"}
Pcs == {"idle"} \cup RegistryPcs \cup ResumePcs \cup SweepPcs

\* id is {} or the singleton of an await: the row a local variable holds.
Held == [id : {{}} \cup {{a} : a \in Awaits}, row : Row]
Nothing == [id |-> {}, row |-> NoRow]
Holding(a, r) == [id |-> {a}, row |-> r]
Naming(a) == Holding(a, NoRow)

Idle == [pc |-> "idle", child |-> {}, todo |-> {}, entity |-> Nothing,
         ready |-> Nothing]
NoSweep == [work |-> {}, current |-> Nothing, kids |-> {}, allTerminal |-> TRUE]

-----------------------------------------------------------------------------
Init ==
    /\ ended = {}
    /\ row = [a \in Awaits |-> NoRow]
    /\ parent = [a \in Awaits |-> "RUNNING"]
    /\ parked = {}
    /\ registrar = [a \in Awaits |-> "create"]
    /\ cancelling = {}
    /\ joins = [a \in Awaits |-> {}]
    /\ failed = {}
    /\ th = [t \in Threads |-> Idle]
    /\ sweep = NoSweep
    /\ attempts = [a \in Awaits |-> 0]
    /\ crashes = 0
    /\ queueErrors = 0

At(t, pc) == th[t].pc = pc
Goto(t, pc) == th' = [th EXCEPT ![t].pc = pc]

\* When its resume is over, or threw, a listener call returns (its catch
\* logs) and the sweep goes on with its next row.
EndResume(t) ==
    th' = [th EXCEPT ![t] = IF t = Reconciler THEN [Idle EXCEPT !.pc = "pick"]
                            ELSE Idle]

\* Seeded fault: the update of the status does not test it.
SetStatusById(a, from, to) == row' = [row EXCEPT ![a].status = to]

\* A conditional UPDATE of the status of a row.
CompareAndSet(a, from, to) ==
    row' = IF row[a].status = from THEN [row EXCEPT ![a].status = to] ELSE row

-----------------------------------------------------------------------------
(* Registration, in two calls, and the end of the step that registered     *)

CreateAwait(a) ==
    /\ registrar[a] = "create"
    /\ row' = [row EXCEPT ![a] = [NoRow EXCEPT !.status = "WAITING"]]
    /\ registrar' = [registrar EXCEPT ![a] = "park"]
    /\ UNCHANGED <<ended, parent, parked, cancelling, joins, failed, th, sweep,
                   attempts, budget>>

\* setWaitState updates RUNNING runs only.
ParkParent(a) ==
    /\ registrar[a] = "park"
    /\ parked' = IF parent[a] = "RUNNING" THEN parked \cup {a} ELSE parked
    /\ registrar' = [registrar EXCEPT ![a] = IF a \in HasTree THEN "done" ELSE "capture"]
    /\ UNCHANGED <<ended, row, parent, cancelling, joins, failed, th, sweep,
                   attempts, budget>>

\* The suspending step of an engine without session tree has ended: its
\* session ref goes to the row, if the row is still WAITING.
CaptureRef(a) ==
    /\ registrar[a] = "capture"
    /\ row' = IF row[a].status = "WAITING" THEN [row EXCEPT ![a].ref = TRUE] ELSE row
    /\ registrar' = [registrar EXCEPT ![a] = "done"]
    /\ UNCHANGED <<ended, parent, parked, cancelling, joins, failed, th, sweep,
                   attempts, budget>>

-----------------------------------------------------------------------------
(* The children and the parents' own runs                                  *)

\* A child's run ends and its lifecycle event starts the listener.
ChildEnds(c) ==
    /\ c \notin ended
    /\ ended' = ended \cup {c}
    /\ th' = [th EXCEPT ![c] = [Idle EXCEPT !.pc = "find", !.child = {c}]]
    /\ UNCHANGED <<row, parent, parked, registrar, cancelling, joins, failed,
                   sweep, attempts, budget>>

\* The user cancels the parent's run; its own event is handled later.
CancelParent(a) ==
    /\ a \in Cancellable \ cancelling
    /\ parent[a] = "RUNNING"
    /\ parent' = [parent EXCEPT ![a] = "CANCELLED"]
    /\ cancelling' = cancelling \cup {a}
    /\ UNCHANGED <<ended, row, parked, registrar, joins, failed, th, sweep,
                   attempts, budget>>

\* cancelParentAwaits: one UPDATE of the open rows of the parent.
CancelAwaits(a) ==
    /\ a \in cancelling
    /\ cancelling' = cancelling \ {a}
    /\ row' = IF row[a].status \in Open
              THEN [row EXCEPT ![a].status = "CANCELLED"] ELSE row
    /\ UNCHANGED <<ended, parent, parked, registrar, joins, failed, th, sweep,
                   attempts, budget>>

-----------------------------------------------------------------------------
(* AgentAwaitRegistryService.onChildTerminal, called by a listener for its *)
(* child and by the sweep for every ended child of a waiting row           *)

FindWaiting(t) ==
    /\ At(t, "find")
    /\ th' = [th EXCEPT
         ![t].pc = "mark",
         ![t].todo = {a \in Awaits : /\ row[a].status = "WAITING"
                                     /\ th[t].child \subseteq Awaited[a]},
         ![t].ready = Nothing]
    /\ UNCHANGED <<row, parked, joins, failed, sweep, attempts, queueErrors, world>>

\* Once a winner is known the other rows are only marked.
AfterMark(t, a) ==
    IF th[t].ready = Nothing THEN <<"refresh", Naming(a)>> ELSE <<"mark", Nothing>>

\* markSatisfied reads the entity; nothing to do when the child is there.
ReadEntity(t, a) ==
    /\ At(t, "mark")
    /\ a \in th[t].todo
    /\ LET next == IF th[t].child \subseteq row[a].satisfied
                   THEN AfterMark(t, a) ELSE <<"save", Holding(a, row[a])>>
       IN  th' = [th EXCEPT ![t].pc = next[1], ![t].entity = next[2],
                            ![t].todo = @ \ {a}]
    /\ UNCHANGED <<row, parked, joins, failed, sweep, attempts, queueErrors, world>>

\* ... and saves all of it with the child added.
SaveEntity(t) ==
    /\ At(t, "save")
    /\ \E a \in th[t].entity.id :
         /\ row' = [row EXCEPT ![a] = [th[t].entity.row EXCEPT
                                         !.satisfied = @ \cup th[t].child]]
         /\ LET next == AfterMark(t, a)
            IN  th' = [th EXCEPT ![t].pc = next[1], ![t].entity = next[2]]
    /\ UNCHANGED <<parked, joins, failed, sweep, attempts, queueErrors, world>>

\* Seeded fault: one awaited child is enough.
RefreshAny(t) ==
    /\ At(t, "refresh")
    /\ \E a \in th[t].entity.id :
         th' = [th EXCEPT ![t].pc = "promoteOne",
                          ![t].entity = Holding(a, row[a])]
    /\ UNCHANGED <<row, parked, joins, failed, sweep, attempts, queueErrors, world>>

\* isFullySatisfied of the row read again.
Refresh(t) ==
    /\ At(t, "refresh")
    /\ \E a \in th[t].entity.id :
         th' = IF Awaited[a] \subseteq row[a].satisfied
               THEN [th EXCEPT ![t].pc = "promoteOne",
                               ![t].entity = Holding(a, row[a])]
               ELSE [th EXCEPT ![t].pc = "mark", ![t].entity = Nothing]
    /\ UNCHANGED <<row, parked, joins, failed, sweep, attempts, queueErrors, world>>

PromoteOne(t) ==
    /\ At(t, "promoteOne")
    /\ \E a \in th[t].entity.id :
         /\ CompareAndSet(a, "WAITING", "RESUMING")
         /\ th' = [th EXCEPT
              ![t].pc = "mark",
              ![t].entity = Nothing,
              ![t].ready = IF row[a].status = "WAITING"
                           THEN th[t].entity ELSE Nothing]
    /\ UNCHANGED <<parked, joins, failed, sweep, attempts, queueErrors, world>>

\* The listener resumes the winner; the sweep ignores what is returned.
AllMarked(t) ==
    /\ At(t, "mark")
    /\ th[t].todo = {}
    /\ th' = [th EXCEPT
         ![t] = IF t = Reconciler THEN [Idle EXCEPT !.pc = "children"]
                ELSE IF th[t].ready = Nothing THEN Idle
                ELSE [Idle EXCEPT !.pc = "unpark", !.ready = th[t].ready]]
    /\ UNCHANGED <<row, parked, joins, failed, sweep, attempts, queueErrors, world>>

-----------------------------------------------------------------------------
(* DependencyParentResumeService.resumeParent of the record th[t].ready    *)

\* Without a session tree, and without a session ref in the record, it
\* throws; otherwise it clears the wait state of the parent.
StartResume(t) ==
    /\ At(t, "unpark")
    /\ IF th[t].ready.id \subseteq HasTree \/ th[t].ready.row.ref
       THEN parked' = parked \ th[t].ready.id /\ Goto(t, "check")
       ELSE EndResume(t) /\ UNCHANGED parked
    /\ UNCHANGED <<row, joins, failed, sweep, attempts, queueErrors, world>>

\* resumeJobWithMessage reads the run and throws when it is terminal ...
CheckRun(t) ==
    /\ At(t, "check")
    /\ \E a \in th[t].ready.id :
         IF parent[a] = "RUNNING" THEN Goto(t, "setRunning") ELSE EndResume(t)
    /\ UNCHANGED <<row, parked, joins, failed, sweep, attempts, queueErrors, world>>

\* ... then writes the status RUNNING by id ...
SetRunning(t) ==
    /\ At(t, "setRunning")
    /\ \E a \in th[t].ready.id : parent' = [parent EXCEPT ![a] = "RUNNING"]
    /\ Goto(t, "enqueue")
    /\ UNCHANGED <<ended, row, parked, registrar, cancelling, joins, failed,
                   sweep, attempts, budget>>

\* Seeded fault: the row is settled before the message is queued.
EnqueueAfterwards(t) ==
    /\ At(t, "enqueue")
    /\ Goto(t, "finish")
    /\ UNCHANGED <<row, parked, joins, failed, sweep, attempts, queueErrors, world>>

\* ... and adds the job with the join message to the queue.
Enqueue(t) ==
    /\ At(t, "enqueue")
    /\ \E a \in th[t].ready.id :
         joins' = [joins EXCEPT ![a] = @ \cup {th[t].ready.row.satisfied}]
    /\ Goto(t, "finish")
    /\ UNCHANGED <<row, parked, failed, sweep, attempts, queueErrors, world>>

EnqueueThrows(t) ==
    /\ At(t, "enqueue")
    /\ queueErrors < MaxQueueErrors
    /\ queueErrors' = queueErrors + 1
    /\ EndResume(t)
    /\ UNCHANGED <<row, parked, joins, failed, sweep, attempts, world>>

\* Seeded fault: a successful resume does not reset the counter.
FinishKeepingCount(t) ==
    /\ At(t, "finish")
    /\ \E a \in th[t].ready.id : CompareAndSet(a, "RESUMING", "RESUMED")
    /\ EndResume(t)
    /\ UNCHANGED <<parked, joins, failed, sweep, attempts, queueErrors, world>>

\* The row is RESUMED; a successful resume resets the reconciler's counter.
FinishResume(t) ==
    /\ At(t, "finish")
    /\ \E a \in th[t].ready.id :
         /\ CompareAndSet(a, "RESUMING", "RESUMED")
         /\ attempts' = IF t = Reconciler THEN [attempts EXCEPT ![a] = 0]
                        ELSE attempts
    /\ EndResume(t)
    /\ UNCHANGED <<parked, joins, failed, sweep, queueErrors, world>>

ThreadStep(t) ==
    \/ FindWaiting(t)
    \/ \E a \in Awaits : ReadEntity(t, a)
    \/ SaveEntity(t) \/ Refresh(t) \/ PromoteOne(t) \/ AllMarked(t)
    \/ StartResume(t) \/ CheckRun(t) \/ SetRunning(t)
    \/ Enqueue(t) \/ EnqueueThrows(t) \/ FinishResume(t)

-----------------------------------------------------------------------------
(* AgentAwaitReconcilerService.reconcileOnce                               *)

\* Seeded fault: the sweep does not look at RESUMING rows.
WaitingRows == {Holding(a, row[a]) : a \in {b \in Awaits : row[b].status = "WAITING"}}

OpenRows == {Holding(a, row[a]) : a \in {b \in Awaits : row[b].status \in Open}}

\* findNonTerminal; at start-up and every 30 s, never two at once.
SweepStarts ==
    /\ At(Reconciler, "idle")
    /\ OpenRows # {}
    /\ sweep' = [NoSweep EXCEPT !.work = OpenRows]
    /\ Goto(Reconciler, "pick")
    /\ UNCHANGED <<row, parked, joins, failed, attempts, queueErrors, world>>

PickWaiting(r) ==
    /\ At(Reconciler, "pick")
    /\ r \in sweep.work
    /\ r.row.status = "WAITING"
    /\ \E a \in r.id :
         sweep' = [work |-> sweep.work \ {r}, current |-> r,
                   kids |-> Awaited[a], allTerminal |-> TRUE]
    /\ Goto(Reconciler, "children")
    /\ UNCHANGED <<row, parked, joins, failed, attempts, queueErrors, world>>

\* A RESUMING row younger than the grace period is left alone ...
SkipYoung(r) ==
    /\ At(Reconciler, "pick")
    /\ r \in sweep.work
    /\ r.row.status = "RESUMING"
    /\ sweep' = [sweep EXCEPT !.work = @ \ {r}]
    /\ UNCHANGED <<row, parked, joins, failed, th, attempts, queueErrors, world>>

\* ... an older one is resumed again, from the record this sweep has read.
PickStuck(r) ==
    /\ At(Reconciler, "pick")
    /\ r \in sweep.work
    /\ r.row.status = "RESUMING"
    /\ sweep' = [NoSweep EXCEPT !.work = sweep.work \ {r}, !.current = r]
    /\ Goto(Reconciler, "attempt")
    /\ UNCHANGED <<row, parked, joins, failed, attempts, queueErrors, world>>

SweepEnds ==
    /\ At(Reconciler, "pick")
    /\ sweep.work = {}
    /\ sweep' = NoSweep
    /\ th' = [th EXCEPT ![Reconciler] = Idle]
    /\ UNCHANGED <<row, parked, joins, failed, attempts, queueErrors, world>>

\* Seeded fault: a child that has not ended does not count.
CheckChildLoosely(c) ==
    /\ At(Reconciler, "children")
    /\ c \in sweep.kids
    /\ sweep' = [sweep EXCEPT !.kids = @ \ {c}]
    /\ IF c \in ended
       THEN th' = [th EXCEPT ![Reconciler].pc = "find",
                             ![Reconciler].child = {c}]
       ELSE UNCHANGED th
    /\ UNCHANGED <<row, parked, joins, failed, attempts, queueErrors, world>>

\* The status of one awaited child; an ended one goes to the registry.
CheckChild(c) ==
    /\ At(Reconciler, "children")
    /\ c \in sweep.kids
    /\ IF c \in ended
       THEN /\ sweep' = [sweep EXCEPT !.kids = @ \ {c}]
            /\ th' = [th EXCEPT ![Reconciler].pc = "find",
                                ![Reconciler].child = {c}]
       ELSE /\ sweep' = [sweep EXCEPT !.kids = @ \ {c}, !.allTerminal = FALSE]
            /\ UNCHANGED th
    /\ UNCHANGED <<row, parked, joins, failed, attempts, queueErrors, world>>

\* Not every child has ended: the row goes on waiting.
StillWaiting ==
    /\ At(Reconciler, "children")
    /\ sweep.kids = {}
    /\ ~sweep.allTerminal
    /\ Goto(Reconciler, "pick")
    /\ UNCHANGED <<row, parked, joins, failed, sweep, attempts, queueErrors, world>>

\* All have: promote the row, unless another path already has.
Promote ==
    /\ At(Reconciler, "children")
    /\ sweep.kids = {}
    /\ sweep.allTerminal
    /\ \E a \in sweep.current.id :
         /\ CompareAndSet(a, "WAITING", "RESUMING")
         /\ Goto(Reconciler, IF row[a].status = "WAITING" THEN "reread" ELSE "pick")
    /\ UNCHANGED <<parked, joins, failed, sweep, attempts, queueErrors, world>>

Reread ==
    /\ At(Reconciler, "reread")
    /\ \E a \in sweep.current.id :
         sweep' = [sweep EXCEPT !.current = Holding(a, row[a])]
    /\ Goto(Reconciler, "attempt")
    /\ UNCHANGED <<row, parked, joins, failed, attempts, queueErrors, world>>

\* Seeded fault: the budget is one attempt larger.
AttemptOnceMore ==
    /\ At(Reconciler, "attempt")
    /\ \E a \in sweep.current.id :
         IF attempts[a] > MaxResumeAttempts
         THEN /\ Goto(Reconciler, "giveUpCancel")
              /\ UNCHANGED attempts
         ELSE /\ attempts' = [attempts EXCEPT ![a] = @ + 1]
              /\ th' = [th EXCEPT ![Reconciler].pc = "unpark",
                                  ![Reconciler].ready = sweep.current]
    /\ UNCHANGED <<row, parked, joins, failed, sweep, queueErrors, world>>

\* attemptResume: bounded by the in-memory counter.
Attempt ==
    /\ At(Reconciler, "attempt")
    /\ \E a \in sweep.current.id :
         IF attempts[a] >= MaxResumeAttempts
         THEN /\ Goto(Reconciler, "giveUpCancel")
              /\ UNCHANGED attempts
         ELSE /\ attempts' = [attempts EXCEPT ![a] = @ + 1]
              /\ th' = [th EXCEPT ![Reconciler].pc = "unpark",
                                  ![Reconciler].ready = sweep.current]
    /\ UNCHANGED <<row, parked, joins, failed, sweep, queueErrors, world>>

\* giveUp: cancel the row, clear the wait state, fail the parent's job.
GiveUpCancel ==
    /\ At(Reconciler, "giveUpCancel")
    /\ \E a \in sweep.current.id : CompareAndSet(a, "RESUMING", "CANCELLED")
    /\ Goto(Reconciler, "giveUpUnpark")
    /\ UNCHANGED <<parked, joins, failed, sweep, attempts, queueErrors, world>>

GiveUpUnpark ==
    /\ At(Reconciler, "giveUpUnpark")
    /\ parked' = parked \ sweep.current.id
    /\ Goto(Reconciler, "giveUpFail")
    /\ UNCHANGED <<row, joins, failed, sweep, attempts, queueErrors, world>>

GiveUpFail ==
    /\ At(Reconciler, "giveUpFail")
    /\ failed' = failed \cup sweep.current.id
    /\ attempts' = [a \in Awaits |-> IF a \in sweep.current.id THEN 0 ELSE attempts[a]]
    /\ Goto(Reconciler, "pick")
    /\ UNCHANGED <<row, parked, joins, sweep, queueErrors, world>>

SweepStep ==
    \/ SweepStarts \/ SweepEnds
    \/ \E r \in sweep.work : PickWaiting(r) \/ SkipYoung(r) \/ PickStuck(r)
    \/ \E c \in Children : CheckChild(c)
    \/ StillWaiting \/ Promote \/ Reread \/ Attempt
    \/ GiveUpCancel \/ GiveUpUnpark \/ GiveUpFail

-----------------------------------------------------------------------------
\* The process dies: handlers, pending events and counters are lost, the
\* tables and the queue are not.
Crash ==
    /\ crashes < MaxCrashes
    /\ crashes' = crashes + 1
    /\ th' = [t \in Threads |-> Idle]
    /\ sweep' = NoSweep
    /\ attempts' = [a \in Awaits |-> 0]
    /\ cancelling' = {}
    /\ registrar' = [a \in Awaits |-> "done"]
    /\ UNCHANGED <<ended, row, parent, parked, joins, failed, queueErrors>>

Next ==
    \/ \E a \in Awaits : \/ CreateAwait(a) \/ ParkParent(a) \/ CaptureRef(a)
                         \/ CancelParent(a) \/ CancelAwaits(a)
    \/ \E c \in Children : ChildEnds(c)
    \/ \E t \in Threads : ThreadStep(t)
    \/ SweepStep
    \/ Crash

Spec == Init /\ [][Next]_vars

\* A handler that has started goes on, the sweep is started again and again,
\* and a row that stays RESUMING grows older than the grace period.
Fairness ==
    /\ \A a \in Awaits : /\ WF_vars(CancelAwaits(a))
                       /\ WF_vars(ParkParent(a) \/ CaptureRef(a))
    /\ \A t \in Threads : WF_vars(ThreadStep(t))
    /\ WF_vars(SweepStep)
    /\ \A a \in Awaits :
         SF_vars(\E r \in sweep.work : r.id = {a} /\ PickStuck(r))

FairSpec == Spec /\ Fairness

-----------------------------------------------------------------------------
(* Properties                                                              *)

TypeOK ==
    /\ ended \subseteq Children
    /\ row \in [Awaits -> Row]
    /\ parent \in [Awaits -> {"RUNNING", "CANCELLED"}]
    /\ parked \subseteq Awaits
    /\ registrar \in [Awaits -> {"create", "park", "capture", "done"}]
    /\ cancelling \subseteq Awaits
    /\ joins \in [Awaits -> SUBSET SUBSET Children]
    /\ failed \subseteq Awaits
    /\ th \in [Threads -> [pc : Pcs, child : SUBSET Children,
                           todo : SUBSET Awaits, entity : Held, ready : Held]]
    /\ sweep \in [work : SUBSET Held, current : Held,
                  kids : SUBSET Children, allTerminal : BOOLEAN]
    /\ attempts \in [Awaits -> 0 .. MaxResumeAttempts]
    /\ crashes \in 0 .. MaxCrashes
    /\ queueErrors \in 0 .. MaxQueueErrors

Joinable(a) == Awaited[a] \subseteq ended
Settled == {"RESUMED", "CANCELLED"}

\* A row says RESUMED only when a join message is in the queue, whatever
\* crashed in between: complete() follows resumeJobWithMessage.
ResumedWasSent == \A a \in Awaits : row[a].status = "RESUMED" => joins[a] # {}

\* The record a listener hands to resumeParent names every awaited child as
\* satisfied, so the join message lists them all.  (The sweep's record need
\* not: a save from a stale read may have dropped a child from the row.)
ListenerNamesAll == \A c \in Children : \A a \in th[c].ready.id :
    th[c].ready.row.satisfied = Awaited[a]

\* The reconciler fails the job of a parent that nobody cancelled and that
\* has a session tree only when the queue threw as often as it tried: two paths
\* racing for one row never use up its attempts.
GivesUpOnlyInTrouble == \A a \in (failed \cap HasTree) \ Cancellable :
    queueErrors >= MaxResumeAttempts

\* What the comment of resumeJobWithMessage says of its terminal check: "A
\* terminal run ... must never be flipped back to RUNNING".  It does not hold:
\* the check and the UPDATE to RUNNING are two calls, and the load of the
\* workflow's definition is in between.
NeverRevived == [][\A a \in Awaits :
    parent[a] = "CANCELLED" => parent'[a] = "CANCELLED"]_vars

\* A row that is RESUMED or CANCELLED stays so, once no markSatisfied holds
\* an entity read before: the stale save is the only way back.
Saving(t, a) == At(t, "save") /\ th[t].entity.id = {a}
SettledFor(a) == /\ row[a].status \in Settled
                 /\ \A t \in Threads : Saving(t, a) =>
                      th[t].entity.row.status = row[a].status
SettledStays == [][\A a \in Awaits : SettledFor(a) =>
                     SettledFor(a)' /\ row'[a].status = row[a].status]_vars

\* Once all its children have ended an await is settled for good: resumed,
\* or given up, although the process may crash between any two steps.
AwaitSettles == \A a \in Awaits :
    <>[](Joinable(a) /\ row[a].status # "NONE" => row[a].status \in Settled)

\* The code keeps the promise of AwaitContract: no parent is joined or
\* failed before every child it waits for has ended, nor is either undone.
Contract == INSTANCE AwaitContract
              WITH resumed <- {a \in Awaits : joins[a] # {}},
                   dropped <- failed
KeepsContract == Contract!Spec
=============================================================================
