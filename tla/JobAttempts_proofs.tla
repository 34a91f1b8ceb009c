--------------------------- MODULE JobAttempts_proofs ---------------------------
(***************************************************************************)
(* The attempts of a job for every number of executions, retries and       *)
(* restarts, and every order of the subscribers: the types, and with them  *)
(* the bound of the retry budget on the counter, the marker and the queue. *)
(***************************************************************************)
EXTENDS JobAttempts, TLAPS

Charging == {"set_attempt", "set_marker", "set_step", "add"}

\* Whoever is on the way to the queue with a retry has read a counter below
\* the budget.
PubInv ==
    /\ pub \in [Publisher -> Local]
    /\ \A p \in Publisher : pub[p].at \in Charging => pub[p].tries < MaxRetries

TypeInv == TypeOK /\ PubInv

LEMMA Labels ==
  /\ ListenerPcs \subseteq Pcs /\ FailurePcs \subseteq Pcs /\ CompletionPcs \subseteq Pcs
  /\ ProjectorPcs \subseteq Pcs /\ WorkerPcs \subseteq Pcs
  /\ "idle" \in Pcs /\ "find" \in Pcs /\ "probe" \in Pcs
  /\ Charging \cap (ListenerPcs \cup CompletionPcs \cup ProjectorPcs \cup WorkerPcs
                      \cup {"idle", "find", "probe"}) = {}
BY DEF Pcs, Charging, ListenerPcs, FailurePcs, CompletionPcs, ProjectorPcs, WorkerPcs

LEMMA States ==
  /\ "absent" \in State /\ "pending" \in State /\ "cancelled" \in State
  /\ "completed" \in State
  /\ \A ev \in Event : Projection(ev) \in State
BY DEF State, Terminal, Event, Projection

LEMMA Publishers ==
  /\ \A p \in Publisher : p[2] \in Attempt
  /\ \A e \in Attempt : /\ <<"worker", e>> \in Publisher /\ <<"finalizer", e>> \in Publisher
                        /\ <<"heartbeat", e>> \in Publisher
                        /\ <<"supervisor", e>> \in Publisher
  /\ \A s \in Slot : <<s, 1>> \in Publisher
BY AttemptsAssumption DEF Publisher, Role, Attempt

LEMMA RestType ==
  ASSUME NEW e \in Attempt
  PROVE  Rest(e) \in Local /\ Rest(e).at \notin Charging
BY Labels, States DEF Rest, Local, Charging

\* A step of one publisher.
LEMMA PubStep ==
  ASSUME PubInv, NEW p \in Publisher, NEW s \in Local,
         s.at \in Charging => s.tries < MaxRetries,
         pub' = [pub EXCEPT ![p] = s]
  PROVE  PubInv'
BY DEF PubInv

LEMMA MovedLocal ==
  ASSUME NEW l \in Local, NEW pc \in Pcs
  PROVE  /\ [l EXCEPT !.at = pc] \in Local
         /\ [l EXCEPT !.at = pc].at = pc
         /\ [l EXCEPT !.at = pc].tries = l.tries
BY DEF Local

LEMMA GotoInv ==
  ASSUME PubInv, NEW p \in Publisher, NEW pc \in Pcs,
         pc \in Charging => pub[p].tries < MaxRetries,
         Goto(p, pc)
  PROVE  PubInv'
<1>1. pub[p] \in Local
  BY DEF PubInv
<1>2. pub' = [pub EXCEPT ![p] = [pub[p] EXCEPT !.at = pc]]
  BY DEF Goto, PubInv
<1> QED
  BY <1>1, <1>2, MovedLocal, PubStep

LEMMA PublishInv ==
  ASSUME PubInv, NEW p \in Publisher, NEW ev \in Event, NEW e \in Attempt,
         Publish(p, ev, e)
  PROVE  PubInv'
<1> DEFINE s == Publishing(pub[p], ev, e)
<1>1. pub[p] \in Local /\ Projection(ev) \in State
  BY States DEF PubInv
<1>2. "context" \in Pcs /\ "project" \in Pcs
  BY DEF Pcs, ListenerPcs, ProjectorPcs
<1>3. s \in Local /\ s.at \in {"context", "project"}
  BY <1>1, <1>2 DEF Publishing, Local
<1>4. pub' = [pub EXCEPT ![p] = s]
  BY DEF Publish, PubInv
<1> QED
  BY <1>3, <1>4, PubStep DEF Charging

LEMMA RestInv ==
  ASSUME PubInv, NEW p \in Publisher, NEW e \in Attempt,
         pub' = [pub EXCEPT ![p] = Rest(e)]
  PROVE  PubInv'
BY RestType, PubStep

LEMMA RestingInv ==
  ASSUME PubInv, NEW p \in Publisher, pub' = Resting(p)
  PROVE  PubInv'
<1> DEFINE s == [pub[p] EXCEPT !.at = Published(p), !.to = "absent", !.tries = 0]
<1>1. pub[p] \in Local /\ p[2] \in Attempt
  BY Publishers DEF PubInv
<1>2. Published(p) \in {"idle", "kill", "start", "release"}
  BY DEF Published
<1>3. Published(p) \in Pcs /\ Published(p) \notin Charging
  BY <1>2 DEF Pcs, WorkerPcs, Charging
<1>4. s \in Local /\ s.at \notin Charging
  BY <1>1, <1>3, States DEF Local
<1>5. \/ pub' = [pub EXCEPT ![p] = Rest(p[2])]
      \/ pub' = [pub EXCEPT ![p] = s]
  BY DEF Resting, PubInv
<1> QED
  BY <1>1, <1>4, <1>5, RestInv, PubStep

LEMMA ListenerDoneInv ==
  ASSUME PubInv, NEW p \in Publisher, ListenerDone(p)
  PROVE  PubInv'
<1>1. "project" \in Pcs /\ "project" \notin Charging
  BY DEF Pcs, ProjectorPcs, Charging
<1> QED
  BY <1>1, GotoInv, RestingInv DEF ListenerDone

LEMMA ProjectorDoneInv ==
  ASSUME PubInv, NEW p \in Publisher, ProjectorDone(p)
  PROVE  PubInv'
<1>1. "context" \in Pcs /\ "context" \notin Charging
  BY DEF Pcs, ListenerPcs, Charging
<1> QED
  BY <1>1, GotoInv, RestingInv DEF ProjectorDone

LEMMA AnsweredInv ==
  ASSUME PubInv, NEW p \in Publisher, Answered(p)
  PROVE  PubInv'
<1>1. "cleanup" \in Pcs /\ "cleanup" \notin Charging
  BY DEF Pcs, WorkerPcs, Charging
<1>2. p[2] \in Attempt
  BY Publishers
<1> QED
  BY <1>1, <1>2, GotoInv, RestInv, ListenerDoneInv DEF Answered

LEMMA ProjectedInv ==
  ASSUME PubInv, NEW p \in Publisher, Projected(p)
  PROVE  PubInv'
<1> DEFINE s == [pub[p] EXCEPT !.at = "project", !.to = "completed"]
<1>1. pub[p] \in Local /\ "project" \in Pcs
  BY DEF PubInv, Pcs, ProjectorPcs
<1>2. s \in Local /\ s.at \notin Charging
  BY <1>1, States DEF Local, Charging
<1>3. pub' = [pub EXCEPT ![p] = s] \/ ProjectorDone(p)
  BY DEF Projected, PubInv
<1> QED
  BY <1>2, <1>3, PubStep, ProjectorDoneInv

LEMMA InitInv ==
  ASSUME Init
  PROVE  TypeInv
<1>1. \A p \in Publisher : Rest(p[2]) \in Local /\ Rest(p[2]).at \notin Charging
  BY RestType, Publishers
<1>2. PubInv
  BY <1>1 DEF Init, PubInv
<1> QED
  <2>1. NoJob \in [at : ConsumerPcs, prior : SUBSET Attempt, new : Attempt \cup {0}]
    BY DEF NoJob, ConsumerPcs
  <2>2. /\ slot \in [Slot -> {"empty", "waiting", "active"}]
        /\ consumer \in [Slot -> [at : ConsumerPcs, prior : SUBSET Attempt, new : Attempt \cup {0}]]
        /\ row \in [Attempt -> State] /\ lease \in [Attempt -> {"none", "held", "lapsed"}]
        /\ agent \in [Attempt -> {"off", "working", "ok", "bad"}]
    BY <2>1, States DEF Init
  <2>3. /\ attempt \in 0 .. MaxRetries /\ marker \in 0 .. MaxRetries /\ meta \in 0 .. MaxRetries
        /\ crashes \in 0 .. MaxCrashes
    BY AttemptsAssumption DEF Init
  <2>4. pub \in [Publisher -> Local]
    BY <1>2 DEF PubInv
  <2>5. TypeOK
    BY <2>2, <2>3, <2>4 DEF Init, TypeOK
  <2> QED BY <1>2, <2>5 DEF TypeInv

LEMMA PcsOf ==
  /\ "gate_completion" \in Pcs /\ "claim" \in Pcs /\ "clear_retry" \in Pcs
  /\ "siblings" \in Pcs /\ "policy" \in Pcs /\ "clear_failed" \in Pcs /\ "fail_run" \in Pcs
  /\ "close_run" \in Pcs /\ "set_attempt" \in Pcs /\ "set_marker" \in Pcs /\ "set_step" \in Pcs /\ "add" \in Pcs
  /\ "save" \in Pcs /\ "provision" \in Pcs /\ "cleanup" \in Pcs /\ "await" \in Pcs
  /\ "find" \in Pcs /\ "probe" \in Pcs /\ "claim_lease" \in Pcs
BY DEF Pcs, ListenerPcs, FailurePcs, CompletionPcs, ProjectorPcs, WorkerPcs

LEMMA DecideInv ==
  ASSUME TypeInv, NEW p \in Publisher, DecideRetry(p)
  PROVE  PubInv'
<1> DEFINE s == [pub[p] EXCEPT !.at = "set_attempt", !.tries = attempt]
<1>0. PubInv /\ pub[p] \in Local /\ attempt \in Nat
  BY AttemptsAssumption DEF TypeInv, PubInv, TypeOK
<1>1. s \in Local /\ s.tries = attempt
  BY <1>0, PcsOf DEF Local
<1>2. CASE Answered(p)
  BY <1>0, <1>2, AnsweredInv
<1>3. CASE attempt < MaxRetries /\ pub' = [pub EXCEPT ![p] = s]
  BY <1>0, <1>1, <1>3, PubStep
<1>4. CASE Goto(p, "clear_failed")
  BY <1>0, <1>4, PcsOf, GotoInv DEF Charging
<1>5. \/ Answered(p)
      \/ attempt < MaxRetries /\ pub' = [pub EXCEPT ![p] = s]
      \/ Goto(p, "clear_failed")
  BY <1>0 DEF DecideRetry, PubInv
<1> QED
  BY <1>2, <1>3, <1>4, <1>5

LEMMA HandlePub ==
  ASSUME TypeInv, NEW p \in Publisher, Handle(p)
  PROVE  PubInv'
<1>0. PubInv
  BY DEF TypeInv
<1>1. CASE ReadContext(p)
  BY <1>0, <1>1, PcsOf, GotoInv, ListenerDoneInv DEF ReadContext, Charging
<1>2. CASE CheckSiblings(p)
  BY <1>0, <1>2, PcsOf, GotoInv, ListenerDoneInv DEF CheckSiblings, Charging
<1>3. CASE GateCompletion(p)
  BY <1>0, <1>3, PcsOf, GotoInv, AnsweredInv DEF GateCompletion, Charging
<1>4. CASE ClaimCompletion(p)
  BY <1>0, <1>4, PcsOf, GotoInv, AnsweredInv DEF ClaimCompletion, Charging
<1>5. CASE ClearRetryState(p)
  BY <1>0, <1>5, AnsweredInv DEF ClearRetryState
<1>6. CASE DecideRetry(p)
  BY <1>6, DecideInv
<1>7. CASE SetAttempt(p)
  <2>1. pub[p].tries < MaxRetries
    BY <1>0, <1>7 DEF SetAttempt, At, PubInv, Charging
  <2> QED BY <1>0, <1>7, <2>1, PcsOf, GotoInv DEF SetAttempt
<1>8. CASE SetMarker(p)
  <2>1. pub[p].tries < MaxRetries
    BY <1>0, <1>8 DEF SetMarker, At, PubInv, Charging
  <2> QED BY <1>0, <1>8, <2>1, PcsOf, GotoInv DEF SetMarker
<1>s. CASE SetStep(p)
  <2>1. pub[p].tries < MaxRetries
    BY <1>0, <1>s DEF SetStep, At, PubInv, Charging
  <2> QED BY <1>0, <1>s, <2>1, PcsOf, GotoInv DEF SetStep
<1>9. CASE AddRetry(p)
  BY <1>0, <1>9, AnsweredInv DEF AddRetry
<1>10. CASE ClearFailed(p)
  BY <1>0, <1>10, PcsOf, GotoInv DEF ClearFailed, Charging
<1>11. CASE FailRun(p)
  BY <1>0, <1>11, PcsOf, GotoInv DEF FailRun, Charging
<1>12. CASE CloseRun(p)
  BY <1>0, <1>12, AnsweredInv DEF CloseRun
<1>13. CASE Project(p)
  BY <1>0, <1>13, PcsOf, GotoInv, ProjectedInv DEF Project, Charging
<1>14. CASE Save(p)
  BY <1>0, <1>14, ProjectedInv DEF Save
<1> QED
  BY <1>1, <1>2, <1>3, <1>4, <1>5, <1>6, <1>7, <1>8, <1>s, <1>9, <1>10, <1>11, <1>12, <1>13, <1>14
     DEF Handle

LEMMA HandleType ==
  ASSUME TypeInv, NEW p \in Publisher, Handle(p)
  PROVE  TypeInv'
<1>0. PubInv' /\ TypeOK
  BY HandlePub DEF TypeInv
<1> SUFFICES TypeOK'
  BY <1>0 DEF TypeInv
<1>1. pub' \in [Publisher -> Local] /\ pub[p] \in Local
  BY <1>0 DEF PubInv, TypeOK
<1>2. pub[p].of \in Attempt /\ pub[p].to \in State /\ pub[p].tries \in Nat
  BY <1>1 DEF Local
<1>3. pub[p].at \in Charging => pub[p].tries + 1 \in 0 .. MaxRetries
  BY <1>2, AttemptsAssumption DEF TypeInv, PubInv
<1>4. 0 \in 0 .. MaxRetries
  BY AttemptsAssumption
<1>u. ASSUME UNCHANGED <<engine, queue, row, lease, world>> PROVE TypeOK'
  BY <1>0, <1>1, <1>u DEF TypeOK, engine, queue, world
<1>5. CASE ReadContext(p) \/ CheckSiblings(p) \/ GateCompletion(p) \/ DecideRetry(p) \/ Project(p)
  BY <1>5, <1>u DEF ReadContext, CheckSiblings, GateCompletion, DecideRetry, Project
<1>6. CASE ClaimCompletion(p)
  BY <1>0, <1>1, <1>6 DEF TypeOK, ClaimCompletion, queue, world
<1>7. CASE ClearRetryState(p) \/ ClearFailed(p)
  BY <1>0, <1>1, <1>4, <1>7 DEF TypeOK, ClearRetryState, ClearFailed, queue, world
<1>8. CASE SetAttempt(p)
  <2>1. attempt' \in 0 .. MaxRetries
    BY <1>3, <1>8 DEF SetAttempt, At, Charging
  <2> QED BY <1>0, <1>1, <1>8, <2>1 DEF TypeOK, SetAttempt, queue, world
<1>9. CASE SetMarker(p)
  <2>1. marker' \in 0 .. MaxRetries
    BY <1>3, <1>9 DEF SetMarker, At, Charging
  <2> QED BY <1>0, <1>1, <1>9, <2>1 DEF TypeOK, SetMarker, queue, world
<1>s. CASE SetStep(p)
  BY <1>0, <1>1, <1>s DEF TypeOK, SetStep, queue, world
<1>10. CASE AddRetry(p)
  <2>1. meta' \in 0 .. MaxRetries /\ slot' \in [Slot -> {"empty", "waiting", "active"}]
    BY <1>0, <1>3, <1>10 DEF TypeOK, AddRetry, At, Charging
  <2> QED BY <1>0, <1>1, <1>10, <2>1 DEF TypeOK, AddRetry, engine, world
<1>11. CASE FailRun(p)
  BY <1>0, <1>1, <1>11 DEF TypeOK, FailRun, queue, world
<1>12. CASE CloseRun(p)
  BY <1>0, <1>1, <1>12 DEF TypeOK, CloseRun, engine
<1>13. CASE Save(p)
  BY <1>0, <1>1, <1>2, <1>13 DEF TypeOK, Save, engine, queue, world
<1> QED
  BY <1>5, <1>6, <1>7, <1>8, <1>9, <1>s, <1>10, <1>11, <1>12, <1>13 DEF Handle

LEMMA Carried ==
  ASSUME TypeInv, NEW p \in Publisher
  PROVE  /\ PubInv /\ TypeOK /\ pub[p] \in Local
         /\ pub \in [Publisher -> Local]
         /\ "provisioning" \in Event /\ "failed" \in Event /\ "provisioned" \in Event
         /\ "completed" \in Event /\ "heartbeat" \in Event /\ "reaped" \in Event
BY DEF TypeInv, PubInv, Event

LEMMA WorkPub ==
  ASSUME TypeInv, NEW e \in Attempt, Work(e)
  PROVE  PubInv'
<1> DEFINE p == <<"worker", e>>
<1>0. p \in Publisher
  BY Publishers
<1>1. PubInv /\ pub[p] \in Local /\ pub \in [Publisher -> Local]
  BY <1>0, Carried
<1>c. /\ "provisioning" \in Event /\ "failed" \in Event /\ "provisioned" \in Event
      /\ "completed" \in Event
  BY DEF Event
<1>2. CASE ClaimLease(e)
  BY <1>0, <1>1, <1>c, <1>2, PublishInv DEF ClaimLease
<1>3. CASE KillStale(e)
  BY <1>0, <1>1, <1>3, PcsOf, GotoInv DEF KillStale, Charging
<1>4. CASE Provision(e)
  BY <1>0, <1>1, <1>c, <1>4, PcsOf, GotoInv, PublishInv DEF Provision, Charging
<1>5. CASE StartAgent(e)
  BY <1>0, <1>1, <1>5, PcsOf, GotoInv DEF StartAgent, Charging
<1>6. CASE TurnEnds(e)
  <2> DEFINE s == [pub[p] EXCEPT !.at = "gate_completion", !.ev = "turn_end"]
  <2>1. s \in Local /\ s.at \notin Charging
    BY <1>1, PcsOf DEF Local, Charging
  <2>2. pub' = [pub EXCEPT ![p] = s] \/ Goto(p, "cleanup")
    BY <1>0, <1>1, <1>6 DEF TurnEnds
  <2> QED
    BY <1>0, <1>1, <2>1, <2>2, PubStep, PcsOf, GotoInv DEF Charging
<1>7. CASE Cleanup(e)
  BY <1>0, <1>1, <1>c, <1>7, PublishInv DEF Cleanup
<1>8. CASE ReleaseLease(e)
  BY <1>0, <1>1, <1>8, RestInv DEF ReleaseLease
<1> QED
  BY <1>2, <1>3, <1>4, <1>5, <1>6, <1>7, <1>8 DEF Work

LEMMA WorkType ==
  ASSUME TypeInv, NEW e \in Attempt, Work(e)
  PROVE  TypeInv'
<1>0. PubInv' /\ TypeOK /\ pub' \in [Publisher -> Local]
  BY WorkPub DEF TypeInv, PubInv
<1> SUFFICES TypeOK'
  BY <1>0 DEF TypeInv
<1>1. CASE ClaimLease(e) \/ ReleaseLease(e)
  BY <1>0, <1>1 DEF TypeOK, ClaimLease, ReleaseLease, engine, queue, world
<1>2. CASE KillStale(e) \/ Provision(e) \/ Cleanup(e)
  BY <1>0, <1>2 DEF TypeOK, KillStale, Provision, Cleanup, engine, queue
<1>3. CASE StartAgent(e)
  BY <1>0, <1>3 DEF TypeOK, StartAgent, engine, queue
<1>4. CASE TurnEnds(e)
  BY <1>0, <1>4 DEF TypeOK, TurnEnds, engine, queue, world
<1> QED
  BY <1>1, <1>2, <1>3, <1>4 DEF Work

\* The agent, its reports and the supervisor.
LEMMA ReportPub ==
  ASSUME TypeInv, NEW e \in Attempt,
         \/ FindRunning(e) \/ Sweep(e) \/ Reap(e) \/ Reconcile(e) \/ LeaveAlone(e)
         \/ AgentEnds(e) \/ Heartbeat(e) \/ ContainerDies(e)
  PROVE  PubInv'
<1>0. /\ <<"finalizer", e>> \in Publisher /\ <<"supervisor", e>> \in Publisher
      /\ <<"heartbeat", e>> \in Publisher
  BY Publishers
<1>1. PubInv /\ TypeOK /\ pub \in [Publisher -> Local]
  BY <1>0, Carried
<1>c. /\ "failed" \in Event /\ "completed" \in Event /\ "heartbeat" \in Event
      /\ "reaped" \in Event
  BY DEF Event
<1>2. CASE FindRunning(e)
  BY <1>0, <1>1, <1>c, <1>2, RestInv, PublishInv DEF FindRunning
<1>3. CASE Sweep(e)
  <2> DEFINE p == <<"supervisor", e>>
             s == [pub[p] EXCEPT !.at = "probe", !.to = row[e]]
  <2>1. s \in Local /\ s.at \notin Charging
    <3>1. pub[p] \in Local /\ row[e] \in State /\ "probe" \in Pcs
      BY <1>0, <1>1, PcsOf DEF TypeOK
    <3>2. s \in Local /\ s.at = "probe"
      BY <3>1 DEF Local
    <3> QED BY <3>2 DEF Charging
  <2>2. pub' = [pub EXCEPT ![p] = s]
    BY <1>0, <1>1, <1>3 DEF Sweep
  <2> QED
    BY <1>0, <1>1, <2>1, <2>2, PubStep
<1>4. CASE Reap(e) \/ Reconcile(e)
  BY <1>0, <1>1, <1>c, <1>4, PublishInv DEF Reap, Reconcile
<1>5. CASE LeaveAlone(e)
  BY <1>0, <1>1, <1>5, RestInv DEF LeaveAlone
<1>6. CASE AgentEnds(e)
  <2>1. Goto(<<"finalizer", e>>, "find") \/ UNCHANGED pub
    BY <1>6 DEF AgentEnds
  <2> QED
    BY <1>0, <1>1, <2>1, PcsOf, GotoInv DEF Charging, PubInv
<1>7. CASE Heartbeat(e)
  BY <1>0, <1>1, <1>c, <1>7, PublishInv DEF Heartbeat
<1>8. CASE ContainerDies(e)
  BY <1>1, <1>8 DEF ContainerDies, PubInv
<1> QED
  BY <1>2, <1>3, <1>4, <1>5, <1>6, <1>7, <1>8

LEMMA ReportType ==
  ASSUME TypeInv, NEW e \in Attempt,
         \/ FindRunning(e) \/ Sweep(e) \/ Reap(e) \/ Reconcile(e) \/ LeaveAlone(e)
         \/ AgentEnds(e) \/ Heartbeat(e) \/ ContainerDies(e)
  PROVE  TypeInv'
<1>0. PubInv' /\ TypeOK /\ pub' \in [Publisher -> Local]
  BY ReportPub DEF TypeInv, PubInv
<1> SUFFICES TypeOK'
  BY <1>0 DEF TypeInv
<1>u. CASE UNCHANGED <<engine, queue, row, lease, world>>
  BY <1>0, <1>u DEF TypeOK, engine, queue, world
<1>1. CASE AgentEnds(e)
  BY <1>0, <1>1 DEF TypeOK, AgentEnds, engine, queue
<1>2. CASE ContainerDies(e)
  BY <1>0, <1>2 DEF TypeOK, ContainerDies, engine, queue
<1> QED
  BY <1>u, <1>1, <1>2 DEF FindRunning, Sweep, Reap, Reconcile, LeaveAlone, Heartbeat

\* The worker's queue.
Turns == [at : ConsumerPcs, prior : SUBSET Attempt, new : Attempt \cup {0}]

LEMMA TurnType ==
  ASSUME TypeOK, NEW s \in Slot, NEW c \in Turns, consumer' = [consumer EXCEPT ![s] = c]
  PROVE  consumer' \in [Slot -> Turns]
BY DEF TypeOK, Turns

LEMMA TurnStep ==
  ASSUME TypeOK, NEW s \in Slot, NEW pc \in ConsumerPcs, Turn(s, pc)
  PROVE  consumer' \in [Slot -> Turns]
<1>1. [consumer[s] EXCEPT !.at = pc] \in Turns
  BY DEF TypeOK, Turns
<1>2. consumer' = [consumer EXCEPT ![s] = [consumer[s] EXCEPT !.at = pc]]
  BY DEF TypeOK, Turn
<1> QED
  BY <1>1, <1>2, TurnType

LEMMA WithoutType ==
  ASSUME NEW c \in Turns, NEW x
  PROVE  Without(c, x) \in Turns
BY DEF Without, Turns, ConsumerPcs

LEMMA ConsumeQueue ==
  ASSUME TypeInv, NEW s \in Slot, Consume(s)
  PROVE  consumer' \in [Slot -> Turns]
<1>0. TypeOK /\ consumer[s] \in Turns /\ consumer \in [Slot -> Turns]
  BY DEF TypeInv, TypeOK, Turns
<1>p. {"idle", "guard", "activate", "preflight", "called", "prior", "cancel", "cancel_save",
       "create", "created", "ack"} = ConsumerPcs
  BY DEF ConsumerPcs
<1>1. CASE Take(s)
  BY <1>0, <1>p, <1>1, TurnStep DEF Take
<1>2. CASE GuardRetry(s)
  BY <1>0, <1>p, <1>2, TurnStep DEF GuardRetry
<1>3. CASE MarkActivated(s) \/ Preflight(s) \/ HandlerReturns(s) \/ PublishCreated(s)
  BY <1>0, <1>p, <1>3, TurnStep DEF MarkActivated, Preflight, HandlerReturns, PublishCreated
<1>4. CASE FindPrior(s)
  <2>1. PICK at \in ConsumerPcs, prior \in SUBSET Attempt :
          consumer' = [consumer EXCEPT ![s] = [consumer[s] EXCEPT !.at = at, !.prior = prior]]
    BY <1>0, <1>p, <1>4 DEF FindPrior
  <2>2. [consumer[s] EXCEPT !.at = at, !.prior = prior] \in Turns
    BY <1>0 DEF Turns
  <2> QED BY <1>0, <2>1, <2>2, TurnType
<1>5. CASE CancelPrior(s)
  <2>1. PICK x \in consumer[s].prior :
          consumer' = [consumer EXCEPT ![s] =
            IF "cancelled" \in Edges(row[x])
            THEN [consumer[s] EXCEPT !.at = "cancel_save", !.new = x]
            ELSE Without(consumer[s], x)]
    BY <1>0, <1>5 DEF CancelPrior
  <2>2. x \in Attempt
    BY <1>0, <2>1 DEF Turns
  <2>3. [consumer[s] EXCEPT !.at = "cancel_save", !.new = x] \in Turns
    BY <1>0, <1>p, <2>2 DEF Turns
  <2> QED BY <1>0, <2>1, <2>3, WithoutType, TurnType
<1>6. CASE SaveCancelled(s)
  BY <1>0, <1>6, WithoutType, TurnType DEF SaveCancelled
<1>7. CASE CreateExecution(s)
  <2>1. PICK e \in Attempt :
          consumer' = [consumer EXCEPT ![s] = [consumer[s] EXCEPT !.at = "created", !.new = e]]
    BY <1>0, <1>7 DEF CreateExecution
  <2>2. [consumer[s] EXCEPT !.at = "created", !.new = e] \in Turns
    BY <1>0, <1>p DEF Turns
  <2> QED BY <1>0, <2>1, <2>2, TurnType
<1>8. CASE Acknowledge(s)
  <2>1. NoJob \in Turns
    BY <1>p DEF NoJob, Turns
  <2> QED BY <1>0, <1>8, <2>1, TurnType DEF Acknowledge
<1> QED
  BY <1>1, <1>2, <1>3, <1>4, <1>5, <1>6, <1>7, <1>8 DEF Consume

LEMMA ConsumeType ==
  ASSUME TypeInv, NEW s \in Slot, Consume(s)
  PROVE  TypeInv'
<1>0. PubInv /\ TypeOK /\ pub \in [Publisher -> Local]
  BY DEF TypeInv, PubInv
<1>1. consumer' \in [Slot -> [at : ConsumerPcs, prior : SUBSET Attempt, new : Attempt \cup {0}]]
  BY ConsumeQueue DEF Turns
<1>2. PubInv'
  <2>1. CASE UNCHANGED pub
    BY <1>0, <2>1 DEF PubInv
  <2>2. CASE PublishCreated(s)
    <3> DEFINE p == <<"worker", consumer[s].new>>
    <3>1. CASE p \in Publisher
      BY <1>0, <2>2, <3>1, PcsOf, GotoInv DEF PublishCreated, Charging
    <3>2. CASE p \notin Publisher
      <4>1. pub' = pub
        BY <1>0, <2>2, <3>2 DEF PublishCreated, Goto
      <4> QED BY <1>0, <4>1 DEF PubInv
    <3> QED BY <3>1, <3>2
  <2>3. ASSUME NEW pc \in {"gate_completion", "policy"},
               pub' = [pub EXCEPT ![<<s, 1>>] = [@ EXCEPT !.at = pc, !.ev = "dispatch"]]
        PROVE  PubInv'
    <3> DEFINE l == [pub[<<s, 1>>] EXCEPT !.at = pc, !.ev = "dispatch"]
    <3>1. <<s, 1>> \in Publisher /\ pub[<<s, 1>>] \in Local
      BY <1>0, Publishers
    <3>2. l \in Local /\ l.at \notin Charging
      BY <3>1, PcsOf DEF Local, Charging
    <3>3. pub' = [pub EXCEPT ![<<s, 1>>] = l]
      BY <1>0, <2>3
    <3> QED BY <1>0, <3>1, <3>2, <3>3, PubStep
  <2>4. CASE Preflight(s)
    BY <2>1, <2>3, <2>4 DEF Preflight
  <2> QED
    BY <2>1, <2>2, <2>4 DEF Consume, Take, GuardRetry, MarkActivated, HandlerReturns, FindPrior,
                            CancelPrior, SaveCancelled, CreateExecution, Acknowledge
<1>3. pub' \in [Publisher -> Local] /\ 0 \in 0 .. MaxRetries /\ meta \in 0 .. MaxRetries
  BY <1>0, <1>2, AttemptsAssumption DEF PubInv, TypeOK
<1>s. "pending" \in State /\ "cancelled" \in State
  BY States
<1> SUFFICES TypeOK'
  BY <1>2 DEF TypeInv
<1>4. CASE Take(s) \/ Acknowledge(s)
  <2>1. slot' \in [Slot -> {"empty", "waiting", "active"}]
    BY <1>0, <1>4 DEF TypeOK, Take, Acknowledge
  <2> QED BY <1>0, <1>1, <1>3, <1>4, <2>1 DEF TypeOK, Take, Acknowledge, engine, world
<1>5. CASE GuardRetry(s) \/ Preflight(s) \/ HandlerReturns(s) \/ FindPrior(s) \/ CancelPrior(s)
  BY <1>0, <1>1, <1>3, <1>5
     DEF TypeOK, GuardRetry, Preflight, HandlerReturns, FindPrior, CancelPrior, engine, world
<1>6. CASE MarkActivated(s)
  BY <1>0, <1>1, <1>3, <1>6 DEF TypeOK, MarkActivated, world
<1>7. CASE SaveCancelled(s) \/ CreateExecution(s) \/ PublishCreated(s)
  <2>1. row' \in [Attempt -> State]
    BY <1>0, <1>7, <1>s DEF TypeOK, SaveCancelled, CreateExecution, PublishCreated
  <2> QED
    BY <1>0, <1>1, <1>3, <1>7, <2>1
       DEF TypeOK, SaveCancelled, CreateExecution, PublishCreated, engine, world
<1> QED
  BY <1>4, <1>5, <1>6, <1>7 DEF Consume

LEMMA CrashType ==
  ASSUME TypeInv, Crash
  PROVE  TypeInv'
<1>0. TypeOK
  BY DEF TypeInv
<1>1. \A p \in Publisher : Rest(p[2]) \in Local /\ Rest(p[2]).at \notin Charging
  BY RestType, Publishers
<1>2. PubInv'
  BY <1>1 DEF Crash, PubInv
<1>3. crashes' \in 0 .. MaxCrashes
  BY <1>0, AttemptsAssumption DEF TypeOK, Crash
<1>4. NoJob \in [at : ConsumerPcs, prior : SUBSET Attempt, new : Attempt \cup {0}]
  BY DEF NoJob, ConsumerPcs
<1>5. /\ consumer' \in [Slot -> [at : ConsumerPcs, prior : SUBSET Attempt, new : Attempt \cup {0}]]
      /\ slot' \in [Slot -> {"empty", "waiting", "active"}]
      /\ lease' \in [Attempt -> {"none", "held", "lapsed"}]
  BY <1>0, <1>4 DEF TypeOK, Crash
<1>6. TypeOK'
  BY <1>0, <1>2, <1>3, <1>5 DEF TypeOK, Crash, engine, PubInv
<1> QED
  BY <1>2, <1>6 DEF TypeInv

LEMMA RestOfNext ==
  ASSUME TypeInv, MoveStep \/ CompleteRun \/ UNCHANGED vars
  PROVE  TypeInv'
BY DEF TypeInv, TypeOK, PubInv, MoveStep, CompleteRun, vars, queue, world

LEMMA NextInv ==
  ASSUME TypeInv, [Next]_vars
  PROVE  TypeInv'
<1>1. ASSUME NEW p \in Publisher, Proceed(p)
      PROVE  TypeInv'
  <2>1. p[2] \in Attempt
    BY Publishers
  <2> QED
    BY <1>1, <2>1, HandleType, WorkType, ReportType DEF Proceed
<1>2. ASSUME NEW e \in Attempt,
             \/ Sweep(e) \/ Reap(e) \/ Reconcile(e)
             \/ AgentEnds(e) \/ Heartbeat(e) \/ ContainerDies(e)
      PROVE  TypeInv'
  BY <1>2, ReportType
<1>3. ASSUME NEW s \in Slot, Consume(s)
      PROVE  TypeInv'
  BY <1>3, ConsumeType
<1>4. CASE Crash
  BY <1>4, CrashType
<1>5. CASE MoveStep \/ CompleteRun \/ Over \/ UNCHANGED vars
  BY <1>5, RestOfNext DEF Over
<1> QED
  BY <1>1, <1>2, <1>3, <1>4, <1>5 DEF Next

\* Every reachable state is well typed, for every number of executions, retries
\* and restarts: in particular no interleaving of reports raises the counter,
\* the marker or the attempt of a queued retry above the budget of
\* workflow_auto_retry_max_attempts, because whoever passes the test of
\* scheduleWorkflowAutoRetry carries a counter below it.
THEOREM TypeCorrect == Spec => []TypeOK
<1>1. Init => TypeInv
  BY InitInv
<1>2. TypeInv /\ [Next]_vars => TypeInv'
  BY NextInv
<1>3. TypeInv => TypeOK
  BY DEF TypeInv
<1> QED
  BY <1>1, <1>2, <1>3, PTL DEF Spec
=============================================================================
