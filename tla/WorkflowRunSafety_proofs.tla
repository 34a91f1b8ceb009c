----------------------- MODULE WorkflowRunSafety_proofs -----------------------
(***************************************************************************)
(* Safety of a run whose definition has no transitions: the flags queued   *)
(* and completed are then only ever set, and that is what each of the      *)
(* theorems below rests on.  With transitions enqueueTransitionJob clears  *)
(* flags again.  The theorems on what has ended need more: no job may be   *)
(* both skipped and queued (PlainGraph).  The last part shows that a       *)
(* RUNNING run is driven.                                                  *)
(***************************************************************************)
EXTENDS WorkflowRunProgress_proofs, WellFoundedInduction

NoTransitions == \A j \in Job : Transitions[j] = {}

\* No handler has entered enqueueTransitionJob.
Linear(h) ==
  /\ pc[h] \notin {"branch", "unqueue", "uncomplete", "move"}
  /\ ctx[h].mode # "branch"

\* Only h moved.
Moved(h) == \A g \in Handler : g # h => pc'[g] = pc[g] /\ ctx'[g] = ctx[g]

\* One job is put on the queue at a time, by the handler that claimed its flag.
ClaimInv ==
  /\ \A h \in Handler : Linear(h)
  /\ \A j \in Job : adds[j] <= 1 /\ (adds[j] = 1 => queued[j])
  /\ \A h \in Handler :
       pc[h] = "add" => queued[ctx[h].cand] /\ adds[ctx[h].cand] = 0
  /\ \A g, h \in Handler :
       g # h /\ pc[g] = "add" /\ pc[h] = "add" => ctx[g].cand # ctx[h].cand

\* A job is recorded by the handler that claimed its completion.
CompletionInv ==
  /\ \A h \in Handler : pc[h] \in Completing => completed[ctx[h].job]
  /\ OneCompletionPerJob

\* A scan that has read a flag has read it set, and it stays set.
ScanInv ==
  /\ \A h \in Handler :
       /\ pc[h] = "scan" => \A j \in Job \ ctx[h].unread : completed[j]
       /\ pc[h] \in {"load", "complete"} => \A j \in Job : completed[j]
  /\ CompletedMeansAllJobs

SafeInv == TypeInv /\ ClaimInv /\ CompletionInv
-----------------------------------------------------------------------------
(* What a step of a handler does to the flags and to its own position. *)

LEMMA MovedFacts ==
  ASSUME TypeInv, NEW h \in Handler, NEW l \in Labels, NEW c \in Context,
         Step(h, l, c)
  PROVE  /\ Moved(h)
         /\ pc'[h] = l
         /\ ctx'[h] = c
BY StepFacts DEF TypeInv, TypeOK, Moved

LEMMA GotoFacts ==
  ASSUME TypeInv, NEW h \in Handler, NEW l \in Labels, Goto(h, l)
  PROVE  /\ Moved(h)
         /\ pc'[h] = l
         /\ ctx'[h] = ctx[h]
BY MovedFacts, HandlerFacts DEF Goto

LEMMA FinishFacts ==
  ASSUME TypeInv, NEW h \in Handler, Finish(h)
  PROVE  /\ Moved(h)
         /\ pc'[h] = "idle"
         /\ ctx'[h] = NoContext
BY MovedFacts, NoContextFacts DEF Finish, Labels

LEMMA ResumeFacts ==
  ASSUME TypeInv, NEW h \in Handler, Linear(h), NEW f \in Job \cup {NoJob},
         Resume(h, f)
  PROVE  /\ Moved(h)
         /\ pc'[h] \in {"launch", "advance"}
         /\ pc'[h] = "launch" => ctx[h].mode = "launch"
         /\ ctx'[h].mode = ctx[h].mode
         /\ ctx'[h].todo = ctx[h].todo
<1> DEFINE c == Settled(ctx[h], f)
<1>1. c \in Context /\ c.mode = ctx[h].mode /\ c.todo = ctx[h].todo
  BY HandlerFacts, SettledFacts
<1>2. /\ LoopOf(ctx[h].mode) \in {"launch", "advance"}
      /\ LoopOf(ctx[h].mode) = "launch" => ctx[h].mode = "launch"
  BY DEF LoopOf, Linear
<1>3. Step(h, LoopOf(ctx[h].mode), c)
  BY DEF Resume, Linear
<1> HIDE DEF c
<1> QED
  BY <1>1, <1>2, <1>3, MovedFacts DEF Labels

LEMMA ReturnFacts ==
  ASSUME TypeInv, NEW h \in Handler, Linear(h), Return(h)
  PROVE  /\ Moved(h)
         /\ pc'[h] \in {"launch", "advance"}
         /\ pc'[h] = "launch" => ctx[h].mode = "launch"
         /\ ctx'[h].mode = ctx[h].mode
         /\ ctx'[h].todo = ctx[h].todo
BY ResumeFacts, HandlerFacts DEF Return

LEMMA StartFailingFacts ==
  ASSUME TypeInv, NEW h \in Handler, NEW j \in Job \cup {NoJob},
         StartFailing(h, j)
  PROVE  /\ Moved(h)
         /\ pc'[h] = "failing"
         /\ ctx'[h].mode = "none"
<1> DEFINE c == Seeing(Starting(j, "failed"), completedAt)
<1>1. completedAt \in Handler \cup {NoStamp}
  BY DEF TypeInv, TypeOK
<1>2. Starting(j, "failed") \in Context /\ Starting(j, "failed").mode = "none"
  BY StartingFacts DEF Results
<1>3. c \in Context /\ c.mode = "none"
  BY <1>1, <1>2, SeeingFacts
<1>4. Step(h, "failing", c)
  BY DEF StartFailing
<1> HIDE DEF c
<1> QED
  BY <1>3, <1>4, MovedFacts DEF Labels

\* The flags are set and never cleared.
Kept ==
  /\ \A j \in Job : queued[j] => queued'[j]
  /\ \A j \in Job : completed[j] => completed'[j]

\* A step of h other than a claim and the add after it.
Ordinary(h) ==
  /\ Moved(h)
  /\ Linear(h)'
  /\ Kept
  /\ adds' = adds
  /\ pc'[h] # "add"
  /\ pc'[h] \in Completing => pc[h] \in Completing /\ ctx'[h].job = ctx[h].job

LEMMA LaunchOrdinary ==
  ASSUME TypeInv, NEW h \in Handler, Linear(h), Launch(h)
  PROVE  Ordinary(h)
<1> USE DEF Labels, Linear, Completing
<1>1. Kept /\ adds' = adds
  BY DEF Launch, Kept, flagVars
<1>2. ASSUME NEW j \in ctx[h].todo, Step(h, "queue", Consider(ctx[h], j, {}))
      PROVE  Ordinary(h)
  <2>1. j \in Job /\ {} \in SUBSET Job /\ ctx[h] \in Context
    BY HandlerFacts
  <2> QED
    BY <1>1, <1>2, <2>1, MovedFacts, ConsiderFacts DEF Ordinary
<1>3. CASE Goto(h, "load")
  BY <1>1, <1>3, GotoFacts DEF Ordinary
<1>4. CASE Finish(h)
  BY <1>1, <1>4, FinishFacts, NoContextFacts DEF Ordinary
<1> QED
  BY <1>2, <1>3, <1>4 DEF Launch

LEMMA JobOutput ==
  ASSUME TypeInv, NEW h \in Handler, pc[h] \in JobLabels
  PROVE  ctx[h].job \in Job /\ output[ctx[h].job] \in Recorded
BY HandlerFacts DEF TypeInv, TypeOK

LEMMA RecordOrdinary ==
  ASSUME NoTransitions, TypeInv, NEW h \in Handler, Linear(h),
         ReadOutput(h) \/ RecordOutput(h) \/ RecordResult(h) \/ RecordCompleted(h) \/ Route(h)
  PROVE  Ordinary(h)
<1> USE DEF Labels, Linear, Completing
<1>1. Kept /\ adds' = adds
  BY DEF ReadOutput, RecordOutput, RecordResult, RecordCompleted, Route, Kept, flagVars,
         TypeInv, TypeOK
<1>2. ASSUME NEW l \in {"output", "result"}, NEW o \in Recorded, Step(h, l, Holding(ctx[h], o)),
             pc[h] \in Completing
      PROVE  Ordinary(h)
  <2>1. /\ Holding(ctx[h], o) \in Context
        /\ Holding(ctx[h], o).job = ctx[h].job /\ Holding(ctx[h], o).mode = ctx[h].mode
    BY HandlerFacts, HoldingFacts
  <2> QED
    BY <1>1, <1>2, <2>1, MovedFacts DEF Ordinary
<1>3. CASE ReadOutput(h)
  BY <1>2, <1>3, JobOutput DEF ReadOutput, JobLabels
<1>4. CASE RecordOutput(h)
  BY <1>2, <1>4 DEF RecordOutput, Recorded
<1>5. CASE RecordResult(h)
  BY <1>1, <1>5, GotoFacts DEF RecordResult, Ordinary
<1>6. CASE RecordCompleted(h)
  BY <1>1, <1>6, GotoFacts DEF RecordCompleted, Ordinary
<1>7. CASE Route(h)
  <2>1. ctx[h].job \in Job
    BY <1>7, HandlerFacts DEF Route, JobLabels
  <2>2. LaterLevels(ctx[h].job) \in SUBSET Job /\ Transitions[ctx[h].job] = {}
    BY <2>1, GraphTypes DEF NoTransitions
  <2>3. Step(h, "advance", Advancing(ctx[h], LaterLevels(ctx[h].job)))
    BY <1>7, <2>2 DEF Route
  <2>4. /\ Advancing(ctx[h], LaterLevels(ctx[h].job)) \in Context
        /\ Advancing(ctx[h], LaterLevels(ctx[h].job)).mode = "dag"
    BY <2>2, HandlerFacts, AdvancingFacts
  <2> QED
    BY <1>1, <2>3, <2>4, MovedFacts DEF Ordinary
<1> QED
  BY <1>3, <1>4, <1>5, <1>6, <1>7

LEMMA DagOrdinary ==
  ASSUME TypeInv, NEW h \in Handler, Linear(h), DagStep(h)
  PROVE  Ordinary(h)
<1> USE DEF Labels, Linear, Completing
<1>1. Kept /\ adds' = adds
  BY DEF DagStep, FinishLevel, Advance, ReadNeeds, ReadBlocked, TestCondition,
         SkipOutput, SkipResult, SkipCompleted, Kept, flagVars, TypeInv, TypeOK
<1>2. ASSUME NEW l \in {"skipResult", "skipCompleted", "skipOutput", "queue", "condition"},
             Goto(h, l)
      PROVE  Ordinary(h)
  BY <1>1, <1>2, GotoFacts DEF Ordinary
<1>3. CASE Return(h)
  BY <1>1, <1>3, ReturnFacts DEF Ordinary
<1>4. ASSUME NEW l \in {"scan", "blocked", "needs", "queue", "condition"},
             NEW S \in SUBSET Job, Step(h, l, Unread(ctx[h], S))
      PROVE  Ordinary(h)
  BY <1>1, <1>4, MovedFacts, UnreadFacts, HandlerFacts DEF Ordinary
<1>5. CASE FinishLevel(h)
  BY <1>1, <1>5, MovedFacts, WithFirstFacts, HandlerFacts DEF FinishLevel, Ordinary
<1>6. CASE Advance(h)
  <2>1. ASSUME NEW j \in ctx[h].todo,
               Step(h, FirstRead(j), Consider(ctx[h], j, DependsOn(j)))
        PROVE  Ordinary(h)
    <3>1. /\ j \in Job
          /\ DependsOn(j) \in SUBSET Job
          /\ FirstRead(j) \in {"queue", "condition", "needs"}
          /\ ctx[h] \in Context
      BY HandlerFacts, GraphTypes
    <3> QED
      BY <1>1, <2>1, <3>1, MovedFacts, ConsiderFacts DEF Ordinary
  <2> QED
    BY <1>4, <1>6, <2>1 DEF Advance
<1>7. CASE ReadNeeds(h)
  <2>1. /\ ctx[h].cand \in Job
        /\ AfterNeeds(ctx[h].cand) \in {"queue", "condition"}
        /\ NeedIds(ctx[h].cand) \in SUBSET Job
    BY <1>7, HandlerFacts, GraphTypes DEF ReadNeeds, CandidateLabels
  <2>2. ASSUME NEW d \in ctx[h].unread
        PROVE  ctx[h].unread \ {d} \in SUBSET Job
    BY HandlerFacts
  <2>3. ASSUME NEW d \in ctx[h].unread, NEW l \in {"needs", "queue", "condition"},
               Step(h, l, Unread(ctx[h], ctx[h].unread \ {d}))
        PROVE  Ordinary(h)
    BY <1>4, <2>2, <2>3
  <2>4. CASE Step(h, "blocked", Unread(ctx[h], NeedIds(ctx[h].cand)))
    BY <1>4, <2>1, <2>4
  <2>5. CASE Goto(h, AfterNeeds(ctx[h].cand))
    BY <1>2, <2>1, <2>5
  <2> QED
    BY <1>3, <1>7, <2>1, <2>3, <2>4, <2>5 DEF ReadNeeds
<1>8. CASE ReadBlocked(h)
  <2>1. ASSUME NEW d \in ctx[h].unread
        PROVE  ctx[h].unread \ {d} \in SUBSET Job
    BY HandlerFacts
  <2>2. ASSUME NEW d \in ctx[h].unread,
               Step(h, "blocked", Unread(ctx[h], ctx[h].unread \ {d}))
        PROVE  Ordinary(h)
    BY <1>4, <2>1, <2>2
  <2>3. CASE Goto(h, "skipOutput")
    BY <1>2, <2>3
  <2> QED
    BY <1>3, <1>8, <2>2, <2>3 DEF ReadBlocked
<1>9. CASE TestCondition(h)
  BY <1>2, <1>9 DEF TestCondition
<1>10. CASE SkipOutput(h)
  BY <1>2, <1>10 DEF SkipOutput
<1>11. CASE SkipResult(h)
  BY <1>2, <1>11 DEF SkipResult
<1>12. CASE SkipCompleted(h)
  BY <1>3, <1>12 DEF SkipCompleted
<1> QED
  BY <1>5, <1>6, <1>7, <1>8, <1>9, <1>10, <1>11, <1>12 DEF DagStep

LEMMA NoBranch ==
  ASSUME TypeInv, NEW h \in Handler, Linear(h)
  PROVE  ~BranchStep(h)
BY DEF BranchStep, Exclude, Include, NextInBranch, EnterTarget, ClearQueued,
       ClearCompleted, MoveStep, Linear

LEMMA EndOrdinary ==
  ASSUME TypeInv, NEW h \in Handler, Linear(h),
         EndStep(h) \/ CancelStep(h) \/ StartCancel(h)
  PROVE  Ordinary(h)
<1> USE DEF Labels, Linear, Completing
<1>1. Kept /\ adds' = adds
  BY DEF EndStep, Scan, LoadRun, CompleteRun, HandOver, GateLoopFailure, FailRun,
         CloseRun, CancelStep, CancelKill, CancelLoad, CancelWrite, CancelPurge,
         StartCancel, Kept, flagVars
<1>2. ASSUME NEW l \in {"load", "handover", "close", "cancelKill", "cancelLoad",
                       "cancelPurge"},
             Goto(h, l)
      PROVE  Ordinary(h)
  BY <1>1, <1>2, GotoFacts DEF Ordinary
<1>3. CASE Finish(h)
  BY <1>1, <1>3, FinishFacts, NoContextFacts DEF Ordinary
<1>4. ASSUME NEW l \in {"complete", "cancelWrite"},
             Step(h, l, Seeing(ctx[h], completedAt))
      PROVE  Ordinary(h)
  <2>1. completedAt \in Handler \cup {NoStamp}
    BY DEF TypeInv, TypeOK
  <2> QED
    BY <1>1, <1>4, <2>1, MovedFacts, SeeingFacts, HandlerFacts DEF Ordinary
<1>5. ASSUME NEW S \in SUBSET Job, Step(h, "scan", Unread(ctx[h], S))
      PROVE  Ordinary(h)
  BY <1>1, <1>5, MovedFacts, UnreadFacts, HandlerFacts DEF Ordinary
<1>6. CASE StartFailing(h, ctx[h].job)
  BY <1>1, <1>6, StartFailingFacts, HandlerFacts DEF Ordinary
<1>7. CASE EndStep(h)
  <2>1. ASSUME NEW d \in ctx[h].unread
        PROVE  ctx[h].unread \ {d} \in SUBSET Job
    BY HandlerFacts
  <2>2. CASE Scan(h)
    <3>1. CASE Goto(h, "load")
      BY <1>2, <3>1
    <3>2. ASSUME NEW d \in ctx[h].unread,
                 Step(h, "scan", Unread(ctx[h], ctx[h].unread \ {d}))
          PROVE  Ordinary(h)
      BY <1>5, <2>1, <3>2
    <3> QED
      BY <1>3, <2>2, <3>1, <3>2 DEF Scan
  <2>3. CASE LoadRun(h)
    BY <1>4, <2>3 DEF LoadRun
  <2>4. CASE CompleteRun(h)
    BY <1>2, <1>3, <2>4 DEF CompleteRun
  <2>5. CASE HandOver(h)
    BY <1>3, <2>5 DEF HandOver
  <2>6. CASE GateLoopFailure(h)
    BY <1>3, <1>6, <2>6 DEF GateLoopFailure
  <2>7. CASE FailRun(h)
    BY <1>2, <2>7 DEF FailRun
  <2>8. CASE CloseRun(h)
    BY <1>2, <2>8 DEF CloseRun
  <2> QED
    BY <1>7, <2>2, <2>3, <2>4, <2>5, <2>6, <2>7, <2>8 DEF EndStep
<1>8. CASE CancelStep(h)
  <2>1. CASE CancelKill(h)
    BY <1>2, <2>1 DEF CancelKill
  <2>2. CASE CancelLoad(h)
    BY <1>4, <2>2 DEF CancelLoad
  <2>3. CASE CancelWrite(h)
    BY <1>2, <2>3 DEF CancelWrite
  <2>4. CASE CancelPurge(h)
    BY <1>3, <2>4 DEF CancelPurge
  <2> QED
    BY <1>8, <2>1, <2>2, <2>3, <2>4 DEF CancelStep
<1>9. CASE StartCancel(h)
  BY <1>2, <1>9 DEF StartCancel
<1> QED
  BY <1>7, <1>8, <1>9

LEMMA GateOrdinary ==
  ASSUME TypeInv, NEW h \in Handler, NEW t \in triggers, Linear(h), Gate(h, t)
  PROVE  Ordinary(h)
<1> USE DEF Labels, Linear, Completing
<1>1. Kept /\ adds' = adds
  BY DEF Gate, GateCompletion, GateFailure, Salvage, Kept, flagVars
<1>2. t.job \in Job /\ t.result \in Results /\ pc[h] = "idle"
  BY TriggerFacts DEF TypeInv, TypeOK, Gate, GateCompletion, GateFailure, Salvage
<1>3. CASE UNCHANGED <<pc, ctx>>
  BY <1>1, <1>2, <1>3 DEF Ordinary, Moved
<1>4. CASE Step(h, "claim", Starting(t.job, t.result))
  BY <1>1, <1>2, <1>4, MovedFacts, StartingFacts DEF Ordinary
<1>5. CASE StartFailing(h, t.job)
  BY <1>1, <1>2, <1>5, StartFailingFacts DEF Ordinary
<1> QED
  BY <1>3, <1>4, <1>5 DEF Gate, GateCompletion, GateFailure, Salvage

\* The three claiming steps: the two conditional updates that succeed, and the
\* add that follows the first of them.
Claims(h) ==
  /\ Moved(h)
  /\ Linear(h)'
  /\ pc[h] = "queue" /\ pc'[h] = "add"
  /\ ctx[h].cand \in Job /\ ctx'[h].cand = ctx[h].cand
  /\ ~queued[ctx[h].cand]
  /\ queued' = [queued EXCEPT ![ctx[h].cand] = TRUE]
  /\ UNCHANGED <<completed, adds>>

Adds(h) ==
  /\ Moved(h)
  /\ Linear(h)'
  /\ pc[h] = "add" /\ pc'[h] \in {"launch", "advance"}
  /\ ctx[h].cand \in Job
  /\ adds' = [adds EXCEPT ![ctx[h].cand] = @ + 1]
  /\ UNCHANGED <<queued, completed>>

Completes(h) ==
  /\ Moved(h)
  /\ Linear(h)'
  /\ pc[h] = "claim" /\ pc'[h] = "existing"
  /\ ctx[h].job \in Job /\ ctx'[h] = ctx[h]
  /\ ~completed[ctx[h].job]
  /\ completed' = [completed EXCEPT ![ctx[h].job] = TRUE]
  /\ UNCHANGED <<queued, adds>>

LEMMA QueueClaims ==
  ASSUME TypeInv, NEW h \in Handler, Linear(h), Queue(h)
  PROVE  Ordinary(h) \/ Claims(h)
<1> USE DEF Labels, Linear, Completing
<1> DEFINE first == IF ctx[h].mode = "dag" /\ ctx[h].first = NoJob
                    THEN ctx[h].cand ELSE ctx[h].first
<1>1. ctx[h].cand \in Job /\ ctx[h].first \in Job \cup {NoJob} /\ ctx[h] \in Context
  BY HandlerFacts DEF Queue, CandidateLabels
<1>2. first \in Job \cup {NoJob}
  BY <1>1
<1>3. /\ pc[h] = "queue"
      /\ completed' = completed
      /\ adds' = adds
      /\ \/ /\ ~queued[ctx[h].cand]
            /\ queued' = [queued EXCEPT ![ctx[h].cand] = TRUE]
            /\ Step(h, "add", WithFirst(ctx[h], first))
         \/ /\ Resume(h, first)
            /\ queued' = queued
  BY DEF Queue, Claimable
<1> HIDE DEF first
<1>4. CASE Resume(h, first) /\ queued' = queued
  BY <1>2, <1>3, <1>4, ResumeFacts DEF Ordinary, Kept
<1>5. CASE /\ ~queued[ctx[h].cand]
           /\ queued' = [queued EXCEPT ![ctx[h].cand] = TRUE]
           /\ Step(h, "add", WithFirst(ctx[h], first))
  <2>1. /\ WithFirst(ctx[h], first) \in Context
        /\ WithFirst(ctx[h], first).cand = ctx[h].cand
        /\ WithFirst(ctx[h], first).mode = ctx[h].mode
    BY <1>1, <1>2, WithFirstFacts
  <2>2. Moved(h) /\ pc'[h] = "add" /\ ctx'[h] = WithFirst(ctx[h], first)
    BY <1>5, <2>1, MovedFacts
  <2> QED
    BY <1>1, <1>3, <1>5, <2>1, <2>2 DEF Claims
<1> QED
  BY <1>3, <1>4, <1>5

LEMMA AddAdds ==
  ASSUME TypeInv, NEW h \in Handler, Linear(h), Add(h)
  PROVE  Ordinary(h) \/ Adds(h)
<1> USE DEF Labels, Linear, Completing
<1>1. ctx[h].cand \in Job
  BY HandlerFacts DEF Add, CandidateLabels
<1>2. /\ Moved(h)
      /\ pc'[h] \in {"launch", "advance"}
      /\ ctx'[h].mode = ctx[h].mode
  BY ReturnFacts DEF Add
<1>3. /\ pc[h] = "add"
      /\ queued' = queued
      /\ completed' = completed
      /\ adds' = adds \/ adds' = [adds EXCEPT ![ctx[h].cand] = @ + 1]
  BY DEF Add, flagVars
<1> QED
  BY <1>1, <1>2, <1>3 DEF Ordinary, Adds, Kept

LEMMA CompletionCompletes ==
  ASSUME TypeInv, NEW h \in Handler, Linear(h), ClaimCompletion(h)
  PROVE  Ordinary(h) \/ Completes(h)
<1> USE DEF Labels, Linear, Completing
<1>1. ctx[h].job \in Job /\ pc[h] = "claim" /\ queued' = queued /\ adds' = adds
  BY HandlerFacts DEF ClaimCompletion, JobLabels
<1>2. CASE Finish(h) /\ completed' = completed
  BY <1>1, <1>2, FinishFacts, NoContextFacts DEF Ordinary, Kept
<1>3. CASE /\ ~completed[ctx[h].job]
           /\ completed' = [completed EXCEPT ![ctx[h].job] = TRUE]
           /\ Goto(h, "existing")
  BY <1>1, <1>3, GotoFacts DEF Completes
<1> QED
  BY <1>2, <1>3 DEF ClaimCompletion, Claimable

\* Every step of a handler is one of the four kinds.
LEMMA StepKinds ==
  ASSUME NoTransitions, TypeInv, NEW h \in Handler, Linear(h),
         HandlerStep(h) \/ StartCancel(h)
  PROVE  Ordinary(h) \/ Claims(h) \/ Adds(h) \/ Completes(h)
<1>1. CASE Launch(h) \/ Queue(h) \/ Add(h)
  BY <1>1, LaunchOrdinary, QueueClaims, AddAdds
<1>2. CASE Completion(h)
  BY <1>2, RecordOrdinary, CompletionCompletes DEF Completion
<1>3. CASE DagStep(h)
  BY <1>3, DagOrdinary
<1>4. CASE EndStep(h) \/ CancelStep(h) \/ StartCancel(h)
  BY <1>4, EndOrdinary
<1> QED
  BY <1>1, <1>2, <1>3, <1>4, NoBranch DEF HandlerStep

LEMMA WorkIdle ==
  ASSUME NEW j \in Job, Work(j)
  PROVE  UNCHANGED <<runVars, flagVars, pc, ctx, adds>>
BY DEF Work, Dispatch, StartExecution, DispatchFails, Execution, StartSaving, ReadRecorded,
       PersistJobOutput, AgentEnds, AgentDies, SpecialEnds, SpecialDies, Ended
-----------------------------------------------------------------------------
(* The claim of the queued flag *)

LEMMA ClaimStep ==
  ASSUME TypeInv, ClaimInv, NEW h \in Handler,
         Ordinary(h) \/ Claims(h) \/ Adds(h) \/ Completes(h)
  PROVE  ClaimInv'
<1>1. /\ queued \in [Job -> BOOLEAN]
      /\ adds \in [Job -> Nat]
      /\ \A g \in Handler : pc[g] = "add" => ctx[g].cand \in Job
  BY HandlerFacts DEF TypeInv, TypeOK, CandidateLabels
<1>2. Moved(h) /\ Linear(h)'
  BY DEF Ordinary, Claims, Adds, Completes
<1>3. \A g \in Handler : Linear(g)'
  BY <1>2 DEF Moved, Linear, ClaimInv
<1>4. CASE Ordinary(h)
  BY <1>1, <1>2, <1>3, <1>4 DEF Ordinary, Kept, Moved, ClaimInv
<1>5. CASE Claims(h)
  BY <1>1, <1>2, <1>3, <1>5 DEF Claims, Moved, ClaimInv
<1>6. CASE Adds(h)
  BY <1>1, <1>2, <1>3, <1>6 DEF Adds, Moved, ClaimInv
<1>7. CASE Completes(h)
  BY <1>1, <1>2, <1>3, <1>7 DEF Completes, Moved, ClaimInv
<1> QED
  BY <1>4, <1>5, <1>6, <1>7

LEMMA CompletionStep ==
  ASSUME TypeInv, CompletionInv, NEW h \in Handler,
         Ordinary(h) \/ Claims(h) \/ Adds(h) \/ Completes(h)
  PROVE  CompletionInv'
<1> USE DEF Completing, CompletionInv, OneCompletionPerJob
<1>1. /\ completed \in [Job -> BOOLEAN]
      /\ \A g \in Handler : pc[g] \in Completing => ctx[g].job \in Job
  BY HandlerFacts DEF TypeInv, TypeOK, JobLabels
<1>2. CASE Ordinary(h)
  BY <1>1, <1>2 DEF Ordinary, Kept, Moved
<1>3. CASE Claims(h) \/ Adds(h)
  BY <1>1, <1>3 DEF Claims, Adds, Moved
<1>4. CASE Completes(h)
  BY <1>1, <1>4 DEF Completes, Moved
<1> QED
  BY <1>2, <1>3, <1>4

LEMMA InitSafe == Init => SafeInv
<1> SUFFICES ASSUME Init PROVE SafeInv
  OBVIOUS
<1>1. TypeInv
  BY InitTypes
<1>2. \A h \in Handler : Linear(h) /\ pc[h] \in {"launch", "idle"}
  BY DEF Init, Linear, NoContext
<1>3. adds = [j \in Job |-> 0]
  BY DEF Init
<1> QED
  BY <1>1, <1>2, <1>3 DEF SafeInv, ClaimInv, CompletionInv, OneCompletionPerJob,
                          Completing

LEMMA NextSafe ==
  ASSUME NoTransitions, SafeInv, [Next]_vars
  PROVE  SafeInv'
<1> USE DEF SafeInv
<1>1. TypeInv'
  BY StepTypes
<1>2. ASSUME NEW h \in Handler, HandlerStep(h) \/ StartCancel(h)
      PROVE  SafeInv'
  <2>1. Linear(h)
    BY DEF ClaimInv
  <2>2. Ordinary(h) \/ Claims(h) \/ Adds(h) \/ Completes(h)
    BY <1>2, <2>1, StepKinds
  <2> QED
    BY <1>1, <2>2, ClaimStep, CompletionStep
<1>3. ASSUME NEW h \in Handler, NEW t \in triggers, Gate(h, t)
      PROVE  SafeInv'
  <2>1. Ordinary(h)
    BY <1>3, GateOrdinary DEF ClaimInv
  <2> QED
    BY <1>1, <2>1, ClaimStep, CompletionStep
<1>4. ASSUME UNCHANGED <<runVars, flagVars, pc, ctx, adds>>
      PROVE  SafeInv'
  BY <1>1, <1>4 DEF ClaimInv, CompletionInv, OneCompletionPerJob, Linear, flagVars
<1>5. ASSUME NEW j \in Job, Work(j)
      PROVE  SafeInv'
  BY <1>4, <1>5, WorkIdle
<1>6. CASE UNCHANGED vars
  BY <1>4, <1>6 DEF vars
<1> QED
  BY <1>2, <1>3, <1>5, <1>6 DEF Next, Over

\* However completions, failures and cancellations interleave, enqueueJob puts a
\* job of a definition without transitions on the step queue at most once: of the
\* handlers that find it eligible, one gets the queued flag.
THEOREM DispatchedOnceHolds ==
  ASSUME NoTransitions
  PROVE  Spec => []DispatchedOnce
<1>1. Init => SafeInv
  BY InitSafe
<1>2. SafeInv /\ [Next]_vars => SafeInv'
  BY NextSafe
<1>3. SafeInv => DispatchedOnce
  BY DEF SafeInv, ClaimInv, DispatchedOnce
<1> QED
  BY <1>1, <1>2, <1>3, PTL DEF Spec

\* Of the triggers that report the end of one job, one handler at most records its
\* output and routes on: tryMarkJobCompleted lets no second one pass.
THEOREM OneCompletionHolds ==
  ASSUME NoTransitions
  PROVE  Spec => []OneCompletionPerJob
<1>1. Init => SafeInv
  BY InitSafe
<1>2. SafeInv /\ [Next]_vars => SafeInv'
  BY NextSafe
<1>3. SafeInv => OneCompletionPerJob
  BY DEF SafeInv, CompletionInv
<1> QED
  BY <1>1, <1>2, <1>3, PTL DEF Spec
-----------------------------------------------------------------------------
(* Where a step of a handler leads: what has been read by then. *)

ScanHead(h) ==
  /\ pc'[h] = "scan" =>
       \/ ctx'[h].unread = Job
       \/ /\ pc[h] = "scan"
          /\ \E d \in Job : completed[d] /\ ctx'[h].unread = ctx[h].unread \ {d}
  /\ pc'[h] = "load" => pc[h] = "scan" /\ ctx[h].unread = {}
  /\ pc'[h] = "complete" => pc[h] = "load"

\* The reads that let a candidate through.
Cleared(h) ==
  /\ pc[h] = "needs"
  /\ ctx'[h].cand = ctx[h].cand
  /\ \/ ctx[h].cand \in Strict /\ NeedsSatisfied(ctx[h].cand)
     \/ /\ ctx[h].cand \notin Strict
        /\ \E d \in Job : completed[d] /\ ctx[h].unread = {d}

NeedsHead(h) ==
  /\ pc'[h] = "needs" =>
       \/ ctx'[h].unread = DependsOn(ctx'[h].cand)
       \/ /\ pc[h] = "needs"
          /\ ctx'[h].cand = ctx[h].cand
          /\ \E d \in Job : completed[d] /\ ctx'[h].unread = ctx[h].unread \ {d}
  /\ pc'[h] \in {"condition", "queue", "add"} =>
       \/ pc[h] \in {"condition", "queue"} /\ ctx'[h].cand = ctx[h].cand
       \/ DependsOn(ctx'[h].cand) = {}
       \/ pc[h] = "launch" /\ ctx'[h].cand \in ctx[h].todo
       \/ Cleared(h)

LaunchHead(h) ==
  /\ pc'[h] = "launch" => ctx'[h].mode = "launch"
  /\ ctx'[h].mode = "launch" => ctx[h].mode = "launch" /\ ctx'[h].todo \subseteq ctx[h].todo

Heads(h) == Moved(h) /\ ScanHead(h) /\ NeedsHead(h) /\ LaunchHead(h)

PlainLabels == Labels \ {"scan", "load", "complete", "needs", "condition", "queue",
                         "add", "launch"}

LEMMA GotoHeads ==
  ASSUME TypeInv, NEW h \in Handler, NEW l \in PlainLabels, Goto(h, l)
  PROVE  Heads(h)
BY GotoFacts DEF Heads, ScanHead, NeedsHead, LaunchHead, PlainLabels

LEMMA FinishHeads ==
  ASSUME TypeInv, NEW h \in Handler, Finish(h)
  PROVE  Heads(h)
BY FinishFacts, NoContextFacts DEF Heads, ScanHead, NeedsHead, LaunchHead

LEMMA ReturnHeads ==
  ASSUME TypeInv, NEW h \in Handler, Linear(h), NEW f \in Job \cup {NoJob},
         Resume(h, f)
  PROVE  Heads(h)
BY ResumeFacts DEF Heads, ScanHead, NeedsHead, LaunchHead

LEMMA StepHeads ==
  ASSUME TypeInv, NEW h \in Handler, NEW l \in PlainLabels, NEW c \in Context,
         Step(h, l, c),
         c.mode = "launch" => ctx[h].mode = "launch" /\ c.todo = ctx[h].todo
  PROVE  Heads(h)
<1>1. Moved(h) /\ pc'[h] = l /\ ctx'[h] = c
  BY MovedFacts DEF PlainLabels
<1> QED
  BY <1>1 DEF Heads, ScanHead, NeedsHead, LaunchHead, PlainLabels

LEMMA LaunchHeads ==
  ASSUME InitialJobs # {}, TypeInv, NEW h \in Handler, Linear(h),
         Launch(h) \/ Queue(h) \/ Add(h)
  PROVE  Heads(h)
<1>1. CASE Launch(h)
  <2>1. ASSUME NEW j \in ctx[h].todo, Step(h, "queue", Consider(ctx[h], j, {})),
               pc[h] = "launch"
        PROVE  Heads(h)
    <3>1. j \in Job /\ {} \in SUBSET Job /\ ctx[h] \in Context /\ "queue" \in Labels
      BY HandlerFacts DEF Labels
    <3>2. /\ Moved(h)
          /\ pc'[h] = "queue"
          /\ ctx'[h] = Consider(ctx[h], j, {})
          /\ Consider(ctx[h], j, {}).cand = j
          /\ Consider(ctx[h], j, {}).todo = ctx[h].todo \ {j}
          /\ Consider(ctx[h], j, {}).mode = ctx[h].mode
      BY <2>1, <3>1, MovedFacts, ConsiderFacts
    <3> QED
      BY <2>1, <3>2 DEF Heads, ScanHead, NeedsHead, LaunchHead
  <2> QED
    BY <1>1, <2>1, FinishHeads DEF Launch
<1>2. CASE Queue(h)
  <2> DEFINE first == IF ctx[h].mode = "dag" /\ ctx[h].first = NoJob
                      THEN ctx[h].cand ELSE ctx[h].first
  <2>1. first \in Job \cup {NoJob} /\ ctx[h] \in Context /\ "add" \in Labels
    BY HandlerFacts DEF Labels
  <2>2. /\ pc[h] = "queue"
        /\ Step(h, "add", WithFirst(ctx[h], first)) \/ Resume(h, first)
    BY <1>2 DEF Queue
  <2> HIDE DEF first
  <2>3. CASE Step(h, "add", WithFirst(ctx[h], first))
    <3>1. /\ Moved(h)
          /\ pc'[h] = "add"
          /\ ctx'[h] = WithFirst(ctx[h], first)
          /\ WithFirst(ctx[h], first).cand = ctx[h].cand
          /\ WithFirst(ctx[h], first).todo = ctx[h].todo
          /\ WithFirst(ctx[h], first).mode = ctx[h].mode
      BY <2>1, <2>3, MovedFacts, WithFirstFacts
    <3> QED
      BY <2>2, <3>1 DEF Heads, ScanHead, NeedsHead, LaunchHead
  <2> QED
    BY <2>1, <2>2, <2>3, ReturnHeads
<1>3. CASE Add(h)
  BY <1>3, ReturnHeads, HandlerFacts DEF Add, Return
<1> QED
  BY <1>1, <1>2, <1>3

LEMMA CompletionHeads ==
  ASSUME NoTransitions, TypeInv, NEW h \in Handler, Linear(h), Completion(h)
  PROVE  Heads(h)
<1> USE DEF PlainLabels, Labels
<1>1. CASE ClaimCompletion(h)
  BY <1>1, GotoHeads, FinishHeads DEF ClaimCompletion
<1>2. CASE RecordResult(h) \/ RecordCompleted(h)
  BY <1>2, GotoHeads DEF RecordResult, RecordCompleted
<1>3. ASSUME NEW l \in {"output", "result"}, NEW o \in Recorded, Step(h, l, Holding(ctx[h], o))
      PROVE  Heads(h)
  <2>1. /\ Holding(ctx[h], o) \in Context
        /\ Holding(ctx[h], o).todo = ctx[h].todo /\ Holding(ctx[h], o).mode = ctx[h].mode
    BY HandlerFacts, HoldingFacts
  <2> QED
    BY <1>3, <2>1, StepHeads
<1>4. CASE ReadOutput(h) \/ RecordOutput(h)
  BY <1>3, <1>4, JobOutput DEF ReadOutput, RecordOutput, JobLabels, Recorded
<1>5. CASE Route(h)
  <2>1. ctx[h].job \in Job
    BY <1>5, HandlerFacts DEF Route, JobLabels
  <2>2. LaterLevels(ctx[h].job) \in SUBSET Job /\ Transitions[ctx[h].job] = {}
    BY <2>1, GraphTypes DEF NoTransitions
  <2>3. Step(h, "advance", Advancing(ctx[h], LaterLevels(ctx[h].job)))
    BY <1>5, <2>2 DEF Route
  <2>4. /\ Advancing(ctx[h], LaterLevels(ctx[h].job)) \in Context
        /\ Advancing(ctx[h], LaterLevels(ctx[h].job)).mode = "dag"
    BY <2>2, HandlerFacts, AdvancingFacts
  <2> QED
    BY <2>3, <2>4, StepHeads
<1> QED
  BY <1>1, <1>2, <1>4, <1>5 DEF Completion

LEMMA DagHeads ==
  ASSUME TypeInv, NEW h \in Handler, Linear(h), DagStep(h)
  PROVE  Heads(h)
<1> USE HandlerFacts
<1>1. CASE FinishLevel(h)
  BY <1>1, StepHeads, WithFirstFacts DEF FinishLevel, PlainLabels, Labels
<1>2. CASE Advance(h)
  <2>1. ASSUME NEW j \in ctx[h].todo,
               Step(h, FirstRead(j), Consider(ctx[h], j, DependsOn(j)))
        PROVE  Heads(h)
    <3> DEFINE c == Consider(ctx[h], j, DependsOn(j))
    <3>1. j \in Job /\ DependsOn(j) \in SUBSET Job /\ FirstRead(j) \in Labels
      BY GraphTypes DEF Labels
    <3>2. /\ c \in Context
          /\ c.cand = j
          /\ c.unread = DependsOn(j)
          /\ c.todo = ctx[h].todo \ {j}
          /\ c.mode = ctx[h].mode
      BY <3>1, ConsiderFacts
    <3>3. Moved(h) /\ pc'[h] = FirstRead(j) /\ ctx'[h] = c
      BY <2>1, <3>1, <3>2, MovedFacts
    <3>4. /\ FirstRead(j) \in {"queue", "condition", "needs"}
          /\ FirstRead(j) # "needs" => DependsOn(j) = {}
      BY <3>1, GraphTypes DEF FirstRead
    <3> HIDE DEF c
    <3> QED
      BY <3>2, <3>3, <3>4 DEF Heads, ScanHead, NeedsHead, LaunchHead
  <2>2. CASE Step(h, "scan", Unread(ctx[h], Job))
    <3>1. /\ Moved(h)
          /\ pc'[h] = "scan"
          /\ ctx'[h].unread = Job
          /\ ctx'[h].todo = ctx[h].todo
          /\ ctx'[h].mode = ctx[h].mode
      BY <2>2, MovedFacts, UnreadFacts DEF Labels
    <3> QED
      BY <3>1 DEF Heads, ScanHead, NeedsHead, LaunchHead
  <2> QED
    BY <1>2, <2>1, <2>2 DEF Advance
<1>3. CASE ReadNeeds(h)
  <2> DEFINE j == ctx[h].cand
  <2>1. /\ pc[h] = "needs"
        /\ j \in Job
        /\ AfterNeeds(j) \in {"queue", "condition"}
        /\ NeedIds(j) \in SUBSET Job
    BY <1>3, GraphTypes DEF ReadNeeds, CandidateLabels
  <2>2. CASE /\ j \in Strict
             /\ NeedsSatisfied(j)
             /\ Goto(h, AfterNeeds(j))
    <3>1. Moved(h) /\ pc'[h] = AfterNeeds(j) /\ ctx'[h] = ctx[h]
      BY <2>1, <2>2, GotoFacts DEF Labels
    <3> QED
      BY <2>1, <2>2, <3>1 DEF Heads, ScanHead, NeedsHead, LaunchHead, Cleared
  <2>3. CASE Step(h, "blocked", Unread(ctx[h], NeedIds(j)))
    BY <2>1, <2>3, StepHeads, UnreadFacts DEF PlainLabels, Labels
  <2>4. ASSUME NEW d \in ctx[h].unread, j \notin Strict, completed[d],
               Step(h, IF ctx[h].unread = {d} THEN AfterNeeds(j) ELSE "needs",
                       Unread(ctx[h], ctx[h].unread \ {d}))
        PROVE  Heads(h)
    <3> DEFINE l == IF ctx[h].unread = {d} THEN AfterNeeds(j) ELSE "needs"
    <3>1. ctx[h].unread \ {d} \in SUBSET Job /\ d \in Job /\ l \in Labels
      BY <2>1 DEF Labels
    <3>2. /\ l \in {"needs", "queue", "condition"}
          /\ l # "needs" => ctx[h].unread = {d}
      BY <2>1
    <3> HIDE DEF l
    <3>3. /\ Moved(h)
          /\ pc'[h] = l
          /\ ctx'[h].cand = j
          /\ ctx'[h].unread = ctx[h].unread \ {d}
          /\ ctx'[h].todo = ctx[h].todo
          /\ ctx'[h].mode = ctx[h].mode
      BY <2>4, <3>1, MovedFacts, UnreadFacts DEF l
    <3> QED
      BY <2>1, <2>4, <3>1, <3>2, <3>3 DEF Heads, ScanHead, NeedsHead, LaunchHead, Cleared
  <2>5. CASE Return(h)
    BY <2>5, ReturnHeads DEF Return
  <2> QED
    BY <1>3, <2>2, <2>3, <2>4, <2>5 DEF ReadNeeds
<1>4. CASE ReadBlocked(h)
  <2>1. CASE Goto(h, "skipOutput")
    BY <2>1, GotoHeads DEF PlainLabels, Labels
  <2>2. ASSUME NEW d \in ctx[h].unread,
               Step(h, "blocked", Unread(ctx[h], ctx[h].unread \ {d}))
        PROVE  Heads(h)
    <3>1. ctx[h].unread \ {d} \in SUBSET Job
      OBVIOUS
    <3> QED
      BY <2>2, <3>1, StepHeads, UnreadFacts DEF PlainLabels, Labels
  <2>3. CASE Return(h)
    BY <2>3, ReturnHeads DEF Return
  <2> QED
    BY <1>4, <2>1, <2>2, <2>3 DEF ReadBlocked
<1>5. CASE TestCondition(h)
  <2>1. CASE Goto(h, "skipOutput")
    BY <2>1, GotoHeads DEF PlainLabels, Labels
  <2>2. CASE Goto(h, "queue")
    <3>1. Moved(h) /\ pc'[h] = "queue" /\ ctx'[h] = ctx[h]
      BY <2>2, GotoFacts DEF Labels
    <3> QED
      BY <1>5, <3>1 DEF TestCondition, Heads, ScanHead, NeedsHead, LaunchHead
  <2> QED
    BY <1>5, <2>1, <2>2 DEF TestCondition
<1>6. CASE SkipOutput(h) \/ SkipResult(h)
  BY <1>6, GotoHeads DEF SkipOutput, SkipResult, PlainLabels, Labels
<1>7. CASE SkipCompleted(h)
  BY <1>7, ReturnHeads DEF SkipCompleted, Return
<1> QED
  BY <1>1, <1>2, <1>3, <1>4, <1>5, <1>6, <1>7 DEF DagStep

LEMMA EndHeads ==
  ASSUME TypeInv, NEW h \in Handler, Linear(h),
         EndStep(h) \/ CancelStep(h) \/ StartCancel(h)
  PROVE  Heads(h)
<1> USE HandlerFacts DEF PlainLabels, Labels
<1>1. completedAt \in Handler \cup {NoStamp}
  BY DEF TypeInv, TypeOK
<1>2. /\ Seeing(ctx[h], completedAt) \in Context
      /\ Seeing(ctx[h], completedAt).todo = ctx[h].todo
      /\ Seeing(ctx[h], completedAt).mode = ctx[h].mode
  BY <1>1, SeeingFacts
<1>3. CASE StartFailing(h, ctx[h].job)
  BY <1>3, StartFailingFacts DEF Heads, ScanHead, NeedsHead, LaunchHead
<1>4. CASE Scan(h)
  <2>1. CASE ctx[h].unread = {} /\ Goto(h, "load")
    <3>1. Moved(h) /\ pc'[h] = "load" /\ ctx'[h] = ctx[h]
      BY <2>1, GotoFacts
    <3> QED
      BY <1>4, <2>1, <3>1 DEF Scan, Heads, ScanHead, NeedsHead, LaunchHead
  <2>2. ASSUME NEW j \in ctx[h].unread, completed[j], pc[h] = "scan",
               Step(h, "scan", Unread(ctx[h], ctx[h].unread \ {j}))
        PROVE  Heads(h)
    <3>1. ctx[h].unread \ {j} \in SUBSET Job /\ j \in Job
      OBVIOUS
    <3>2. /\ Moved(h)
          /\ pc'[h] = "scan"
          /\ ctx'[h].unread = ctx[h].unread \ {j}
          /\ ctx'[h].todo = ctx[h].todo
          /\ ctx'[h].mode = ctx[h].mode
      BY <2>2, <3>1, MovedFacts, UnreadFacts
    <3> QED
      BY <2>2, <3>1, <3>2 DEF Heads, ScanHead, NeedsHead, LaunchHead
  <2>3. CASE Finish(h)
    BY <2>3, FinishHeads
  <2> QED
    BY <1>4, <2>1, <2>2, <2>3 DEF Scan
<1>5. CASE LoadRun(h)
  <2>1. /\ Moved(h)
        /\ pc'[h] = "complete"
        /\ ctx'[h] = Seeing(ctx[h], completedAt)
    BY <1>2, <1>5, MovedFacts DEF LoadRun
  <2> QED
    BY <1>2, <1>5, <2>1 DEF LoadRun, Heads, ScanHead, NeedsHead, LaunchHead
<1>6. CASE CompleteRun(h) \/ FailRun(h) \/ CloseRun(h) \/ HandOver(h)
  BY <1>6, GotoHeads, FinishHeads DEF CompleteRun, FailRun, CloseRun, HandOver
<1>7. CASE GateLoopFailure(h)
  BY <1>3, <1>7, FinishHeads DEF GateLoopFailure
<1>8. CASE CancelLoad(h)
  BY <1>2, <1>8, StepHeads DEF CancelLoad
<1>9. CASE CancelKill(h) \/ CancelWrite(h) \/ CancelPurge(h) \/ StartCancel(h)
  BY <1>9, GotoHeads, FinishHeads DEF CancelKill, CancelWrite, CancelPurge, StartCancel
<1> QED
  BY <1>4, <1>5, <1>6, <1>7, <1>8, <1>9 DEF EndStep, CancelStep

LEMMA GateHeads ==
  ASSUME TypeInv, NEW h \in Handler, NEW t \in triggers, Gate(h, t)
  PROVE  Heads(h)
<1>1. t.job \in Job /\ t.result \in Results /\ pc[h] = "idle"
  BY TriggerFacts DEF TypeInv, TypeOK, Gate, GateCompletion, GateFailure, Salvage
<1>2. CASE UNCHANGED <<pc, ctx>>
  BY <1>1, <1>2 DEF Heads, ScanHead, NeedsHead, LaunchHead, Moved
<1>3. CASE Step(h, "claim", Starting(t.job, t.result))
  BY <1>1, <1>3, StepHeads, StartingFacts DEF PlainLabels, Labels
<1>4. CASE StartFailing(h, t.job)
  BY <1>1, <1>4, StartFailingFacts DEF Heads, ScanHead, NeedsHead, LaunchHead
<1> QED
  BY <1>2, <1>3, <1>4 DEF Gate, GateCompletion, GateFailure, Salvage

LEMMA HandlerHeads ==
  ASSUME NoTransitions, InitialJobs # {}, TypeInv, NEW h \in Handler, Linear(h),
         HandlerStep(h) \/ StartCancel(h)
  PROVE  Heads(h)
BY LaunchHeads, CompletionHeads, DagHeads, EndHeads, NoBranch DEF HandlerStep

LEMMA KindsKeep ==
  ASSUME TypeInv, NEW h \in Handler,
         Ordinary(h) \/ Claims(h) \/ Adds(h) \/ Completes(h)
  PROVE  Kept
BY DEF Ordinary, Claims, Adds, Completes, Kept, TypeInv, TypeOK

\* The status is written COMPLETED by completeWorkflowRun alone.
LEMMA StatusFacts ==
  ASSUME NEW h \in Handler, HandlerStep(h) \/ StartCancel(h), status' = "COMPLETED"
  PROVE  status = "COMPLETED" \/ pc[h] = "complete"
<1>1. CASE Launch(h) \/ Queue(h) \/ Add(h) \/ Completion(h)
  BY <1>1 DEF Launch, Queue, Add, Completion, ClaimCompletion, ReadOutput, RecordOutput,
              RecordResult, RecordCompleted, Route, runVars
<1>2. CASE DagStep(h) \/ BranchStep(h)
  BY <1>2 DEF DagStep, FinishLevel, Advance, ReadNeeds, ReadBlocked, TestCondition,
              SkipOutput, SkipResult, SkipCompleted, BranchStep, Exclude, Include,
              EnterTarget, ClearQueued, ClearCompleted, MoveStep, runVars
<1>3. CASE EndStep(h)
  BY <1>3 DEF EndStep, Scan, LoadRun, CompleteRun, HandOver, GateLoopFailure,
              FailRun, CloseRun, runVars
<1>4. CASE CancelStep(h) \/ StartCancel(h)
  BY <1>4 DEF CancelStep, CancelKill, CancelLoad, CancelWrite, CancelPurge,
              StartCancel, runVars
<1> QED
  BY <1>1, <1>2, <1>3, <1>4 DEF HandlerStep

\* A result other than "skipped" is written by the handler that claimed the job.
LEMMA ResultFacts ==
  ASSUME TypeInv, NEW h \in Handler, HandlerStep(h) \/ StartCancel(h), NEW j \in Job
  PROVE  \/ result'[j] = result[j]
         \/ result'[j] = "skipped"
         \/ pc[h] = "result" /\ j = ctx[h].job
<1>1. result \in [Job -> Results \cup {"none"}]
  BY DEF TypeInv, TypeOK
<1>2. CASE RecordResult(h) \/ SkipResult(h)
  BY <1>1, <1>2 DEF RecordResult, SkipResult
<1>3. CASE Launch(h) \/ Queue(h) \/ Add(h) \/ (Completion(h) /\ ~RecordResult(h))
  BY <1>3 DEF Launch, Queue, Add, Completion, ClaimCompletion, ReadOutput, RecordOutput,
              RecordCompleted, Route, recordVars
<1>4. CASE (DagStep(h) /\ ~SkipResult(h)) \/ BranchStep(h)
  BY <1>4 DEF DagStep, FinishLevel, Advance, ReadNeeds, ReadBlocked, TestCondition,
              SkipOutput, SkipCompleted, BranchStep, Exclude, Include,
              EnterTarget, ClearQueued, ClearCompleted, MoveStep, recordVars
<1>5. CASE EndStep(h)
  BY <1>5 DEF EndStep, Scan, LoadRun, CompleteRun, HandOver, GateLoopFailure,
              FailRun, CloseRun, recordVars
<1>6. CASE CancelStep(h) \/ StartCancel(h)
  BY <1>6 DEF CancelStep, CancelKill, CancelLoad, CancelWrite, CancelPurge,
              StartCancel, recordVars
<1> QED
  BY <1>2, <1>3, <1>4, <1>5, <1>6 DEF HandlerStep
-----------------------------------------------------------------------------
(* The completion scan *)

LEMMA ScanStep ==
  ASSUME TypeInv, ScanInv, NEW h \in Handler, Heads(h), Kept,
         status' = "COMPLETED" => status = "COMPLETED" \/ pc[h] = "complete"
  PROVE  ScanInv'
<1>1. \A j \in Job : completed[j] => completed'[j]
  BY DEF Kept
<1>2. ASSUME NEW g \in Handler, g # h
      PROVE  /\ pc'[g] = "scan" => \A j \in Job \ ctx'[g].unread : completed'[j]
             /\ pc'[g] \in {"load", "complete"} => \A j \in Job : completed'[j]
  BY <1>1, <1>2 DEF Heads, Moved, ScanInv
<1>3. /\ pc'[h] = "scan" => \A j \in Job \ ctx'[h].unread : completed'[j]
      /\ pc'[h] \in {"load", "complete"} => \A j \in Job : completed'[j]
  BY <1>1 DEF Heads, ScanHead, ScanInv
<1>4. CompletedMeansAllJobs'
  BY <1>1 DEF CompletedMeansAllJobs, ScanInv
<1> QED
  BY <1>2, <1>3, <1>4 DEF ScanInv

LEMMA NextScan ==
  ASSUME NoTransitions, InitialJobs # {}, SafeInv, ScanInv, [Next]_vars
  PROVE  ScanInv'
<1> USE DEF SafeInv
<1>1. ASSUME NEW h \in Handler, HandlerStep(h) \/ StartCancel(h)
      PROVE  ScanInv'
  <2>1. Linear(h)
    BY DEF ClaimInv
  <2>2. Kept
    BY <1>1, <2>1, StepKinds, KindsKeep
  <2>3. Heads(h)
    BY <1>1, <2>1, HandlerHeads
  <2> QED
    BY <1>1, <2>2, <2>3, StatusFacts, ScanStep
<1>2. ASSUME NEW h \in Handler, NEW t \in triggers, Gate(h, t)
      PROVE  ScanInv'
  <2>1. Kept /\ status' = status
    BY <1>2 DEF Gate, GateCompletion, GateFailure, Salvage, Kept, runVars, flagVars
  <2>2. Heads(h)
    BY <1>2, GateHeads
  <2> QED
    BY <2>1, <2>2, ScanStep
<1>3. ASSUME UNCHANGED <<runVars, flagVars, pc, ctx, adds>>
      PROVE  ScanInv'
  BY <1>3 DEF ScanInv, CompletedMeansAllJobs, runVars, flagVars
<1>4. ASSUME NEW j \in Job, Work(j)
      PROVE  ScanInv'
  BY <1>3, <1>4, WorkIdle
<1>5. CASE UNCHANGED vars
  BY <1>3, <1>5 DEF vars
<1> QED
  BY <1>1, <1>2, <1>4, <1>5 DEF Next, Over

\* A run is written COMPLETED only when the completed flag of every job is set:
\* areAllJobsCompleted reads the flags one by one, between other handlers' writes,
\* and none of the flags it has read is cleared before the status is written.
THEOREM CompletedMeansAllJobsHolds ==
  ASSUME NoTransitions, InitialJobs # {}
  PROVE  Spec => []CompletedMeansAllJobs
<1>1. Init => SafeInv /\ ScanInv
  <2> SUFFICES ASSUME Init PROVE SafeInv /\ ScanInv
    OBVIOUS
  <2>1. status = "RUNNING" /\ \A h \in Handler : pc[h] \in {"launch", "idle"}
    BY DEF Init
  <2> QED
    BY <2>1, InitSafe DEF ScanInv, CompletedMeansAllJobs
<1>2. SafeInv /\ ScanInv /\ [Next]_vars => SafeInv' /\ ScanInv'
  BY NextSafe, NextScan
<1>3. ScanInv => CompletedMeansAllJobs
  BY DEF ScanInv
<1> QED
  BY <1>1, <1>2, <1>3, PTL DEF Spec
-----------------------------------------------------------------------------
(* Dependencies *)

\* A strict job names each of its needs as required, with a policy that a job
\* skipped or not ended does not meet.
PlainNeeds ==
  \A j \in Strict : \A n \in Needs[j] :
    n.policy \in {"success", "failed"} /\ ~n.optional

\* What a handler on its way to the queue has read of the candidate's needs.
NeedsInv ==
  /\ \A h \in Handler :
       /\ pc[h] = "needs" =>
            \/ ctx[h].cand \in Strict
            \/ \A d \in DependsOn(ctx[h].cand) \ ctx[h].unread : completed[d]
       /\ pc[h] \in {"condition", "queue", "add"} =>
            \A d \in DependsOn(ctx[h].cand) : completed[d]
       /\ pc[h] = "launch" => ctx[h].mode = "launch"
       /\ ctx[h].mode = "launch" => ctx[h].todo \subseteq InitialJobs
  /\ \A j \in Job : result[j] \in {"success", "failed"} => completed[j]

LEMMA StrictNeeds ==
  ASSUME PlainNeeds, NeedsInv, NEW j \in Strict, NeedsSatisfied(j)
  PROVE  \A d \in DependsOn(j) : completed[d]
<1>1. j \in Job /\ Needs[j] \subseteq Need
  BY ConstantsAssumption
<1>2. ASSUME NEW n \in Needs[j]
      PROVE  completed[n.id]
  <2>1. /\ n.id \in Job
        /\ n.policy \in {"success", "failed"}
        /\ ~n.optional
    BY <1>1 DEF PlainNeeds, Need
  <2>2. Accepts(n.policy, result[n.id])
    BY <2>1 DEF NeedsSatisfied
  <2>3. result[n.id] \in {"success", "failed"}
    BY <2>1, <2>2 DEF Accepts
  <2> QED
    BY <2>1, <2>3 DEF NeedsInv
<1> QED
  BY <1>2 DEF DependsOn, NeedIds

LEMMA NeedsStep ==
  ASSUME PlainNeeds, TypeInv, NeedsInv, NEW h \in Handler, Heads(h), Kept,
         \A j \in Job : result'[j] \in {"success", "failed"} => completed'[j]
  PROVE  NeedsInv'
<1>1. \A j \in Job : completed[j] => completed'[j]
  BY DEF Kept
<1>2. \A g \in Handler : pc[g] \in {"needs", "condition", "queue", "add"} =>
                            ctx[g].cand \in Job /\ DependsOn(ctx[g].cand) \subseteq Job
  BY HandlerFacts, GraphTypes DEF CandidateLabels
<1>3. ASSUME NEW g \in Handler, g # h
      PROVE  /\ pc'[g] = "needs" =>
                  \/ ctx'[g].cand \in Strict
                  \/ \A d \in DependsOn(ctx'[g].cand) \ ctx'[g].unread : completed'[d]
             /\ pc'[g] \in {"condition", "queue", "add"} =>
                  \A d \in DependsOn(ctx'[g].cand) : completed'[d]
             /\ pc'[g] = "launch" => ctx'[g].mode = "launch"
             /\ ctx'[g].mode = "launch" => ctx'[g].todo \subseteq InitialJobs
  BY <1>1, <1>2, <1>3 DEF Heads, Moved, NeedsInv
<1>4. ASSUME pc'[h] = "needs"
      PROVE  \/ ctx'[h].cand \in Strict
             \/ \A d \in DependsOn(ctx'[h].cand) \ ctx'[h].unread : completed'[d]
  BY <1>1, <1>2, <1>4 DEF Heads, NeedsHead, NeedsInv
<1>5. ASSUME pc'[h] \in {"condition", "queue", "add"}
      PROVE  \A d \in DependsOn(ctx'[h].cand) : completed'[d]
  <2>1. CASE pc[h] \in {"condition", "queue"} /\ ctx'[h].cand = ctx[h].cand
    BY <1>1, <1>2, <2>1 DEF NeedsInv
  <2>2. CASE DependsOn(ctx'[h].cand) = {}
    BY <2>2
  <2>3. CASE pc[h] = "launch" /\ ctx'[h].cand \in ctx[h].todo
    BY <2>3 DEF NeedsInv, InitialJobs, DependsOn
  <2>4. CASE Cleared(h)
    <3>1. CASE ctx[h].cand \in Strict /\ NeedsSatisfied(ctx[h].cand)
      BY <1>1, <1>2, <2>4, <3>1, StrictNeeds DEF Cleared
    <3>2. CASE /\ ctx[h].cand \notin Strict
               /\ \E d \in Job : completed[d] /\ ctx[h].unread = {d}
      BY <1>1, <1>2, <2>4, <3>2 DEF Cleared, NeedsInv
    <3> QED
      BY <2>4, <3>1, <3>2 DEF Cleared
  <2> QED
    BY <1>5, <2>1, <2>2, <2>3, <2>4 DEF Heads, NeedsHead
<1>6. /\ pc'[h] = "launch" => ctx'[h].mode = "launch"
      /\ ctx'[h].mode = "launch" => ctx'[h].todo \subseteq InitialJobs
  BY DEF Heads, LaunchHead, NeedsInv
<1> QED
  BY <1>3, <1>4, <1>5, <1>6 DEF NeedsInv

LEMMA NextNeeds ==
  ASSUME NoTransitions, PlainNeeds, InitialJobs # {}, SafeInv, NeedsInv, [Next]_vars
  PROVE  NeedsInv'
<1> USE DEF SafeInv
<1>1. ASSUME NEW h \in Handler, HandlerStep(h) \/ StartCancel(h)
      PROVE  NeedsInv'
  <2>1. Linear(h)
    BY DEF ClaimInv
  <2>2. Kept
    BY <1>1, <2>1, StepKinds, KindsKeep
  <2>3. Heads(h)
    BY <1>1, <2>1, HandlerHeads
  <2>4. pc[h] = "result" => completed[ctx[h].job]
    BY DEF CompletionInv, Completing
  <2>5. ASSUME NEW j \in Job, result'[j] \in {"success", "failed"}
        PROVE  completed'[j]
    BY <1>1, <2>2, <2>4, <2>5, ResultFacts DEF NeedsInv, Kept
  <2> QED
    BY <2>2, <2>3, <2>5, NeedsStep
<1>2. ASSUME NEW h \in Handler, NEW t \in triggers, Gate(h, t)
      PROVE  NeedsInv'
  <2>1. Kept /\ result' = result
    BY <1>2 DEF Gate, GateCompletion, GateFailure, Salvage, Kept, recordVars, flagVars
  <2>2. Heads(h)
    BY <1>2, GateHeads
  <2> QED
    BY <2>1, <2>2, NeedsStep DEF NeedsInv, Kept
<1>3. ASSUME UNCHANGED <<runVars, flagVars, result, pc, ctx, adds>>
      PROVE  NeedsInv'
  BY <1>3 DEF NeedsInv, flagVars
<1>4. ASSUME NEW j \in Job, Work(j)
      PROVE  NeedsInv'
  <2>1. result' = result
    BY <1>4 DEF Work, Dispatch, StartExecution, DispatchFails, Execution, recordVars,
                StartSaving, ReadRecorded, PersistJobOutput, AgentEnds, AgentDies, SpecialEnds,
                SpecialDies, Ended
  <2> QED
    BY <1>3, <1>4, <2>1, WorkIdle
<1>5. CASE UNCHANGED vars
  BY <1>3, <1>5 DEF vars, recordVars
<1> QED
  BY <1>1, <1>2, <1>4, <1>5 DEF Next, Over

LEMMA AddsAfterNeeds ==
  ASSUME NoTransitions, SafeInv, NeedsInv, [Next]_vars, NEW j \in Job,
         adds'[j] > adds[j]
  PROVE  \A d \in DependsOn(j) : completed[d]
<1> USE DEF SafeInv
<1>1. adds \in [Job -> Nat]
  BY DEF TypeInv, TypeOK
<1>2. ASSUME NEW h \in Handler, HandlerStep(h) \/ StartCancel(h)
      PROVE  \A d \in DependsOn(j) : completed[d]
  <2>1. Ordinary(h) \/ Claims(h) \/ Adds(h) \/ Completes(h)
    BY <1>2, StepKinds DEF ClaimInv
  <2>2. Adds(h) /\ j = ctx[h].cand
    BY <1>1, <2>1 DEF Ordinary, Claims, Adds, Completes
  <2> QED
    BY <2>2 DEF Adds, NeedsInv
<1>3. ASSUME adds' = adds
      PROVE  FALSE
  BY <1>1, <1>3
<1>4. ASSUME NEW h \in Handler, NEW t \in triggers, Gate(h, t)
      PROVE  FALSE
  BY <1>3, <1>4 DEF Gate, GateCompletion, GateFailure, Salvage
<1>5. ASSUME NEW k \in Job, Work(k)
      PROVE  FALSE
  BY <1>3, <1>5, WorkIdle
<1> QED
  BY <1>2, <1>3, <1>4, <1>5 DEF Next, Over, vars

\* A job is put on the queue only when every job it depends on has completed,
\* whoever found it eligible and however the reads of its dependencies were
\* interleaved with completions; a strict job's needs must be plain for that.
THEOREM DependenciesFirstHolds ==
  ASSUME NoTransitions, PlainNeeds, InitialJobs # {}
  PROVE  Spec => DependenciesFirst
<1>1. Init => SafeInv /\ NeedsInv
  <2> SUFFICES ASSUME Init PROVE NeedsInv
    BY InitSafe
  <2>1. ASSUME NEW h \in Handler
        PROVE  /\ pc[h] \in {"launch", "idle"}
               /\ pc[h] = "launch" => ctx[h].mode = "launch"
               /\ ctx[h].mode = "launch" => ctx[h].todo \subseteq InitialJobs
    BY DEF Init, NoContext
  <2>2. \A j \in Job : result[j] = "none"
    BY DEF Init
  <2> QED
    BY <2>1, <2>2 DEF NeedsInv
<1>2. SafeInv /\ NeedsInv /\ [Next]_vars => SafeInv' /\ NeedsInv'
  BY NextSafe, NextNeeds
<1>3. SafeInv /\ NeedsInv /\ [Next]_vars
      => [\A j \in Job : adds'[j] > adds[j] => \A d \in DependsOn(j) : completed[d]]_vars
  BY AddsAfterNeeds
<1> QED
  BY <1>1, <1>2, <1>3, PTL DEF Spec, DependenciesFirst
-----------------------------------------------------------------------------
(* The life of a job: it is put on the queue, works, is reported, and is    *)
(* completed or lost.  The condition of a job must not change its value     *)
(* meanwhile: it tests only a job that has ended before all others start,   *)
(* and that does not call set_job_output, whose write may come after that.  *)

OnlyRootTested ==
  \A j, d \in Job :
    d \in CondReads[j] => InitialJobs = {d} /\ CondReads[d] = {} /\ d \notin Savers

Skipping == {"skipOutput", "skipResult", "skipCompleted"}
DagLabels == {"advance", "needs", "condition"} \cup Skipping
Queueing == {"queue", "add"}
Cancelling == {"cancelKill", "cancelLoad", "cancelWrite", "cancelPurge"}

\* Candidates are chosen by the launch or on the way through the graph.
ModeOK(l, c) ==
  /\ l \notin {"failGate", "blocked"}
  /\ l \in DagLabels => c.mode = "dag"
  /\ l \in Queueing => c.mode = "dag" \/ (c.mode = "launch" /\ c.cand \in InitialJobs)

ModeInv == \A h \in Handler : ModeOK(pc[h], ctx[h])

\* A job is queued when its condition is true, and skipped when it is false.
CondOK(l, c) ==
  /\ l \in Queueing => ConditionTrue(c.cand)
  /\ l \in Skipping => ~ConditionTrue(c.cand)

CondInv ==
  /\ \A h \in Handler : CondOK(pc[h], ctx[h])
  /\ \A j \in Job : queued[j] => ConditionTrue(j)
  /\ \A j \in Job : completed[j] /\ ~queued[j] => ~ConditionTrue(j)

\* Where a step of h leads, as far as the choice of a candidate goes; no step
\* but the acceptance of a trigger leads to a report.
LifeHead(h) ==
  /\ Moved(h)
  /\ pc'[h] \notin {"claim", "failing"}
  /\ ModeOK(pc'[h], ctx'[h])
  /\ CondOK(pc'[h], ctx'[h])
  /\ ctx'[h].mode = "dag" =>
       ctx[h].mode = "dag" \/ (pc[h] = "route" /\ pc'[h] = "advance")
  /\ pc'[h] \in Cancelling => pc[h] \in Cancelling \/ cancels < MaxCancels

AsideLabels == Labels \ ({"claim", "failing", "failGate", "blocked"} \cup Queueing
                         \cup DagLabels \cup Cancelling)

LEMMA RootsUntested ==
  ASSUME OnlyRootTested, NEW j \in InitialJobs
  PROVE  ConditionTrue(j)
<1>1. j \in Job /\ CondReads[j] \subseteq Job
  BY ConstantsAssumption DEF InitialJobs
<1>2. CondReads[j] = {}
  BY <1>1 DEF OnlyRootTested
<1> QED
  BY <1>2 DEF ConditionTrue

LEMMA StepLife ==
  ASSUME TypeInv, NEW h \in Handler, NEW l \in AsideLabels, NEW c \in Context,
         Step(h, l, c), c.mode = "dag" => ctx[h].mode = "dag"
  PROVE  LifeHead(h)
<1>1. Moved(h) /\ pc'[h] = l /\ ctx'[h] = c
  BY MovedFacts DEF AsideLabels
<1> QED
  BY <1>1
  DEF LifeHead, ModeOK, CondOK, AsideLabels, Queueing, DagLabels, Skipping, Cancelling

LEMMA GotoLife ==
  ASSUME TypeInv, NEW h \in Handler, NEW l \in AsideLabels, Goto(h, l)
  PROVE  LifeHead(h)
BY StepLife, HandlerFacts DEF Goto

LEMMA FinishLife ==
  ASSUME TypeInv, NEW h \in Handler, Finish(h)
  PROVE  LifeHead(h)
BY StepLife, NoContextFacts
DEF Finish, AsideLabels, Labels, Queueing, DagLabels, Skipping, Cancelling

LEMMA ResumeLife ==
  ASSUME TypeInv, NEW h \in Handler, NEW f \in Job \cup {NoJob}, Resume(h, f),
         ctx[h].mode \in {"dag", "launch"}
  PROVE  LifeHead(h)
<1> DEFINE c == Settled(ctx[h], f)
           l == IF ctx[h].mode = "launch" THEN "launch" ELSE "advance"
<1>1. c \in Context /\ c.mode = ctx[h].mode /\ l \in Labels
  BY HandlerFacts, SettledFacts DEF Labels
<1>2. Step(h, l, c)
  BY DEF Resume, LoopOf
<1>3. l = "launch" \/ (l = "advance" /\ ctx[h].mode = "dag")
  OBVIOUS
<1> HIDE DEF c, l
<1>4. Moved(h) /\ pc'[h] = l /\ ctx'[h] = c
  BY <1>1, <1>2, MovedFacts
<1> QED
  BY <1>1, <1>3, <1>4
  DEF LifeHead, ModeOK, CondOK, Queueing, DagLabels, Skipping, Cancelling

LEMMA ReturnLife ==
  ASSUME TypeInv, NEW h \in Handler, Return(h), ctx[h].mode \in {"dag", "launch"}
  PROVE  LifeHead(h)
BY ResumeLife, HandlerFacts DEF Return

\* A step that chooses or tests a candidate.
LEMMA ChooseLife ==
  ASSUME TypeInv, NEW h \in Handler, NEW l \in {"needs", "condition", "queue", "skipOutput",
                                                "skipResult", "skipCompleted", "advance"},
         NEW c \in Context, Step(h, l, c), ctx[h].mode = "dag", c.mode = "dag",
         CondOK(l, c)
  PROVE  LifeHead(h)
<1>1. Moved(h) /\ pc'[h] = l /\ ctx'[h] = c
  BY MovedFacts DEF Labels
<1> QED
  BY <1>1 DEF LifeHead, ModeOK, Queueing, DagLabels, Skipping, Cancelling

LEMMA LaunchLife ==
  ASSUME OnlyRootTested, TypeInv, NeedsInv, NEW h \in Handler,
         ModeOK(pc[h], ctx[h]), CondOK(pc[h], ctx[h]), Launch(h) \/ Queue(h) \/ Add(h)
  PROVE  LifeHead(h)
<1>1. CASE Launch(h)
  <2>1. ASSUME NEW j \in ctx[h].todo, Step(h, "queue", Consider(ctx[h], j, {}))
        PROVE  LifeHead(h)
    <3>1. j \in Job /\ {} \in SUBSET Job /\ ctx[h] \in Context /\ "queue" \in Labels
      BY HandlerFacts DEF Labels
    <3>2. ctx[h].mode = "launch" /\ j \in InitialJobs
      BY <1>1 DEF Launch, NeedsInv
    <3>3. /\ Moved(h)
          /\ pc'[h] = "queue"
          /\ ctx'[h].cand = j
          /\ ctx'[h].mode = "launch"
      BY <2>1, <3>1, <3>2, MovedFacts, ConsiderFacts
    <3> QED
      BY <3>2, <3>3, RootsUntested
      DEF LifeHead, ModeOK, CondOK, Queueing, DagLabels, Skipping, Cancelling
  <2>2. CASE Goto(h, "load")
    BY <2>2, GotoLife
    DEF AsideLabels, Labels, Queueing, DagLabels, Skipping, Cancelling
  <2> QED
    BY <1>1, <2>1, <2>2, FinishLife DEF Launch
<1>2. CASE Queue(h)
  <2>1. PICK f \in Job \cup {NoJob} : Step(h, "add", WithFirst(ctx[h], f)) \/ Resume(h, f)
    <3>1. ctx[h].cand \in Job /\ ctx[h].first \in Job \cup {NoJob}
      BY <1>2, HandlerFacts DEF Queue, CandidateLabels
    <3> QED
      BY <1>2, <3>1 DEF Queue
  <2>2. /\ pc[h] = "queue" /\ ctx[h] \in Context
        /\ ctx[h].mode = "dag" \/ (ctx[h].mode = "launch" /\ ctx[h].cand \in InitialJobs)
        /\ ConditionTrue(ctx[h].cand)
    BY <1>2, HandlerFacts DEF Queue, ModeOK, CondOK, Queueing
  <2>3. CASE Step(h, "add", WithFirst(ctx[h], f))
    <3>1. /\ Moved(h)
          /\ pc'[h] = "add"
          /\ ctx'[h].cand = ctx[h].cand
          /\ ctx'[h].mode = ctx[h].mode
      BY <2>2, <2>3, MovedFacts, WithFirstFacts DEF Labels
    <3> QED
      BY <2>2, <3>1
      DEF LifeHead, ModeOK, CondOK, Queueing, DagLabels, Skipping, Cancelling
  <2> QED
    BY <2>1, <2>2, <2>3, ResumeLife
<1>3. CASE Add(h)
  <2>1. ctx[h].mode \in {"dag", "launch"} /\ Return(h)
    BY <1>3 DEF Add, ModeOK, Queueing
  <2> QED
    BY <2>1, ReturnLife
<1> QED
  BY <1>1, <1>2, <1>3

LEMMA CompletionLife ==
  ASSUME NoTransitions, TypeInv, NEW h \in Handler, Completion(h)
  PROVE  LifeHead(h)
<1> USE DEF AsideLabels, Labels, Queueing, DagLabels, Skipping, Cancelling
<1>1. CASE ClaimCompletion(h)
  BY <1>1, GotoLife, FinishLife DEF ClaimCompletion
<1>2. CASE RecordResult(h) \/ RecordCompleted(h)
  BY <1>2, GotoLife DEF RecordResult, RecordCompleted
<1>3. ASSUME NEW l \in {"output", "result"}, NEW o \in Recorded, Step(h, l, Holding(ctx[h], o))
      PROVE  LifeHead(h)
  <2>1. Holding(ctx[h], o) \in Context /\ Holding(ctx[h], o).mode = ctx[h].mode
    BY HandlerFacts, HoldingFacts
  <2> QED
    BY <1>3, <2>1, StepLife
<1>4. CASE ReadOutput(h) \/ RecordOutput(h)
  BY <1>3, <1>4, JobOutput DEF ReadOutput, RecordOutput, JobLabels, Recorded
<1>5. CASE Route(h)
  <2>1. ctx[h].job \in Job
    BY <1>5, HandlerFacts DEF Route, JobLabels
  <2>2. LaterLevels(ctx[h].job) \in SUBSET Job /\ Transitions[ctx[h].job] = {}
    BY <2>1, GraphTypes DEF NoTransitions
  <2>3. Step(h, "advance", Advancing(ctx[h], LaterLevels(ctx[h].job)))
    BY <1>5, <2>2 DEF Route
  <2>4. Moved(h) /\ pc'[h] = "advance" /\ ctx'[h].mode = "dag"
    BY <2>2, <2>3, MovedFacts, HandlerFacts, AdvancingFacts
  <2> QED
    BY <1>5, <2>4 DEF LifeHead, ModeOK, CondOK, Route
<1> QED
  BY <1>1, <1>2, <1>4, <1>5 DEF Completion

LEMMA DagLife ==
  ASSUME Strict = {}, TypeInv, NEW h \in Handler,
         ModeOK(pc[h], ctx[h]), CondOK(pc[h], ctx[h]), DagStep(h)
  PROVE  LifeHead(h)
<1>0. ctx[h] \in Context /\ ctx[h].mode = "dag"
  BY HandlerFacts DEF DagStep, FinishLevel, Advance, ReadNeeds, ReadBlocked, TestCondition,
     SkipOutput, SkipResult, SkipCompleted, ModeOK, DagLabels, Skipping
<1>1. CASE FinishLevel(h)
  <2>1. Step(h, "advance", WithFirst(ctx[h], NoJob))
    BY <1>1 DEF FinishLevel
  <2>2. WithFirst(ctx[h], NoJob) \in Context /\ WithFirst(ctx[h], NoJob).mode = "dag"
    BY <1>0, WithFirstFacts
  <2>3. CondOK("advance", WithFirst(ctx[h], NoJob))
    BY DEF CondOK, Queueing, Skipping
  <2> QED
    BY <1>0, <2>1, <2>2, <2>3, ChooseLife
<1>2. CASE Advance(h)
  <2>1. ASSUME NEW j \in ctx[h].todo,
               Step(h, FirstRead(j), Consider(ctx[h], j, DependsOn(j)))
        PROVE  LifeHead(h)
    <3> DEFINE c == Consider(ctx[h], j, DependsOn(j))
    <3>1. /\ j \in Job /\ DependsOn(j) \in SUBSET Job
          /\ FirstRead(j) \in {"queue", "condition", "needs"}
          /\ FirstRead(j) = "queue" => CondReads[j] = {}
      BY HandlerFacts, GraphTypes DEF FirstRead, AfterNeeds
    <3>2. c \in Context /\ c.cand = j /\ c.mode = "dag"
      BY <1>0, <3>1, ConsiderFacts
    <3> HIDE DEF c
    <3>3. CondOK(FirstRead(j), c)
      BY <3>1, <3>2 DEF CondOK, Queueing, Skipping, ConditionTrue
    <3>4. Step(h, FirstRead(j), c)
      BY <2>1 DEF c
    <3> QED
      BY <1>0, <3>1, <3>2, <3>3, <3>4, ChooseLife
  <2>2. CASE Step(h, "scan", Unread(ctx[h], Job))
    <3>1. "scan" \in AsideLabels /\ Unread(ctx[h], Job) \in Context
      BY <1>0, UnreadFacts
      DEF AsideLabels, Labels, Queueing, DagLabels, Skipping, Cancelling
    <3> QED
      BY <1>0, <2>2, <3>1, StepLife
  <2> QED
    BY <1>2, <2>1, <2>2 DEF Advance
<1>3. CASE ReadNeeds(h)
  <2> DEFINE j == ctx[h].cand
  <2>1. /\ j \in Job
        /\ AfterNeeds(j) \in {"queue", "condition"}
        /\ AfterNeeds(j) = "queue" => CondReads[j] = {}
    BY <1>3, HandlerFacts, GraphTypes DEF ReadNeeds, CandidateLabels, AfterNeeds
  <2>2. ASSUME NEW d \in ctx[h].unread,
               Step(h, IF ctx[h].unread = {d} THEN AfterNeeds(j) ELSE "needs",
                       Unread(ctx[h], ctx[h].unread \ {d}))
        PROVE  LifeHead(h)
    <3> DEFINE l == IF ctx[h].unread = {d} THEN AfterNeeds(j) ELSE "needs"
               c == Unread(ctx[h], ctx[h].unread \ {d})
    <3>1. ctx[h].unread \ {d} \in SUBSET Job
      BY HandlerFacts
    <3>2. c \in Context /\ c.cand = j /\ c.mode = "dag"
      BY <1>0, <3>1, UnreadFacts
    <3>3. l \in {"needs", "queue", "condition"} /\ (l = "queue" => CondReads[j] = {})
      BY <2>1
    <3>4. Step(h, l, c)
      BY <2>2
    <3> HIDE DEF l, c
    <3>5. CondOK(l, c)
      BY <2>1, <3>2, <3>3 DEF CondOK, Queueing, Skipping, ConditionTrue
    <3> QED
      BY <1>0, <3>2, <3>3, <3>4, <3>5, ChooseLife
  <2>3. CASE Return(h)
    BY <1>0, <2>3, ReturnLife
  <2> QED
    BY <1>3, <2>2, <2>3 DEF ReadNeeds
<1>4. CASE ReadBlocked(h)
  BY <1>4 DEF ReadBlocked, ModeOK
<1>5. CASE TestCondition(h)
  <2>1. CASE ConditionTrue(ctx[h].cand)
    <3>1. Step(h, "queue", ctx[h]) /\ CondOK("queue", ctx[h])
      BY <1>5, <2>1 DEF TestCondition, Goto, CondOK, Skipping
    <3> QED
      BY <1>0, <3>1, ChooseLife
  <2>2. CASE ~ConditionTrue(ctx[h].cand)
    <3>1. Step(h, "skipOutput", ctx[h]) /\ CondOK("skipOutput", ctx[h])
      BY <1>5, <2>2 DEF TestCondition, Goto, CondOK, Queueing
    <3> QED
      BY <1>0, <3>1, ChooseLife
  <2> QED
    BY <2>1, <2>2
<1>6. CASE SkipOutput(h) \/ SkipResult(h)
  <2>1. ~ConditionTrue(ctx[h].cand)
    BY <1>6 DEF SkipOutput, SkipResult, CondOK, Skipping
  <2>2. CondOK("skipResult", ctx[h]) /\ CondOK("skipCompleted", ctx[h])
    BY <2>1 DEF CondOK, Queueing
  <2>3. Step(h, "skipResult", ctx[h]) \/ Step(h, "skipCompleted", ctx[h])
    BY <1>6 DEF SkipOutput, SkipResult, Goto
  <2> QED
    BY <1>0, <2>2, <2>3, ChooseLife
<1>7. CASE SkipCompleted(h)
  BY <1>0, <1>7, ReturnLife DEF SkipCompleted
<1> QED
  BY <1>1, <1>2, <1>3, <1>4, <1>5, <1>6, <1>7 DEF DagStep

LEMMA EndLife ==
  ASSUME TypeInv, NEW h \in Handler, ModeOK(pc[h], ctx[h]),
         EndStep(h) \/ CancelStep(h) \/ StartCancel(h)
  PROVE  LifeHead(h)
<1> USE HandlerFacts DEF AsideLabels, Labels, Queueing, DagLabels, Skipping, Cancelling
<1>1. completedAt \in Handler \cup {NoStamp}
  BY DEF TypeInv, TypeOK
<1>2. /\ Seeing(ctx[h], completedAt) \in Context
      /\ Seeing(ctx[h], completedAt).mode = ctx[h].mode
  BY <1>1, SeeingFacts
<1>3. ASSUME NEW S \in SUBSET Job, Step(h, "scan", Unread(ctx[h], S))
      PROVE  LifeHead(h)
  <2>1. Unread(ctx[h], S) \in Context /\ Unread(ctx[h], S).mode = ctx[h].mode
    BY UnreadFacts
  <2> QED
    BY <1>3, <2>1, StepLife
<1>4. CASE Scan(h)
  <2>1. ASSUME NEW j \in ctx[h].unread, Step(h, "scan", Unread(ctx[h], ctx[h].unread \ {j}))
        PROVE  LifeHead(h)
    <3>1. ctx[h].unread \ {j} \in SUBSET Job
      OBVIOUS
    <3> QED
      BY <1>3, <2>1, <3>1
  <2>2. CASE Goto(h, "load")
    BY <2>2, GotoLife
  <2> QED
    BY <1>4, <2>1, <2>2, FinishLife DEF Scan
<1>5. CASE LoadRun(h)
  BY <1>2, <1>5, StepLife DEF LoadRun
<1>6. CASE CompleteRun(h) \/ FailRun(h) \/ CloseRun(h) \/ HandOver(h)
  BY <1>6, GotoLife, FinishLife DEF CompleteRun, FailRun, CloseRun, HandOver
<1>7. CASE GateLoopFailure(h)
  BY <1>7 DEF GateLoopFailure, ModeOK
<1>8. CASE CancelLoad(h)
  <2>1. /\ Moved(h)
        /\ pc'[h] = "cancelWrite"
        /\ ctx'[h] = Seeing(ctx[h], completedAt)
    BY <1>2, <1>8, MovedFacts DEF CancelLoad
  <2> QED
    BY <1>2, <1>8, <2>1 DEF CancelLoad, LifeHead, ModeOK, CondOK
<1>9. CASE CancelKill(h) \/ CancelWrite(h) \/ StartCancel(h)
  <2>1. /\ Moved(h)
        /\ pc'[h] \in {"cancelKill", "cancelLoad", "cancelPurge"}
        /\ ctx'[h] = ctx[h]
    BY <1>9, GotoFacts DEF CancelKill, CancelWrite, StartCancel
  <2> QED
    BY <1>9, <2>1
    DEF CancelKill, CancelWrite, StartCancel, LifeHead, ModeOK, CondOK
<1>10. CASE CancelPurge(h)
  BY <1>10, FinishLife DEF CancelPurge
<1> QED
  BY <1>4, <1>5, <1>6, <1>7, <1>8, <1>9, <1>10 DEF EndStep, CancelStep

LEMMA HandlerLife ==
  ASSUME NoTransitions, Strict = {}, OnlyRootTested, TypeInv, NeedsInv,
         NEW h \in Handler, Linear(h), ModeOK(pc[h], ctx[h]), CondOK(pc[h], ctx[h]),
         HandlerStep(h) \/ StartCancel(h)
  PROVE  LifeHead(h)
BY LaunchLife, CompletionLife, DagLife, EndLife, NoBranch DEF HandlerStep

LEMMA GateLife ==
  ASSUME TypeInv, NEW h \in Handler, NEW t \in triggers, ModeOK(pc[h], ctx[h]),
         Gate(h, t)
  PROVE  /\ Moved(h)
         /\ ModeOK(pc'[h], ctx'[h])
         /\ CondOK(pc'[h], ctx'[h])
         /\ ctx'[h].mode = "dag" => ctx[h].mode = "dag"
         /\ pc'[h] \in {"idle", "claim", "failing"}
<1> USE DEF ModeOK, CondOK, Queueing, DagLabels, Skipping
<1>1. t.job \in Job /\ t.result \in Results /\ pc[h] = "idle"
  BY TriggerFacts DEF TypeInv, TypeOK, Gate, GateCompletion, GateFailure, Salvage
<1>2. CASE UNCHANGED <<pc, ctx>>
  BY <1>1, <1>2 DEF Moved
<1>3. CASE Step(h, "claim", Starting(t.job, t.result))
  BY <1>1, <1>3, MovedFacts, StartingFacts DEF Labels
<1>4. CASE StartFailing(h, t.job)
  BY <1>1, <1>4, StartFailingFacts
<1> QED
  BY <1>2, <1>3, <1>4 DEF Gate, GateCompletion, GateFailure, Salvage
-----------------------------------------------------------------------------
(* What a step of a handler writes. *)

LEMMA OutputFacts ==
  ASSUME TypeInv, NEW h \in Handler, HandlerStep(h) \/ StartCancel(h), output' # output
  PROVE  \/ /\ pc[h] = "output"
            /\ \A j \in Job : output'[j] # output[j] => j = ctx[h].job
         \/ /\ pc[h] = "skipOutput"
            /\ output' = [output EXCEPT ![ctx[h].cand] = "skipped"]
<1>1. output \in [Job -> Recorded]
  BY DEF TypeInv, TypeOK
<1>2. CASE RecordOutput(h)
  BY <1>1, <1>2 DEF RecordOutput
<1>3. CASE SkipOutput(h)
  BY <1>3 DEF SkipOutput
<1>4. CASE Launch(h) \/ Queue(h) \/ Add(h) \/ (Completion(h) /\ ~RecordOutput(h))
  BY <1>4 DEF Launch, Queue, Add, Completion, ClaimCompletion, ReadOutput, RecordResult,
              RecordCompleted, Route, recordVars
<1>5. CASE (DagStep(h) /\ ~SkipOutput(h)) \/ BranchStep(h)
  BY <1>5 DEF DagStep, FinishLevel, Advance, ReadNeeds, ReadBlocked, TestCondition,
              SkipResult, SkipCompleted, BranchStep, Exclude, Include,
              EnterTarget, ClearQueued, ClearCompleted, MoveStep, recordVars
<1>6. CASE EndStep(h)
  BY <1>6 DEF EndStep, Scan, LoadRun, CompleteRun, HandOver, GateLoopFailure,
              FailRun, CloseRun, recordVars
<1>7. CASE CancelStep(h) \/ StartCancel(h)
  BY <1>7 DEF CancelStep, CancelKill, CancelLoad, CancelWrite, CancelPurge,
              StartCancel, recordVars
<1> QED
  BY <1>2, <1>3, <1>4, <1>5, <1>6, <1>7 DEF HandlerStep

LEMMA FlagFacts ==
  ASSUME TypeInv, NEW h \in Handler, Linear(h), HandlerStep(h) \/ StartCancel(h),
         NEW j \in Job
  PROVE  /\ queued'[j] /\ ~queued[j] => pc[h] = "queue" /\ j = ctx[h].cand
         /\ completed'[j] /\ ~completed[j] =>
              \/ pc[h] \in {"claim", "completed"} /\ j = ctx[h].job
              \/ pc[h] = "skipCompleted" /\ j = ctx[h].cand
<1>1. queued \in [Job -> BOOLEAN] /\ completed \in [Job -> BOOLEAN]
  BY DEF TypeInv, TypeOK
<1>2. CASE Queue(h)
  BY <1>1, <1>2 DEF Queue
<1>3. CASE ClaimCompletion(h)
  BY <1>1, <1>3 DEF ClaimCompletion
<1>4. CASE RecordCompleted(h)
  BY <1>1, <1>4 DEF RecordCompleted
<1>5. CASE SkipCompleted(h)
  BY <1>1, <1>5 DEF SkipCompleted
<1>6. CASE \/ Launch(h) \/ Add(h)
           \/ Completion(h) /\ ~ClaimCompletion(h) /\ ~RecordCompleted(h)
           \/ DagStep(h) /\ ~SkipCompleted(h)
  BY <1>6 DEF Launch, Add, Completion, ReadOutput, RecordOutput, RecordResult, Route, DagStep,
              FinishLevel, Advance, ReadNeeds, ReadBlocked, TestCondition, SkipOutput,
              SkipResult, flagVars
<1>7. CASE EndStep(h) \/ CancelStep(h) \/ StartCancel(h)
  BY <1>7 DEF EndStep, Scan, LoadRun, CompleteRun, HandOver, GateLoopFailure, FailRun,
              CloseRun, CancelStep, CancelKill, CancelLoad, CancelWrite, CancelPurge,
              StartCancel, flagVars
<1> QED
  BY <1>2, <1>3, <1>4, <1>5, <1>6, <1>7, NoBranch DEF HandlerStep

LEMMA StatusWrites ==
  ASSUME NEW h \in Handler, HandlerStep(h) \/ StartCancel(h), status' # status
  PROVE  \/ pc[h] = "complete" /\ status' = "COMPLETED"
         \/ pc[h] = "failing" /\ status' = "FAILED" /\ UNCHANGED <<flagVars, workVars, triggers>>
         \/ pc[h] = "cancelWrite" /\ status' = "CANCELLED"
<1>1. CASE Launch(h) \/ Queue(h) \/ Add(h) \/ Completion(h)
  BY <1>1 DEF Launch, Queue, Add, Completion, ClaimCompletion, ReadOutput, RecordOutput,
              RecordResult, RecordCompleted, Route, runVars
<1>2. CASE DagStep(h) \/ BranchStep(h)
  BY <1>2 DEF DagStep, FinishLevel, Advance, ReadNeeds, ReadBlocked, TestCondition,
              SkipOutput, SkipResult, SkipCompleted, BranchStep, Exclude, Include,
              EnterTarget, ClearQueued, ClearCompleted, MoveStep, runVars
<1>3. CASE EndStep(h)
  BY <1>3 DEF EndStep, Scan, LoadRun, CompleteRun, HandOver, GateLoopFailure,
              FailRun, CloseRun, runVars
<1>4. CASE CancelStep(h) \/ StartCancel(h)
  BY <1>4 DEF CancelStep, CancelKill, CancelLoad, CancelWrite, CancelPurge,
              StartCancel, runVars
<1> QED
  BY <1>1, <1>2, <1>3, <1>4 DEF HandlerStep

\* The steps that touch the queue, the executions or the triggers.
LEMMA WorkWrites ==
  ASSUME NEW h \in Handler, HandlerStep(h) \/ StartCancel(h)
  PROVE  \/ UNCHANGED <<workVars, triggers>>
         \/ Add(h) \/ CloseRun(h) \/ CancelKill(h) \/ CancelPurge(h)
<1>1. CASE Launch(h) \/ Queue(h) \/ Completion(h)
  BY <1>1 DEF Launch, Queue, Completion, ClaimCompletion, ReadOutput, RecordOutput,
              RecordResult, RecordCompleted, Route
<1>2. CASE DagStep(h) \/ BranchStep(h)
  BY <1>2 DEF DagStep, FinishLevel, Advance, ReadNeeds, ReadBlocked, TestCondition,
              SkipOutput, SkipResult, SkipCompleted, BranchStep, Exclude, Include,
              EnterTarget, ClearQueued, ClearCompleted, MoveStep
<1>3. CASE EndStep(h)
  BY <1>3 DEF EndStep, Scan, LoadRun, CompleteRun, HandOver, GateLoopFailure, FailRun
<1>4. CASE CancelStep(h) \/ StartCancel(h)
  BY <1>4 DEF CancelStep, CancelLoad, CancelWrite, StartCancel
<1> QED
  BY <1>1, <1>2, <1>3, <1>4 DEF HandlerStep
-----------------------------------------------------------------------------
(* The stages of a job.  A claimed job is about to be added, is in work, is *)
(* reported by a trigger or by a handler that has not claimed its            *)
(* completion yet, is completed, or is lost with the run.                    *)

Added == {j \in Job : \E h \in Handler : pc[h] = "add" /\ ctx[h].cand = j}
InWork == stepQueue \cup dispatching \cup running
Reported == {j \in Job : \E t \in triggers : t.job = j}
Claimed == {j \in Job : \E h \in Handler : pc[h] = "claim" /\ ctx[h].job = j}

Apart == stepQueue \cap dispatching = {} /\ (stepQueue \cup dispatching) \cap running = {}

StageInv ==
  /\ \A j \in Added \cup InWork \cup Reported \cup Claimed : queued[j]
  /\ \A j \in Added : ~completed[j] /\ j \notin InWork \cup Reported \cup Claimed
  /\ \A j \in InWork : ~completed[j] /\ j \notin Reported \cup Claimed

\* How a step moves jobs from one stage to the next.
FlagFlow ==
  \A j \in Job : /\ queued[j] => queued'[j]
                 /\ completed'[j] => completed[j] \/ j \in Claimed \/ ~queued[j]

AddFlow ==
  \A j \in Added' : j \in Added \/ (~queued[j] /\ queued'[j] /\ ~completed'[j])

WorkFlow == \A j \in InWork' : j \in InWork \/ (j \in Added /\ j \notin Added')

TriggerFlow ==
  \A t \in triggers' :
    \/ t \in triggers
    \/ t.job \in InWork /\ t.job \notin InWork'
    \/ /\ t.kind # "failed"
       /\ \E u \in triggers \ triggers' : u.kind = "failed" /\ u.job = t.job

ClaimFlow ==
  \A j \in Claimed' : j \in Claimed \/ \E t \in triggers : t.job = j /\ t.kind # "failed"

Flow == FlagFlow /\ AddFlow /\ WorkFlow /\ TriggerFlow /\ ClaimFlow

LEMMA StageSets ==
  ASSUME TypeInv
  PROVE  /\ Added \subseteq Job /\ InWork \subseteq Job
         /\ Reported \subseteq Job /\ Claimed \subseteq Job
         /\ \A t \in triggers : t.job \in Reported
BY DEF TypeInv, TypeOK, Added, InWork, Reported, Claimed, Trigger

LEMMA FlowReported ==
  ASSUME TypeInv, TypeInv', Flow, NEW j \in Reported'
  PROVE  j \in InWork \cup Reported
<1>1. PICK t \in triggers' : t.job = j
  BY DEF Reported
<1> QED
  BY <1>1, StageSets DEF Flow, TriggerFlow

LEMMA FlowOpen ==
  ASSUME StageInv, Flow, NEW j \in Job, queued[j], ~completed[j], j \notin Claimed
  PROVE  queued'[j] /\ ~completed'[j]
BY DEF Flow, FlagFlow

LEMMA FlowStage ==
  ASSUME TypeInv, TypeInv', StageInv, Flow
  PROVE  StageInv'
<1> USE StageSets
<1>1. /\ Added' \subseteq Job /\ InWork' \subseteq Job
      /\ Reported' \subseteq Job /\ Claimed' \subseteq Job
      /\ triggers \subseteq Trigger /\ triggers' \subseteq Trigger
  BY DEF TypeInv, TypeOK, Added, InWork, Reported, Claimed, Trigger
<1>2. \A j \in Added' \cup InWork' \cup Reported' \cup Claimed' : queued'[j]
  BY <1>1, FlowReported DEF StageInv, Flow, FlagFlow, AddFlow, WorkFlow, ClaimFlow
<1>3. ASSUME NEW j \in Added'
      PROVE  ~completed'[j] /\ j \notin InWork' \cup Reported' \cup Claimed'
  <2>1. j \notin InWork /\ j \notin Reported /\ j \notin Claimed
    BY <1>1, <1>3 DEF StageInv, Flow, AddFlow
  <2>2. ~completed'[j]
    BY <1>1, <1>3, <2>1, FlowOpen DEF StageInv, Flow, AddFlow
  <2> QED
    BY <1>3, <2>1, <2>2, FlowReported DEF Flow, WorkFlow, ClaimFlow
<1>4. ASSUME NEW j \in InWork'
      PROVE  ~completed'[j] /\ j \notin Reported' \cup Claimed'
  <2>1. j \notin Reported /\ j \notin Claimed /\ ~completed[j] /\ queued[j] /\ j \in Job
    BY <1>1, <1>4 DEF StageInv, Flow, WorkFlow
  <2>2. j \notin Claimed'
    BY <1>4, <2>1 DEF Flow, ClaimFlow
  <2>3. ASSUME NEW t \in triggers', t.job = j
        PROVE  FALSE
    BY <1>4, <2>1, <2>3 DEF Flow, TriggerFlow
  <2> QED
    BY <2>1, <2>2, <2>3, FlowOpen DEF Reported
<1> QED
  BY <1>2, <1>3, <1>4 DEF StageInv

-----------------------------------------------------------------------------
(* Conditions.  The job that a condition tests is recorded before any other *)
(* job is queued or skipped, so that the condition no longer changes.       *)

Tested(d) == \E j \in Job : d \in CondReads[j]

Unrecorded(d) ==
  ~completed[d] \/ \E h \in Handler : pc[h] \in Completing /\ ctx[h].job = d

RootInv ==
  \A d \in Job : Tested(d) /\ Unrecorded(d) =>
    /\ \A h \in Handler : ctx[h].mode # "dag"
    /\ \A j \in Job : queued[j] \/ completed[j] => j = d

LEMMA OutputStable ==
  ASSUME OnlyRootTested, TypeInv, StageInv, ModeInv, CondInv, [Next]_vars,
         NEW d \in Job, Tested(d), ~Unrecorded(d)
  PROVE  output'[d] = output[d]
<1>1. output \in [Job -> Recorded] /\ CondReads[d] = {} /\ saving[d] = "idle"
  BY DEF TypeInv, TypeOK, Tested, OnlyRootTested
<1>2. ASSUME NEW h \in Handler, HandlerStep(h) \/ StartCancel(h), output' # output
      PROVE  output'[d] = output[d]
  <2>1. CASE pc[h] = "output"
    <3>1. d # ctx[h].job
      BY <2>1 DEF Unrecorded, Completing
    <3> QED
      BY <1>2, <2>1, <3>1, OutputFacts
  <2>2. CASE pc[h] = "skipOutput"
    <3>1. output' = [output EXCEPT ![ctx[h].cand] = "skipped"]
      BY <1>2, <2>2, OutputFacts
    <3>2. ~ConditionTrue(ctx[h].cand)
      BY <2>2 DEF CondInv, CondOK, Skipping
    <3>3. d # ctx[h].cand
      BY <1>1, <3>2 DEF ConditionTrue
    <3> QED
      BY <1>1, <3>1, <3>3
  <2> QED
    BY <1>2, <2>1, <2>2, OutputFacts
<1>3. ASSUME NEW h \in Handler, NEW t \in triggers, Gate(h, t)
      PROVE  output' = output
  BY <1>3 DEF Gate, GateCompletion, GateFailure, Salvage, recordVars
<1>4. ASSUME NEW j \in Job, Work(j)
      PROVE  output'[d] = output[d]
  <2>1. CASE PersistJobOutput(j)
    <3>1. d # j
      BY <1>1, <2>1 DEF PersistJobOutput, Recorded, Own
    <3> QED
      BY <1>1, <2>1, <3>1 DEF PersistJobOutput
  <2>2. CASE ~PersistJobOutput(j)
    BY <1>4, <2>2 DEF Work, Dispatch, StartExecution, DispatchFails, Execution, recordVars,
                      StartSaving, ReadRecorded, AgentEnds, AgentDies, SpecialEnds,
                      SpecialDies, Ended
  <2> QED
    BY <2>1, <2>2
<1> QED
  BY <1>2, <1>3, <1>4 DEF Next, Over, vars, recordVars

LEMMA ConditionKept ==
  ASSUME OnlyRootTested, TypeInv, StageInv, ModeInv, CondInv, RootInv, [Next]_vars,
         NEW j \in Job,
         queued[j] \/ completed[j] \/ \E h \in Handler : ctx[h].mode = "dag"
  PROVE  \A d \in CondReads[j] : output'[d] = output[d]
<1> SUFFICES ASSUME NEW d \in CondReads[j]
             PROVE  output'[d] = output[d]
  OBVIOUS
<1>1. d \in Job /\ Tested(d)
  BY ConstantsAssumption DEF Tested
<1>2. d # j
  BY <1>1 DEF OnlyRootTested
<1>3. ~Unrecorded(d)
  BY <1>1, <1>2 DEF RootInv
<1> QED
  BY <1>1, <1>3, OutputStable

LEMMA CondStep ==
  ASSUME OnlyRootTested, TypeInv, ModeInv, CondInv, NEW h \in Handler, Kept,
         Moved(h), ModeOK(pc'[h], ctx'[h]), CondOK(pc'[h], ctx'[h]),
         TypeInv',
         output' = output \/ (ctx'[h].mode = "dag" => ctx[h].mode = "dag"),
         \A j \in Job : queued[j] \/ completed[j] \/ (\E g \in Handler : ctx[g].mode = "dag")
                        => \A d \in CondReads[j] : output'[d] = output[d],
         \A j \in Job : queued'[j] /\ ~queued[j] => output' = output /\ ConditionTrue(j),
         \A j \in Job : completed'[j] /\ ~completed[j] =>
                          queued[j] \/ (output' = output /\ ~ConditionTrue(j))
  PROVE  ModeInv' /\ CondInv'
<1>1. \A g \in Handler : ModeOK(pc'[g], ctx'[g]) /\ CondOK(pc'[g], ctx'[g])
  BY DEF Moved, ModeInv, CondInv
<1>2. ModeInv'
  BY <1>1 DEF ModeInv, ModeOK
<1>3. ASSUME NEW g \in Handler, pc'[g] \in Queueing \cup Skipping
      PROVE  \A d \in CondReads[ctx'[g].cand] : output'[d] = output[d]
  <2>1. ctx'[g].cand \in Job
    BY <1>3 DEF TypeInv, HandlersOK, CandidateLabels, Queueing, Skipping
  <2>2. CASE ctx'[g].mode = "dag"
    <3>1. output' = output \/ ctx[g].mode = "dag"
      BY <2>2 DEF Moved
    <3> QED
      BY <2>1, <3>1
  <2>3. CASE ctx'[g].mode # "dag"
    <3>1. ctx'[g].cand \in InitialJobs
      BY <1>1, <1>3, <2>3 DEF ModeOK, DagLabels
    <3>2. CondReads[ctx'[g].cand] = {}
      BY <2>1, <3>1, ConstantsAssumption DEF OnlyRootTested
    <3> QED
      BY <3>2
  <2> QED
    BY <2>2, <2>3
<1>4. ASSUME NEW g \in Handler
      PROVE  CondOK(pc[g], ctx[g])'
  BY <1>1, <1>3 DEF CondOK, ConditionTrue
<1>5. ASSUME NEW j \in Job
      PROVE  /\ queued'[j] => \A d \in CondReads[j] : output'[d] = "met"
             /\ completed'[j] /\ ~queued'[j] => ~\A d \in CondReads[j] : output'[d] = "met"
  BY DEF CondInv, ConditionTrue, Kept
<1> QED
  BY <1>2, <1>4, <1>5 DEF CondInv, ConditionTrue

\* What a step of a handler changes in the flags, and of which job.
LEMMA FlagCauses ==
  ASSUME TypeInv, ClaimInv, CompletionInv, StageInv, NEW h \in Handler,
         HandlerStep(h) \/ StartCancel(h), NEW j \in Job
  PROVE  /\ queued'[j] /\ ~queued[j] => pc[h] = "queue" /\ j = ctx[h].cand
         /\ completed'[j] /\ ~completed[j] =>
              \/ pc[h] = "claim" /\ j = ctx[h].job /\ j \in Claimed /\ queued[j]
              \/ pc[h] = "skipCompleted" /\ j = ctx[h].cand
<1>1. Linear(h)
  BY DEF ClaimInv
<1>2. pc[h] = "completed" => completed[ctx[h].job]
  BY DEF CompletionInv, Completing
<1>3. pc[h] = "claim" /\ j = ctx[h].job => j \in Claimed /\ queued[j]
  BY DEF Claimed, StageInv
<1> QED
  BY <1>1, <1>2, <1>3, FlagFacts

LEMMA NextCond ==
  ASSUME NoTransitions, Strict = {}, OnlyRootTested, SafeInv, NeedsInv, StageInv,
         ModeInv, CondInv, RootInv, [Next]_vars
  PROVE  ModeInv' /\ CondInv'
<1> USE DEF SafeInv
<1>1. TypeInv'
  BY StepTypes
<1>2. \A j \in Job :
        queued[j] \/ completed[j] \/ (\E g \in Handler : ctx[g].mode = "dag")
        => \A d \in CondReads[j] : output'[d] = output[d]
  BY ConditionKept
<1>3. ASSUME NEW h \in Handler, HandlerStep(h) \/ StartCancel(h)
      PROVE  ModeInv' /\ CondInv'
  <2>1. Linear(h) /\ ModeOK(pc[h], ctx[h]) /\ CondOK(pc[h], ctx[h])
    BY DEF ClaimInv, ModeInv, CondInv
  <2>2. LifeHead(h)
    BY <1>3, <2>1, HandlerLife
  <2>3. Kept
    BY <1>3, <2>1, StepKinds, KindsKeep
  <2>4. pc[h] \in {"output", "skipOutput"} \/ output' = output
    BY <1>3, OutputFacts
  <2>5. output' = output \/ (ctx'[h].mode = "dag" => ctx[h].mode = "dag")
    BY <2>2, <2>4 DEF LifeHead
  <2>6. ASSUME NEW j \in Job, queued'[j], ~queued[j]
        PROVE  output' = output /\ ConditionTrue(j)
    <3>1. pc[h] = "queue" /\ j = ctx[h].cand
      BY <1>3, <2>6, FlagCauses
    <3> QED
      BY <2>1, <2>4, <3>1 DEF CondOK, Queueing
  <2>7. ASSUME NEW j \in Job, completed'[j], ~completed[j], ~queued[j]
        PROVE  output' = output /\ ~ConditionTrue(j)
    <3>1. pc[h] = "skipCompleted" /\ j = ctx[h].cand
      BY <1>3, <2>7, FlagCauses
    <3> QED
      BY <2>1, <2>4, <3>1 DEF CondOK, Skipping
  <2> QED
    BY <1>1, <1>2, <2>2, <2>3, <2>5, <2>6, <2>7, CondStep DEF LifeHead
<1>4. ASSUME NEW h \in Handler, NEW t \in triggers, Gate(h, t)
      PROVE  ModeInv' /\ CondInv'
  <2>1. UNCHANGED <<queued, completed, output>>
    BY <1>4 DEF Gate, GateCompletion, GateFailure, Salvage, flagVars, recordVars
  <2>2. ModeOK(pc[h], ctx[h])
    BY DEF ModeInv
  <2>3. /\ Moved(h) /\ ModeOK(pc'[h], ctx'[h]) /\ CondOK(pc'[h], ctx'[h])
        /\ ctx'[h].mode = "dag" => ctx[h].mode = "dag"
    BY <1>4, <2>2, GateLife
  <2>4. Kept
    BY <2>1 DEF Kept
  <2> QED
    BY <1>1, <1>2, <2>1, <2>3, <2>4, CondStep
<1>5. ASSUME UNCHANGED <<pc, ctx, queued, completed>>
      PROVE  ModeInv' /\ CondInv'
  <2>1. Launcher \in Handler
    BY ConstantsAssumption
  <2>2. /\ Moved(Launcher) /\ Kept
        /\ ModeOK(pc'[Launcher], ctx'[Launcher]) /\ CondOK(pc'[Launcher], ctx'[Launcher])
    BY <1>5, <2>1 DEF Moved, Kept, ModeInv, CondInv
  <2> QED
    BY <1>1, <1>2, <1>5, <2>1, <2>2, CondStep
<1>6. ASSUME NEW j \in Job, Work(j)
      PROVE  ModeInv' /\ CondInv'
  BY <1>5, <1>6, WorkIdle DEF flagVars
<1>7. CASE UNCHANGED vars
  BY <1>5, <1>7 DEF vars, flagVars
<1> QED
  BY <1>3, <1>4, <1>6, <1>7 DEF Next, Over

LEMMA RootStep ==
  ASSUME OnlyRootTested, TypeInv, CompletionInv, StageInv, ModeInv, RootInv,
         NEW h \in Handler, Kept, LifeHead(h), ClaimInv,
         HandlerStep(h) \/ StartCancel(h),
         Ordinary(h) \/ Claims(h) \/ Adds(h) \/ Completes(h)
  PROVE  RootInv'
<1> SUFFICES ASSUME NEW d \in Job, Tested(d), Unrecorded(d)'
             PROVE  /\ \A g \in Handler : ctx'[g].mode # "dag"
                    /\ \A j \in Job : queued'[j] \/ completed'[j] => j = d
  BY DEF RootInv, Tested
<1>1. ~completed[d] \/ \E g \in Handler : pc[g] \in Completing /\ ctx[g].job = d
  <2>1. CASE ~completed'[d]
    BY <2>1 DEF Kept
  <2>2. ASSUME NEW g \in Handler, pc'[g] \in Completing, ctx'[g].job = d, g # h
        PROVE  pc[g] \in Completing /\ ctx[g].job = d
    BY <2>2 DEF LifeHead, Moved
  <2>3. CASE pc'[h] \in Completing /\ ctx'[h].job = d
    BY <2>3 DEF Ordinary, Claims, Adds, Completes, Completing
  <2> QED
    BY <2>1, <2>2, <2>3 DEF Unrecorded
<1>2. /\ \A g \in Handler : ctx[g].mode # "dag"
      /\ \A j \in Job : queued[j] \/ completed[j] => j = d
  BY <1>1 DEF RootInv, Unrecorded
<1>3. ASSUME ctx'[h].mode = "dag"
      PROVE  FALSE
  <2>1. pc[h] = "route" /\ pc'[h] = "advance"
    BY <1>2, <1>3 DEF LifeHead
  <2>2. completed[ctx[h].job] /\ ctx[h].job \in Job
    BY <2>1, HandlerFacts DEF CompletionInv, Completing, JobLabels
  <2>3. ctx[h].job = d /\ completed'[d]
    BY <1>2, <2>2 DEF Kept
  <2>4. ASSUME NEW g \in Handler, pc'[g] \in Completing, ctx'[g].job = d
        PROVE  FALSE
    <3>1. g # h
      BY <2>1, <2>4 DEF Completing
    <3>2. pc[g] \in Completing /\ ctx[g].job = d
      BY <2>4, <3>1 DEF LifeHead, Moved
    <3> QED
      BY <2>1, <2>3, <3>1, <3>2 DEF CompletionInv, OneCompletionPerJob, Completing
  <2> QED
    BY <2>3, <2>4 DEF Unrecorded
<1>4. ASSUME NEW j \in Job, queued'[j], ~queued[j]
      PROVE  j = d
  <2>1. pc[h] = "queue" /\ j = ctx[h].cand
    BY <1>4, FlagCauses
  <2>2. j \in InitialJobs
    BY <1>2, <2>1 DEF ModeInv, ModeOK, Queueing
  <2> QED
    BY <2>2 DEF OnlyRootTested, Tested
<1>5. ASSUME NEW j \in Job, completed'[j], ~completed[j]
      PROVE  j = d
  <2>1. CASE queued[j]
    BY <1>2, <2>1
  <2>2. CASE pc[h] = "skipCompleted"
    BY <1>2, <2>2 DEF ModeInv, ModeOK, DagLabels, Skipping
  <2> QED
    BY <1>5, <2>1, <2>2, FlagCauses
<1> QED
  BY <1>2, <1>3, <1>4, <1>5 DEF LifeHead, Moved

LEMMA NextRoot ==
  ASSUME NoTransitions, Strict = {}, OnlyRootTested, SafeInv, NeedsInv, StageInv,
         ModeInv, CondInv, RootInv, [Next]_vars
  PROVE  RootInv'
<1> USE DEF SafeInv
<1>1. ASSUME NEW h \in Handler, HandlerStep(h) \/ StartCancel(h)
      PROVE  RootInv'
  <2>1. Linear(h) /\ ModeOK(pc[h], ctx[h]) /\ CondOK(pc[h], ctx[h])
    BY DEF ClaimInv, ModeInv, CondInv
  <2>2. LifeHead(h)
    BY <1>1, <2>1, HandlerLife
  <2>3. Ordinary(h) \/ Claims(h) \/ Adds(h) \/ Completes(h)
    BY <1>1, <2>1, StepKinds
  <2>4. Kept
    BY <2>3, KindsKeep
  <2> QED
    BY <1>1, <2>2, <2>3, <2>4, RootStep
<1>2. ASSUME NEW h \in Handler, NEW t \in triggers, Gate(h, t)
      PROVE  RootInv'
  <2>1. UNCHANGED <<queued, completed>>
    BY <1>2 DEF Gate, GateCompletion, GateFailure, Salvage, flagVars
  <2>2. ModeOK(pc[h], ctx[h])
    BY DEF ModeInv
  <2>3. /\ Moved(h)
        /\ ctx'[h].mode = "dag" => ctx[h].mode = "dag"
        /\ pc'[h] \in {"idle", "claim", "failing"}
    BY <1>2, <2>2, GateLife
  <2>4. \A g \in Handler : /\ ctx'[g].mode = "dag" => ctx[g].mode = "dag"
                           /\ pc'[g] \in Completing => pc[g] \in Completing /\ ctx'[g] = ctx[g]
    BY <2>3 DEF Moved, Completing
  <2>5. \A d \in Job : Unrecorded(d)' => Unrecorded(d)
    BY <2>1, <2>4 DEF Unrecorded
  <2> QED
    BY <2>1, <2>4, <2>5 DEF RootInv, Tested
<1>3. ASSUME UNCHANGED <<pc, ctx, queued, completed>>
      PROVE  RootInv'
  BY <1>3 DEF RootInv, Tested, Unrecorded
<1>4. ASSUME NEW j \in Job, Work(j)
      PROVE  RootInv'
  BY <1>3, <1>4, WorkIdle DEF flagVars
<1>5. CASE UNCHANGED vars
  BY <1>3, <1>5 DEF vars, flagVars
<1> QED
  BY <1>1, <1>2, <1>4, <1>5 DEF Next, Over

-----------------------------------------------------------------------------
(* Every step moves jobs through the stages in their order. *)

LEMMA HandlerFlags ==
  ASSUME SafeInv, StageInv, ModeInv, CondInv, NEW h \in Handler,
         HandlerStep(h) \/ StartCancel(h), LifeHead(h),
         Ordinary(h) \/ Claims(h) \/ Adds(h) \/ Completes(h)
  PROVE  FlagFlow /\ AddFlow /\ ClaimFlow
<1> USE DEF SafeInv
<1>1. CondOK(pc[h], ctx[h])
  BY DEF CondInv
<1>2. FlagFlow
  <2>1. Kept
    BY KindsKeep
  <2>2. ASSUME NEW j \in Job, completed'[j], ~completed[j], j \notin Claimed
        PROVE  ~queued[j]
    <3>1. pc[h] = "skipCompleted" /\ j = ctx[h].cand
      BY <2>2, FlagCauses
    <3> QED
      BY <1>1, <3>1 DEF CondOK, CondInv, Skipping
  <2> QED
    BY <2>1, <2>2 DEF FlagFlow, Kept
<1>3. AddFlow
  <2> SUFFICES ASSUME NEW j \in Added', j \notin Added
               PROVE  ~queued[j] /\ queued'[j] /\ ~completed'[j]
    BY DEF AddFlow
  <2>1. PICK g \in Handler : pc'[g] = "add" /\ ctx'[g].cand = j
    BY DEF Added
  <2>2. j \in Job
    BY DEF Added
  <2>3. g = h
    BY <2>1, <2>2 DEF Added, LifeHead, Moved
  <2>4. Claims(h)
    BY <2>1, <2>3 DEF Ordinary, Adds, Completes
  <2>5. ctx[h].cand = j /\ ~queued[j] /\ queued'[j] /\ completed' = completed
    BY <2>1, <2>2, <2>3, <2>4 DEF Claims, TypeInv, TypeOK
  <2>6. ConditionTrue(j)
    BY <1>1, <2>4, <2>5 DEF Claims, CondOK, Queueing
  <2>7. ~completed[j]
    BY <2>2, <2>5, <2>6 DEF CondInv
  <2> QED
    BY <2>5, <2>7
<1>4. ClaimFlow
  BY DEF ClaimFlow, Claimed, LifeHead, Moved
<1> QED
  BY <1>2, <1>3, <1>4

LEMMA KillFlow ==
  ASSUME TypeInv, StageInv, Apart, KillAgents, stepQueue' \subseteq stepQueue,
         dispatching' = dispatching
  PROVE  WorkFlow /\ TriggerFlow /\ Apart'
<1>1. running' = running \cap Special
  BY DEF KillAgents
<1>2. InWork' \subseteq InWork /\ Apart'
  BY <1>1 DEF InWork, Apart
<1>3. ASSUME NEW t \in triggers', t \notin triggers
      PROVE  t.job \in InWork /\ t.job \notin InWork'
  <2>1. PICK j \in running \ Special : t = Failure(j)
    BY <1>3 DEF KillAgents
  <2>2. t.job = j
    BY <2>1 DEF Failure
  <2> QED
    BY <1>1, <2>2 DEF InWork, Apart
<1> QED
  BY <1>2, <1>3 DEF WorkFlow, TriggerFlow

LEMMA HandlerWork ==
  ASSUME SafeInv, StageInv, Apart, NEW h \in Handler,
         HandlerStep(h) \/ StartCancel(h), LifeHead(h)
  PROVE  WorkFlow /\ TriggerFlow /\ Apart'
<1> USE DEF SafeInv
<1>1. CASE UNCHANGED <<workVars, triggers>>
  BY <1>1 DEF workVars, WorkFlow, TriggerFlow, Apart, InWork
<1>2. CASE Add(h)
  <2> DEFINE j == ctx[h].cand
  <2>1. /\ pc[h] = "add" /\ pc'[h] # "add" /\ j \in Job
        /\ dispatching' = dispatching /\ running' = running /\ triggers' = triggers
        /\ stepQueue' = stepQueue \/ stepQueue' = stepQueue \cup {j}
    BY <1>2, HandlerFacts, ReturnFacts DEF Add, CandidateLabels, ClaimInv
  <2>2. j \in Added
    BY <2>1 DEF Added
  <2>3. j \notin Added'
    <3> SUFFICES ASSUME NEW g \in Handler, pc'[g] = "add", ctx'[g].cand = j
                 PROVE  FALSE
      BY DEF Added
    <3>1. g # h
      BY <2>1
    <3> QED
      BY <2>1, <3>1 DEF LifeHead, Moved, ClaimInv
  <2>4. j \notin InWork
    BY <2>2 DEF StageInv
  <2> HIDE DEF j
  <2> QED
    BY <2>1, <2>2, <2>3, <2>4 DEF WorkFlow, TriggerFlow, Apart, InWork
<1>3. CASE CloseRun(h)
  BY <1>3, KillFlow DEF CloseRun
<1>4. CASE CancelKill(h)
  BY <1>4, KillFlow DEF CancelKill
<1>5. CASE CancelPurge(h)
  BY <1>5 DEF CancelPurge, WorkFlow, TriggerFlow, Apart, InWork
<1> QED
  BY <1>1, <1>2, <1>3, <1>4, <1>5, WorkWrites

LEMMA HandlerFlow ==
  ASSUME SafeInv, StageInv, Apart, ModeInv, CondInv, NEW h \in Handler,
         HandlerStep(h) \/ StartCancel(h), LifeHead(h),
         Ordinary(h) \/ Claims(h) \/ Adds(h) \/ Completes(h)
  PROVE  Flow /\ Apart'
BY HandlerFlags, HandlerWork DEF Flow

LEMMA GateFlow ==
  ASSUME TypeInv, StageInv, Apart, ModeInv, NEW h \in Handler, NEW t \in triggers,
         Gate(h, t)
  PROVE  Flow /\ Apart'
<1>1. UNCHANGED <<queued, completed, stepQueue, dispatching, running>>
  BY DEF Gate, GateCompletion, GateFailure, Salvage, flagVars, workVars
<1>2. Moved(h) /\ pc'[h] \in {"idle", "claim", "failing"}
  BY GateLife DEF ModeInv
<1>3. FlagFlow /\ WorkFlow /\ Apart'
  BY <1>1 DEF FlagFlow, WorkFlow, Apart, InWork
<1>4. AddFlow
  BY <1>2 DEF AddFlow, Added, Moved
<1>5. pc'[h] = "claim" => t.kind # "failed" /\ ctx'[h].job = t.job
  <2>1. t.job \in Job /\ t.result \in Results /\ pc[h] = "idle"
    BY TriggerFacts DEF TypeInv, TypeOK, Gate, GateCompletion, GateFailure, Salvage
  <2>2. CASE GateCompletion(h, t)
    <3>1. CASE Step(h, "claim", Starting(t.job, t.result))
      BY <2>1, <2>2, <3>1, MovedFacts, StartingFacts DEF GateCompletion, Labels
    <3>2. CASE UNCHANGED <<pc, ctx>>
      BY <2>1, <3>2
    <3> QED
      BY <2>2, <3>1, <3>2 DEF GateCompletion
  <2>3. CASE GateFailure(h, t) \/ Salvage(h, t)
    <3>1. CASE StartFailing(h, t.job)
      BY <2>1, <3>1, StartFailingFacts
    <3>2. CASE UNCHANGED <<pc, ctx>>
      BY <2>1, <3>2
    <3> QED
      BY <2>3, <3>1, <3>2 DEF GateFailure, Salvage
  <2> QED
    BY <2>2, <2>3 DEF Gate
<1>6. ClaimFlow
  BY <1>2, <1>5 DEF ClaimFlow, Claimed, Moved
<1>7. TriggerFlow
  <2>1. CASE GateCompletion(h, t) \/ GateFailure(h, t)
    BY <2>1 DEF GateCompletion, GateFailure, TriggerFlow
  <2>2. CASE Salvage(h, t)
    <3> DEFINE r == [job |-> t.job, kind |-> "turn_end", result |-> "success"]
    <3>1. /\ t.kind = "failed" /\ r.kind = "turn_end" /\ r.job = t.job
          /\ triggers' = (triggers \ {t}) \cup {r}
      BY <2>2 DEF Salvage
    <3> HIDE DEF r
    <3>2. t \in triggers \ triggers'
      BY <3>1
    <3> QED
      BY <3>1, <3>2 DEF TriggerFlow
  <2> QED
    BY <2>1, <2>2 DEF Gate
<1> QED
  BY <1>3, <1>4, <1>6, <1>7 DEF Flow

\* An execution, or a dispatch, of j ends and is reported.
LEMMA ReportFlow ==
  ASSUME NEW j \in InWork, NEW ts, triggers' = triggers \cup ts,
         \A t \in ts : t.job = j, j \notin InWork'
  PROVE  TriggerFlow
BY DEF TriggerFlow

LEMMA WorkFlows ==
  ASSUME TypeInv, StageInv, Apart, CondInv, NEW j \in Job, Work(j)
  PROVE  Flow /\ Apart'
<1>1. FlagFlow /\ AddFlow /\ ClaimFlow
  BY WorkIdle DEF flagVars, FlagFlow, AddFlow, ClaimFlow, Added, Claimed
<1>2. CASE Dispatch(j)
  <2>1. j \in InWork /\ ConditionTrue(j)
    BY <1>2 DEF Dispatch, InWork, StageInv, CondInv
  <2>2. /\ triggers' = triggers /\ running' = running /\ stepQueue' = stepQueue \ {j}
        /\ dispatching' = dispatching \/ dispatching' = dispatching \cup {j}
    BY <1>2, <2>1 DEF Dispatch
  <2> QED
    BY <1>1, <1>2, <2>2 DEF Dispatch, Flow, WorkFlow, TriggerFlow, Apart, InWork
<1>3. CASE StartExecution(j)
  BY <1>1, <1>3 DEF StartExecution, Flow, WorkFlow, TriggerFlow, Apart, InWork
<1>4. CASE StartSaving(j) \/ ReadRecorded(j) \/ PersistJobOutput(j)
  BY <1>1, <1>4 DEF StartSaving, ReadRecorded, PersistJobOutput, workVars, Flow, WorkFlow,
                    TriggerFlow, Apart, InWork
<1>5. ASSUME NEW ts, triggers' = triggers \cup ts, \A t \in ts : t.job = j,
             stepQueue' = stepQueue,
             \/ j \in dispatching /\ dispatching' = dispatching \ {j} /\ running' = running
             \/ j \in running /\ running' = running \ {j} /\ dispatching' = dispatching
      PROVE  Flow /\ Apart'
  <2>1. j \in InWork /\ j \notin InWork' /\ InWork' \subseteq InWork /\ Apart'
    BY <1>5 DEF InWork, Apart
  <2>2. TriggerFlow
    BY <1>5, <2>1, ReportFlow
  <2> QED
    BY <1>1, <2>1, <2>2 DEF Flow, WorkFlow
<1>6. PICK failures : failures = {Failure(j)}
  OBVIOUS
<1>7. \A t \in failures : t.job = j
  BY <1>6 DEF Failure
<1>8. CASE DispatchFails(j)
  <2>1. /\ triggers' = triggers \cup failures /\ stepQueue' = stepQueue
        /\ j \in dispatching /\ dispatching' = dispatching \ {j} /\ running' = running
    BY <1>6, <1>8 DEF DispatchFails
  <2> QED
    BY <1>5, <1>7, <2>1
<1>9. CASE AgentDies(j) \/ SpecialDies(j)
  <2>1. /\ triggers' = triggers \cup failures /\ stepQueue' = stepQueue
        /\ j \in running /\ running' = running \ {j} /\ dispatching' = dispatching
    BY <1>6, <1>9 DEF AgentDies, SpecialDies, Ended
  <2> QED
    BY <1>5, <1>7, <2>1
<1>10. CASE AgentEnds(j) \/ SpecialEnds(j)
  <2>1. PICK ts :
          /\ triggers' = triggers \cup ts
          /\ \A t \in ts : t.job = j
    <3>1. CASE AgentEnds(j)
      <4>1. PICK later \in {{}, {Failure(j)}} :
              Ended(j, later \cup {[job |-> j, kind |-> k, result |-> "success"] :
                                      k \in {"turn_end", "event"}})
        BY <3>1 DEF AgentEnds
      <4> DEFINE ts == later \cup {[job |-> j, kind |-> k, result |-> "success"] :
                                      k \in {"turn_end", "event"}}
      <4>2. triggers' = triggers \cup ts
        BY <4>1 DEF Ended
      <4>3. \A t \in ts : t.job = j
        BY DEF Failure
      <4> QED
        BY <4>2, <4>3
    <3>2. CASE SpecialEnds(j)
      <4>1. PICK r \in {"success", "failed"} :
              triggers' = triggers \cup {[job |-> j, kind |-> "turn_end", result |-> r]}
        BY <3>2 DEF SpecialEnds, Ended
      <4> DEFINE ts == {[job |-> j, kind |-> "turn_end", result |-> r]}
      <4>2. triggers' = triggers \cup ts
        BY <4>1
      <4>3. \A t \in ts : t.job = j
        OBVIOUS
      <4> HIDE DEF ts
      <4> QED
        BY <4>2, <4>3
    <3> QED
      BY <1>10, <3>1, <3>2
  <2>2. /\ stepQueue' = stepQueue /\ dispatching' = dispatching
        /\ j \in running /\ running' = running \ {j}
    BY <1>10 DEF AgentEnds, SpecialEnds, Ended
  <2> QED
    BY <1>5, <2>1, <2>2
<1> QED
  BY <1>2, <1>3, <1>4, <1>8, <1>9, <1>10 DEF Work, Execution

-----------------------------------------------------------------------------
(* The inductive invariant of the two theorems below. *)

LifeInv ==
  /\ SafeInv /\ NeedsInv /\ ScanInv
  /\ ModeInv /\ CondInv /\ RootInv
  /\ StageInv /\ Apart

\* Definitions without transitions and strict skips, whose conditions test at
\* most the job that all others wait for.  A strict skip, and a condition on a
\* job that others do not wait for, can be decided between the claim of a
\* completion and its record, and differently by two handlers.
PlainGraph == NoTransitions /\ Strict = {} /\ OnlyRootTested /\ InitialJobs # {}

LEMMA InitLife == Init => LifeInv
<1> SUFFICES ASSUME Init PROVE LifeInv
  OBVIOUS
<1>1. ASSUME NEW h \in Handler
      PROVE  /\ pc[h] \in {"launch", "idle"} /\ ctx[h].mode # "dag"
             /\ pc[h] = "launch" => ctx[h].mode = "launch"
             /\ ctx[h].mode = "launch" => ctx[h].todo \subseteq InitialJobs
  BY DEF Init, NoContext
<1>2. /\ status = "RUNNING" /\ stepQueue = {} /\ dispatching = {} /\ running = {}
      /\ triggers = {}
      /\ \A j \in Job : ~queued[j] /\ ~completed[j] /\ output[j] = "none" /\ result[j] = "none"
  BY DEF Init
<1>3. Added = {} /\ InWork = {} /\ Reported = {} /\ Claimed = {}
  BY <1>1, <1>2 DEF Added, InWork, Reported, Claimed
<1>4. SafeInv /\ NeedsInv /\ ScanInv
  BY <1>1, <1>2, InitSafe DEF NeedsInv, ScanInv, CompletedMeansAllJobs
<1>5. ModeInv /\ CondInv /\ RootInv
  BY <1>1, <1>2
  DEF ModeInv, ModeOK, CondInv, CondOK, RootInv, Queueing, DagLabels, Skipping
<1>6. StageInv /\ Apart
  BY <1>2, <1>3 DEF StageInv, Apart
<1> QED
  BY <1>4, <1>5, <1>6 DEF LifeInv

LEMMA NextFlow ==
  ASSUME PlainGraph, LifeInv, [Next]_vars
  PROVE  Flow /\ Apart'
<1> USE DEF LifeInv, PlainGraph
<1>1. TypeInv /\ ClaimInv /\ TypeInv'
  BY StepTypes DEF SafeInv
<1>2. ASSUME NEW h \in Handler, HandlerStep(h) \/ StartCancel(h)
      PROVE  Flow /\ Apart'
  <2>1. Linear(h) /\ ModeOK(pc[h], ctx[h]) /\ CondOK(pc[h], ctx[h])
    BY <1>1 DEF ClaimInv, ModeInv, CondInv
  <2>2. LifeHead(h)
    BY <1>1, <1>2, <2>1, HandlerLife
  <2>3. Ordinary(h) \/ Claims(h) \/ Adds(h) \/ Completes(h)
    BY <1>1, <1>2, <2>1, StepKinds
  <2> QED
    BY <1>2, <2>2, <2>3, HandlerFlow
<1>3. ASSUME NEW h \in Handler, NEW t \in triggers, Gate(h, t)
      PROVE  Flow /\ Apart'
  BY <1>1, <1>3, GateFlow
<1>4. ASSUME NEW j \in Job, Work(j)
      PROVE  Flow /\ Apart'
  BY <1>1, <1>4, WorkFlows
<1>5. CASE UNCHANGED vars
  <2> USE <1>5 DEF vars, runVars, flagVars, recordVars, workVars
  <2>1. UNCHANGED <<Added, InWork, Reported, Claimed>>
    BY DEF Added, InWork, Reported, Claimed
  <2> QED
    BY <2>1 DEF Flow, FlagFlow, AddFlow, WorkFlow, TriggerFlow, ClaimFlow, Apart
<1> QED
  BY <1>2, <1>3, <1>4, <1>5 DEF Next, Over

LEMMA NextLife ==
  ASSUME PlainGraph, LifeInv, [Next]_vars
  PROVE  LifeInv'
<1> USE DEF LifeInv, PlainGraph
<1>1. SafeInv'
  BY NextSafe
<1>2. NeedsInv'
  BY NextNeeds DEF PlainNeeds
<1>3. ScanInv'
  BY NextScan
<1>4. ModeInv' /\ CondInv'
  BY NextCond
<1>5. RootInv'
  BY NextRoot
<1>6. Flow /\ Apart'
  BY NextFlow
<1>7. StageInv'
  BY <1>1, <1>6, FlowStage DEF SafeInv
<1> QED
  BY <1>1, <1>2, <1>3, <1>4, <1>5, <1>6, <1>7

\* When the run is COMPLETED no job of it waits, starts or runs: the scan cannot
\* pass over a job that has been queued and is still on its way.
THEOREM CompletedMeansNoWorkHolds ==
  ASSUME PlainGraph
  PROVE  Spec => []CompletedMeansNoWork
<1>1. Init => LifeInv
  BY InitLife
<1>2. LifeInv /\ [Next]_vars => LifeInv'
  BY NextLife
<1>3. LifeInv => CompletedMeansNoWork
  <2> SUFFICES ASSUME LifeInv, status = "COMPLETED", NEW j \in InWork
               PROVE  FALSE
    BY DEF CompletedMeansNoWork, InWork
  <2>1. j \in Job
    BY StageSets DEF LifeInv, SafeInv
  <2> QED
    BY <2>1 DEF LifeInv, ScanInv, CompletedMeansAllJobs, StageInv
<1> QED
  BY <1>1, <1>2, <1>3, PTL DEF Spec

\* A job that has ended as skipped is not put on the queue afterwards, however long
\* the handler that found it eligible waits between its claim and its add.
THEOREM SkipIsFinalHolds ==
  ASSUME PlainGraph
  PROVE  Spec => SkipIsFinal
<1>1. Init => LifeInv
  BY InitLife
<1>2. LifeInv /\ [Next]_vars => LifeInv'
  BY NextLife
<1>3. LifeInv /\ [Next]_vars
      => [\A j \in Job : completed[j] /\ result[j] = "skipped" => adds'[j] = adds[j]]_vars
  <2> SUFFICES ASSUME LifeInv, [Next]_vars, NEW j \in Job, completed[j], adds' # adds
               PROVE  adds'[j] = adds[j]
    OBVIOUS
  <2>1. TypeInv /\ ClaimInv /\ StageInv /\ NoTransitions /\ adds \in [Job -> Nat]
    BY DEF LifeInv, SafeInv, TypeInv, TypeOK, PlainGraph
  <2>2. ASSUME NEW h \in Handler, HandlerStep(h) \/ StartCancel(h)
        PROVE  adds'[j] = adds[j]
    <3>1. Adds(h)
      BY <2>1, <2>2, StepKinds DEF ClaimInv, Ordinary, Claims, Completes
    <3>2. ctx[h].cand \in Added
      BY <3>1 DEF Adds, Added
    <3>3. j # ctx[h].cand
      BY <2>1, <3>2 DEF StageInv
    <3> QED
      BY <2>1, <3>1, <3>3 DEF Adds
  <2>3. ASSUME NEW h \in Handler, NEW t \in triggers, Gate(h, t)
        PROVE  FALSE
    BY <2>3 DEF Gate, GateCompletion, GateFailure, Salvage
  <2>4. ASSUME NEW x \in Job, Work(x)
        PROVE  FALSE
    BY <2>4, WorkIdle
  <2> QED
    BY <2>2, <2>3, <2>4 DEF Next, Over, vars
<1> QED
  BY <1>1, <1>2, <1>3, PTL DEF Spec, SkipIsFinal

-----------------------------------------------------------------------------
(* A RUNNING run is driven.  Every job that could go on has a handler that   *)
(* will consider it, and a run without open jobs one that will complete it.  *)

GraphLabels == DagLabels \cup {"blocked"} \cup Queueing

OnGraph(l, c) == c.mode = "dag" /\ l \in GraphLabels

\* The handler will consider k for the queue.
Takes(l, c, k) ==
  \/ l \in Completing /\ Level[k] > Level[c.job]
  \/ OnGraph(l, c) /\ (k \in c.todo \/ (k = c.cand /\ l \notin {"advance", "add"}))

\* The handler will queue the initial job j.
Launches(l, c, j) ==
  /\ c.mode = "launch"
  /\ l \in Queueing \cup {"launch"}
  /\ j \in c.todo \/ (l = "queue" /\ c.cand = j)

\* The handler will find that every job is completed.
Concludes(l, c) == l \in Completing \cup {"scan", "load", "complete"} \/ OnGraph(l, c)

\* What has been considered comes before what has not.
Ordered(c) ==
  /\ c.job \in Job
  /\ \A x \in c.todo : Level[x] > Level[c.job]
  /\ \A k \in Job \ c.todo, x \in c.todo : Level[k] > Level[c.job] => Rank[k] <= Rank[x]

Placed(c) ==
  /\ c.cand \in Job /\ Level[c.cand] > Level[c.job]
  /\ \A k \in Job \ c.todo : Level[k] > Level[c.job] => Rank[k] <= Rank[c.cand]

OnCourse(l, c) ==
  /\ l \notin {"failGate", "close", "handover", "cancelPurge"}
  /\ l = "launch" => c.mode = "launch"
  /\ l \in Queueing => c.mode \in {"dag", "launch"}
  /\ l \in DagLabels \cup {"blocked"} => c.mode = "dag"
  /\ OnGraph(l, c) => Ordered(c) /\ (l # "advance" => Placed(c))
  /\ l \in {"needs", "blocked"} => c.unread \subseteq NeedIds(c.cand)

NeedsDone(k) == \A d \in NeedIds(k) : completed[d]

\* Queued, not completed, and on its way nowhere.
Lost(j) == queued[j] /\ ~completed[j] /\ j \notin Added \cup InWork \cup Reported \cup Claimed

RunningInv ==
  /\ \A h \in Handler : OnCourse(pc[h], ctx[h])
  /\ \A j \in InitialJobs : queued[j] \/ \E h \in Handler : Launches(pc[h], ctx[h], j)
  /\ \A k \in Job \ InitialJobs : NeedsDone(k) =>
       queued[k] \/ completed[k] \/ \E h \in Handler : Takes(pc[h], ctx[h], k)
  /\ (\A j \in Job : completed[j]) => \E h \in Handler : Concludes(pc[h], ctx[h])
  /\ \A j \in Job : Lost(j) => \E h \in Handler : pc[h] = "failing"

\* A step of h that leaves the run RUNNING drops nothing h was about to do.
DriveHead(h) ==
  /\ Moved(h)
  /\ OnCourse(pc'[h], ctx'[h])
  /\ \A j \in Job : Launches(pc[h], ctx[h], j) => Launches(pc'[h], ctx'[h], j) \/ queued'[j]
  /\ \A k \in Job : Takes(pc[h], ctx[h], k) /\ NeedsDone(k) =>
       Takes(pc'[h], ctx'[h], k) \/ queued'[k] \/ completed'[k]
  /\ Concludes(pc[h], ctx[h]) /\ (\A j \in Job : completed[j]) => Concludes(pc'[h], ctx'[h])

LEMMA CandidatesOnGraph ==
  ASSUME NEW l, NEW c, OnCourse(l, c), l \in (DagLabels \cup {"blocked"}) \/ (l \in Queueing /\ c.mode = "dag")
  PROVE  OnGraph(l, c) /\ Ordered(c) /\ (l # "advance" => Placed(c))
BY DEF OnCourse, OnGraph, GraphLabels

\* Nothing was about to be done and nothing is.
LEMMA AsideDrive ==
  ASSUME TypeInv, NEW h \in Handler,
         pc[h] \in {"idle", "claim", "failing", "cancelKill", "cancelLoad", "cancelWrite"},
         NEW l \in {"idle", "cancelKill", "cancelLoad", "cancelWrite"}, NEW c \in Context,
         Step(h, l, c)
  PROVE  DriveHead(h)
<1>1. Moved(h) /\ pc'[h] = l /\ ctx'[h] = c
  BY MovedFacts DEF Labels
<1> QED
  BY <1>1 DEF DriveHead, OnCourse, Launches, Takes, Concludes, OnGraph, GraphLabels,
              DagLabels, Skipping, Queueing, Completing

\* The candidate goes on.
LEMMA CandidateDrive ==
  ASSUME TypeInv, NEW h \in Handler, OnCourse(pc[h], ctx[h]), OnGraph(pc[h], ctx[h]),
         pc[h] \notin {"advance", "add"},
         NEW l \in {"needs", "blocked", "condition", "queue", "skipOutput", "skipResult",
                    "skipCompleted"},
         NEW c \in Context, Step(h, l, c),
         c.mode = "dag", c.job = ctx[h].job, c.todo = ctx[h].todo, c.cand = ctx[h].cand,
         l \in {"needs", "blocked"} => c.unread \subseteq NeedIds(c.cand)
  PROVE  DriveHead(h)
<1>1. Moved(h) /\ pc'[h] = l /\ ctx'[h] = c
  BY MovedFacts DEF Labels
<1>2. OnGraph(l, c)
  BY DEF OnGraph, GraphLabels, DagLabels, Skipping, Queueing
<1>3. Ordered(c) /\ Placed(c)
  BY DEF OnCourse, Ordered, Placed
<1>4. OnCourse(l, c)
  BY <1>2, <1>3 DEF OnCourse
<1>5. \A j \in Job : ~Launches(pc[h], ctx[h], j)
  BY DEF OnGraph, Launches
<1>6. \A k \in Job : Takes(pc[h], ctx[h], k) => Takes(l, c, k)
  BY <1>2 DEF Takes, Completing, OnGraph, GraphLabels, DagLabels, Skipping, Queueing
<1>7. Concludes(l, c)
  BY <1>2 DEF Concludes
<1> QED
  BY <1>1, <1>4, <1>5, <1>6, <1>7 DEF DriveHead

\* The candidate is settled.
LEMMA ResumeDrive ==
  ASSUME TypeInv, NEW h \in Handler, OnCourse(pc[h], ctx[h]),
         pc[h] \in GraphLabels \ {"advance"},
         NEW f \in Job \cup {NoJob}, Resume(h, f),
         \/ pc[h] = "add" \/ queued'[ctx[h].cand]
         \/ ctx[h].mode = "dag" /\ (completed'[ctx[h].cand] \/ ~NeedsDone(ctx[h].cand))
  PROVE  DriveHead(h)
<1> DEFINE c == Settled(ctx[h], f)
<1>1. /\ c \in Context /\ c.mode = ctx[h].mode /\ c.job = ctx[h].job
      /\ c.todo = ctx[h].todo
  BY HandlerFacts, SettledFacts
<1>2. ctx[h].mode \in {"dag", "launch"}
  BY DEF OnCourse, GraphLabels
<1> DEFINE l == IF ctx[h].mode = "launch" THEN "launch" ELSE "advance"
<1>3. Step(h, l, c)
  BY <1>2 DEF Resume, LoopOf
<1>4. \/ l = "advance" /\ c.mode = "dag" /\ OnGraph(pc[h], ctx[h])
      \/ l = "launch" /\ c.mode = "launch"
  <2>1. pc[h] \in GraphLabels
    OBVIOUS
  <2> QED
    BY <1>1, <1>2, <2>1 DEF OnGraph
<1> HIDE DEF c, l
<1>5. Moved(h) /\ pc'[h] = l /\ ctx'[h] = c
  BY <1>1, <1>3, <1>4, MovedFacts DEF Labels
<1>6. CASE l = "advance" /\ c.mode = "dag" /\ OnGraph(pc[h], ctx[h])
  <2>1. OnGraph(l, c)
    BY <1>6 DEF OnGraph, GraphLabels, DagLabels
  <2>2. Ordered(c)
    BY <1>1, <1>6 DEF OnCourse, Ordered
  <2>3. OnCourse(l, c)
    BY <1>6, <2>1, <2>2 DEF OnCourse, Queueing
  <2>4. \A j \in Job : ~Launches(pc[h], ctx[h], j)
    BY <1>6 DEF OnGraph, Launches
  <2>5. ASSUME NEW k \in Job, Takes(pc[h], ctx[h], k), NeedsDone(k)
        PROVE  Takes(l, c, k) \/ queued'[k] \/ completed'[k]
    <3>1. k \in ctx[h].todo \/ (k = ctx[h].cand /\ pc[h] # "add")
      BY <1>6, <2>5 DEF Takes, Completing, OnGraph, GraphLabels, DagLabels, Skipping, Queueing
    <3> QED
      BY <1>1, <2>1, <2>5, <3>1 DEF Takes
  <2>6. Concludes(l, c)
    BY <2>1 DEF Concludes
  <2> QED
    BY <1>5, <2>3, <2>4, <2>5, <2>6 DEF DriveHead
<1>7. CASE l = "launch" /\ c.mode = "launch"
  <2>1. OnCourse(l, c)
    BY <1>7 DEF OnCourse, OnGraph, Queueing, DagLabels, Skipping
  <2>2. pc[h] \in Queueing /\ ~OnGraph(pc[h], ctx[h])
    BY <1>1, <1>7 DEF OnCourse, OnGraph, GraphLabels
  <2>3. pc[h] \notin Completing \cup {"scan", "load", "complete"}
    BY <2>2 DEF Completing, Queueing
  <2>4. ASSUME NEW j \in Job, Launches(pc[h], ctx[h], j)
        PROVE  Launches(l, c, j) \/ queued'[j]
    <3>1. j \in ctx[h].todo \/ (pc[h] = "queue" /\ j = ctx[h].cand)
      BY <2>4 DEF Launches
    <3> QED
      BY <1>1, <1>7, <3>1 DEF Launches
  <2> QED
    BY <1>5, <2>1, <2>2, <2>3, <2>4 DEF DriveHead, Takes, Concludes
<1> QED
  BY <1>4, <1>6, <1>7

LEMMA ReturnDrive ==
  ASSUME TypeInv, NEW h \in Handler, OnCourse(pc[h], ctx[h]),
         pc[h] \in GraphLabels \ {"advance"}, Return(h),
         \/ pc[h] = "add"
         \/ ctx[h].mode = "dag" /\ (completed'[ctx[h].cand] \/ ~NeedsDone(ctx[h].cand))
  PROVE  DriveHead(h)
BY ResumeDrive, HandlerFacts DEF Return

LEMMA LaunchDrive ==
  ASSUME InitialJobs # {}, TypeInv, status = "RUNNING", NEW h \in Handler,
         OnCourse(pc[h], ctx[h]), Launch(h) \/ Queue(h) \/ Add(h)
  PROVE  DriveHead(h)
<1> USE DEF Queueing, Skipping, DagLabels, GraphLabels, Completing
<1>1. CASE Launch(h)
  <2>0. pc[h] = "launch" /\ ctx[h].mode = "launch" /\ ctx[h] \in Context
    BY <1>1, HandlerFacts DEF Launch, OnCourse
  <2>1. \A k \in Job : ~Takes(pc[h], ctx[h], k)
    BY <2>0 DEF Takes, OnGraph
  <2>2. ~Concludes(pc[h], ctx[h])
    BY <2>0 DEF Concludes, OnGraph
  <2>3. ASSUME NEW j \in ctx[h].todo, Step(h, "queue", Consider(ctx[h], j, {}))
        PROVE  DriveHead(h)
    <3> DEFINE c == Consider(ctx[h], j, {})
    <3>1. j \in Job /\ {} \in SUBSET Job /\ "queue" \in Labels
      BY HandlerFacts DEF Labels
    <3>2. /\ c \in Context /\ c.cand = j /\ c.mode = "launch"
          /\ c.todo = ctx[h].todo \ {j}
      BY <2>0, <3>1, ConsiderFacts
    <3>3. Step(h, "queue", c)
      BY <2>3
    <3> HIDE DEF c
    <3>4. Moved(h) /\ pc'[h] = "queue" /\ ctx'[h] = c
      BY <3>1, <3>2, <3>3, MovedFacts
    <3>5. OnCourse("queue", c)
      BY <3>2 DEF OnCourse, OnGraph
    <3>6. \A k \in Job : Launches(pc[h], ctx[h], k) => Launches("queue", c, k)
      BY <2>0, <3>2 DEF Launches
    <3> QED
      BY <2>1, <2>2, <3>4, <3>5, <3>6 DEF DriveHead
  <2>4. CASE ctx[h].todo = {} /\ Finish(h)
    <3>1. Moved(h) /\ pc'[h] = "idle" /\ ctx'[h] = NoContext
      BY <2>4, FinishFacts
    <3>2. OnCourse("idle", NoContext)
      BY DEF OnCourse, OnGraph
    <3>3. \A k \in Job : ~Launches(pc[h], ctx[h], k)
      BY <2>0, <2>4 DEF Launches
    <3> QED
      BY <2>1, <2>2, <3>1, <3>2, <3>3 DEF DriveHead
  <2> QED
    BY <1>1, <2>3, <2>4 DEF Launch
<1>2. CASE Queue(h)
  <2> DEFINE first == IF ctx[h].mode = "dag" /\ ctx[h].first = NoJob
                      THEN ctx[h].cand ELSE ctx[h].first
  <2>1. /\ first \in Job \cup {NoJob} /\ ctx[h] \in Context /\ ctx[h].cand \in Job
        /\ "add" \in Labels /\ pc[h] = "queue" /\ queued \in [Job -> BOOLEAN]
    BY <1>2, HandlerFacts DEF Queue, CandidateLabels, Labels, TypeInv, TypeOK
  <2>2. \/ Step(h, "add", WithFirst(ctx[h], first)) /\ queued'[ctx[h].cand]
        \/ Resume(h, first) /\ queued'[ctx[h].cand]
    BY <1>2, <2>1 DEF Queue, Claimable
  <2> HIDE DEF first
  <2>3. CASE Step(h, "add", WithFirst(ctx[h], first)) /\ queued'[ctx[h].cand]
    <3> DEFINE c == WithFirst(ctx[h], first)
    <3>1. /\ c \in Context /\ c.cand = ctx[h].cand /\ c.mode = ctx[h].mode
          /\ c.todo = ctx[h].todo /\ c.job = ctx[h].job
      BY <2>1, WithFirstFacts
    <3>2. Step(h, "add", c)
      BY <2>3
    <3> HIDE DEF c
    <3>3. Moved(h) /\ pc'[h] = "add" /\ ctx'[h] = c
      BY <2>1, <3>1, <3>2, MovedFacts
    <3>4. OnGraph("add", c) => Ordered(c) /\ Placed(c)
      BY <2>1, <3>1 DEF OnCourse, OnGraph, Ordered, Placed
    <3>5. OnCourse("add", c)
      BY <2>1, <3>1, <3>4 DEF OnCourse
    <3>6. \A k \in Job : Launches(pc[h], ctx[h], k) => Launches("add", c, k) \/ queued'[k]
      BY <2>1, <2>3, <3>1 DEF Launches
    <3>7. \A k \in Job : Takes(pc[h], ctx[h], k) => Takes("add", c, k) \/ queued'[k]
      BY <2>1, <2>3, <3>1 DEF Takes, OnGraph
    <3>8. Concludes(pc[h], ctx[h]) => Concludes("add", c)
      BY <2>1, <3>1 DEF Concludes, OnGraph
    <3> QED
      BY <3>3, <3>5, <3>6, <3>7, <3>8 DEF DriveHead
  <2>4. CASE Resume(h, first) /\ queued'[ctx[h].cand]
    BY <2>1, <2>4, ResumeDrive
  <2> QED
    BY <2>2, <2>3, <2>4
<1>3. CASE Add(h)
  BY <1>3, ReturnDrive DEF Add
<1> QED
  BY <1>1, <1>2, <1>3

LEMMA CompletionDrive ==
  ASSUME NoTransitions, TypeInv, NEW h \in Handler, OnCourse(pc[h], ctx[h]), Completion(h)
  PROVE  DriveHead(h)
<1> USE DEF Queueing, Skipping, DagLabels, GraphLabels, Completing
<1>0. ctx[h] \in Context
  BY HandlerFacts
<1>1. CASE ClaimCompletion(h)
  <2>1. CASE Goto(h, "existing")
    <3>1. Moved(h) /\ pc'[h] = "existing" /\ pc[h] = "claim"
      BY <1>1, <2>1, GotoFacts DEF ClaimCompletion, Labels
    <3> QED
      BY <3>1 DEF DriveHead, OnCourse, OnGraph, Launches, Takes, Concludes
  <2>2. CASE Finish(h)
    BY <1>1, <2>2, AsideDrive, NoContextFacts DEF ClaimCompletion, Finish
  <2> QED
    BY <1>1, <2>1, <2>2 DEF ClaimCompletion
<1>2. CASE ReadOutput(h) \/ RecordOutput(h) \/ RecordResult(h) \/ RecordCompleted(h)
  <2>1. PICK l \in {"output", "result", "completed", "route"} :
          Goto(h, l) \/ \E o \in Recorded : Step(h, l, Holding(ctx[h], o))
    BY <1>2, JobOutput DEF ReadOutput, RecordOutput, RecordResult, RecordCompleted, JobLabels,
                           Recorded
  <2>2. pc[h] \in {"existing", "output", "result", "completed"}
    BY <1>2 DEF ReadOutput, RecordOutput, RecordResult, RecordCompleted
  <2>3. CASE Goto(h, l)
    <3>1. Moved(h) /\ pc'[h] = l /\ ctx'[h] = ctx[h]
      BY <2>3, GotoFacts DEF Labels
    <3> QED
      BY <2>2, <3>1 DEF DriveHead, OnCourse, OnGraph, Launches, Takes, Concludes
  <2>4. ASSUME NEW o \in Recorded, Step(h, l, Holding(ctx[h], o))
        PROVE  DriveHead(h)
    <3> DEFINE c == Holding(ctx[h], o)
    <3>1. c \in Context /\ c.job = ctx[h].job /\ c.mode = ctx[h].mode
      BY <1>0, HoldingFacts
    <3>2. Step(h, l, c)
      BY <2>4
    <3> HIDE DEF c
    <3>3. Moved(h) /\ pc'[h] = l /\ ctx'[h] = c
      BY <3>1, <3>2, MovedFacts DEF Labels
    <3> QED
      BY <2>2, <3>1, <3>3 DEF DriveHead, OnCourse, OnGraph, Launches, Takes, Concludes
  <2> QED
    BY <2>1, <2>3, <2>4
<1>3. CASE Route(h)
  <2> DEFINE c == Advancing(ctx[h], LaterLevels(ctx[h].job))
  <2>1. ctx[h].job \in Job /\ pc[h] = "route"
    BY <1>3, HandlerFacts DEF Route, JobLabels
  <2>2. LaterLevels(ctx[h].job) \in SUBSET Job /\ Transitions[ctx[h].job] = {}
    BY <2>1, GraphTypes DEF NoTransitions
  <2>3. Step(h, "advance", c)
    BY <1>3, <2>2 DEF Route
  <2>4. /\ c \in Context /\ c.job = ctx[h].job /\ c.mode = "dag"
        /\ c.todo = LaterLevels(ctx[h].job)
    BY <1>0, <2>2, AdvancingFacts
  <2> HIDE DEF c
  <2>5. Moved(h) /\ pc'[h] = "advance" /\ ctx'[h] = c
    BY <2>3, <2>4, MovedFacts DEF Labels
  <2>6. Ordered(c)
    BY <2>1, <2>4 DEF Ordered, LaterLevels
  <2>7. OnGraph("advance", c) /\ OnCourse("advance", c)
    BY <2>4, <2>6 DEF OnCourse, OnGraph
  <2>8. \A k \in Job : Takes(pc[h], ctx[h], k) => Takes("advance", c, k)
    BY <2>1, <2>4, <2>7 DEF Takes, OnGraph, LaterLevels
  <2> QED
    BY <2>1, <2>5, <2>7, <2>8 DEF DriveHead, Launches, Concludes
<1> QED
  BY <1>1, <1>2, <1>3 DEF Completion

LEMMA DagDrive ==
  ASSUME TypeInv, NEW h \in Handler, OnCourse(pc[h], ctx[h]), DagStep(h)
  PROVE  DriveHead(h)
<1> USE DEF Queueing, Skipping, DagLabels, GraphLabels, Completing
<1>0. /\ ctx[h] \in Context /\ ctx[h].mode = "dag" /\ ctx[h].job \in Job
      /\ OnGraph(pc[h], ctx[h]) /\ Ordered(ctx[h])
      /\ pc[h] # "advance" => Placed(ctx[h])
  BY HandlerFacts DEF DagStep, FinishLevel, Advance, ReadNeeds, ReadBlocked, TestCondition,
     SkipOutput, SkipResult, SkipCompleted, OnCourse, OnGraph, Ordered
<1>1. CASE FinishLevel(h)
  <2> DEFINE c == WithFirst(ctx[h], NoJob)
  <2>1. /\ c \in Context /\ c.mode = "dag" /\ c.job = ctx[h].job
        /\ c.todo = ctx[h].todo
    BY <1>0, WithFirstFacts
  <2>2. pc[h] = "advance" /\ Step(h, "advance", c)
    BY <1>1 DEF FinishLevel
  <2> HIDE DEF c
  <2>3. Moved(h) /\ pc'[h] = "advance" /\ ctx'[h] = c
    BY <2>1, <2>2, MovedFacts DEF Labels
  <2>4. OnGraph("advance", c) /\ Ordered(c)
    BY <1>0, <2>1 DEF OnGraph, Ordered
  <2>5. OnCourse("advance", c)
    BY <2>1, <2>4 DEF OnCourse
  <2>6. \A k \in Job : Takes(pc[h], ctx[h], k) => Takes("advance", c, k)
    BY <2>1, <2>2, <2>4 DEF Takes
  <2> QED
    BY <2>2, <2>3, <2>4, <2>5, <2>6 DEF DriveHead, Launches, Concludes
<1>2. CASE Advance(h)
  <2>1. ASSUME NEW j \in ctx[h].todo, IsFirst(j, ctx[h].todo),
               Step(h, FirstRead(j), Consider(ctx[h], j, DependsOn(j)))
        PROVE  DriveHead(h)
    <3> DEFINE c == Consider(ctx[h], j, DependsOn(j))
               l == FirstRead(j)
    <3>1. /\ j \in Job /\ DependsOn(j) \in SUBSET Job /\ DependsOn(j) \subseteq NeedIds(j)
          /\ l \in {"queue", "condition", "needs"}
      BY HandlerFacts, GraphTypes DEF FirstRead, AfterNeeds
    <3>2. /\ c \in Context /\ c.cand = j /\ c.mode = "dag" /\ c.unread = DependsOn(j)
          /\ c.todo = ctx[h].todo \ {j} /\ c.job = ctx[h].job
      BY <1>0, <3>1, ConsiderFacts
    <3>3. Step(h, l, c) /\ pc[h] = "advance"
      BY <1>2, <2>1 DEF Advance
    <3> HIDE DEF c, l
    <3>4. Moved(h) /\ pc'[h] = l /\ ctx'[h] = c
      BY <3>1, <3>2, <3>3, MovedFacts DEF Labels
    <3>5. \A k \in ctx[h].todo : Rank[j] <= Rank[k]
      BY <2>1 DEF IsFirst
    <3>6. /\ Rank[j] <= Rank[j]
          /\ \A k \in Job \ c.todo : k # j => k \in Job \ ctx[h].todo
      BY <3>1, <3>2, <3>5
    <3>7. Ordered(c) /\ Placed(c)
      BY <1>0, <3>1, <3>2, <3>5, <3>6 DEF Ordered, Placed
    <3>8. OnGraph(l, c) /\ OnCourse(l, c)
      BY <3>1, <3>2, <3>7 DEF OnCourse, OnGraph
    <3>9. \A k \in Job : Takes(pc[h], ctx[h], k) => Takes(l, c, k)
      BY <3>1, <3>2, <3>3, <3>8 DEF Takes
    <3> QED
      BY <3>3, <3>4, <3>8, <3>9 DEF DriveHead, Launches, Concludes
  <2>2. CASE ctx[h].todo = {} /\ Step(h, "scan", Unread(ctx[h], Job))
    <3>1. Unread(ctx[h], Job) \in Context /\ Unread(ctx[h], Job).mode = "dag"
      BY <1>0, UnreadFacts
    <3>2. Moved(h) /\ pc'[h] = "scan" /\ ctx'[h] = Unread(ctx[h], Job) /\ pc[h] = "advance"
      BY <1>2, <2>2, <3>1, MovedFacts DEF Labels, Advance
    <3>3. \A k \in Job : ~Takes(pc[h], ctx[h], k)
      BY <2>2, <3>2 DEF Takes
    <3> QED
      BY <3>2, <3>3 DEF DriveHead, OnCourse, OnGraph, Launches, Concludes
  <2> QED
    BY <1>2, <2>1, <2>2 DEF Advance
<1>3. ASSUME NEW l \in {"needs", "blocked", "condition", "queue", "skipOutput", "skipResult",
                        "skipCompleted"},
             pc[h] \notin {"advance", "add"}, Goto(h, l), l \notin {"needs", "blocked"}
      PROVE  DriveHead(h)
  BY <1>0, <1>3, CandidateDrive DEF Goto
<1>4. ASSUME NEW l \in {"needs", "blocked", "condition", "queue"}, NEW S \in SUBSET Job,
             pc[h] \notin {"advance", "add"}, Step(h, l, Unread(ctx[h], S)),
             S \subseteq NeedIds(ctx[h].cand)
      PROVE  DriveHead(h)
  <2> DEFINE c == Unread(ctx[h], S)
  <2>1. /\ c \in Context /\ c.mode = "dag" /\ c.job = ctx[h].job /\ c.unread = S
        /\ c.todo = ctx[h].todo /\ c.cand = ctx[h].cand
    BY <1>0, UnreadFacts
  <2>2. Step(h, l, c)
    BY <1>4
  <2> HIDE DEF c
  <2> QED
    BY <1>0, <1>4, <2>1, <2>2, CandidateDrive
<1>5. ASSUME NEW d \in ctx[h].unread, ~completed[d], Return(h), pc[h] \in {"needs", "blocked"}
      PROVE  DriveHead(h)
  <2>1. ~NeedsDone(ctx[h].cand)
    BY <1>5 DEF OnCourse, NeedsDone
  <2> QED
    BY <1>0, <1>5, <2>1, ReturnDrive
<1>6. CASE ReadNeeds(h)
  <2> DEFINE j == ctx[h].cand
  <2>1. /\ j \in Job /\ pc[h] = "needs" /\ AfterNeeds(j) \in {"queue", "condition"}
        /\ NeedIds(j) \in SUBSET Job /\ ctx[h].unread \subseteq NeedIds(j)
    BY <1>6, HandlerFacts, GraphTypes DEF ReadNeeds, CandidateLabels, OnCourse
  <2>2. ASSUME NEW d \in ctx[h].unread,
               Step(h, IF ctx[h].unread = {d} THEN AfterNeeds(j) ELSE "needs",
                       Unread(ctx[h], ctx[h].unread \ {d}))
        PROVE  DriveHead(h)
    <3>1. ctx[h].unread \ {d} \in SUBSET Job /\ ctx[h].unread \ {d} \subseteq NeedIds(j)
      BY <2>1
    <3>2. (IF ctx[h].unread = {d} THEN AfterNeeds(j) ELSE "needs")
            \in {"needs", "blocked", "condition", "queue"}
      BY <2>1
    <3> QED
      BY <1>4, <2>1, <2>2, <3>1, <3>2
  <2>3. CASE Goto(h, AfterNeeds(j))
    BY <1>3, <2>1, <2>3
  <2>4. CASE Step(h, "blocked", Unread(ctx[h], NeedIds(j)))
    BY <1>4, <2>1, <2>4
  <2> QED
    BY <1>5, <1>6, <2>1, <2>2, <2>3, <2>4 DEF ReadNeeds
<1>7. CASE ReadBlocked(h)
  <2>1. pc[h] = "blocked" /\ ctx[h].unread \subseteq NeedIds(ctx[h].cand)
    BY <1>7 DEF ReadBlocked, OnCourse
  <2>2. ASSUME NEW d \in ctx[h].unread, Step(h, "blocked", Unread(ctx[h], ctx[h].unread \ {d}))
        PROVE  DriveHead(h)
    <3>1. ctx[h].unread \ {d} \in SUBSET Job
      BY HandlerFacts
    <3> QED
      BY <1>4, <2>1, <2>2, <3>1
  <2>3. CASE Goto(h, "skipOutput")
    BY <1>3, <2>1, <2>3
  <2> QED
    BY <1>5, <1>7, <2>1, <2>2, <2>3 DEF ReadBlocked
<1>8. CASE TestCondition(h)
  BY <1>3, <1>8 DEF TestCondition
<1>9. CASE SkipOutput(h) \/ SkipResult(h)
  BY <1>3, <1>9 DEF SkipOutput, SkipResult
<1>10. CASE SkipCompleted(h)
  <2>1. ctx[h].cand \in Job /\ completed \in [Job -> BOOLEAN]
    BY <1>10, HandlerFacts DEF SkipCompleted, CandidateLabels, TypeInv, TypeOK
  <2>2. completed'[ctx[h].cand] /\ Return(h) /\ pc[h] = "skipCompleted"
    BY <1>10, <2>1 DEF SkipCompleted
  <2> QED
    BY <1>0, <2>2, ReturnDrive
<1> QED
  BY <1>1, <1>2, <1>6, <1>7, <1>8, <1>9, <1>10 DEF DagStep

LEMMA EndDrive ==
  ASSUME TypeInv, status' = "RUNNING", NEW h \in Handler,
         OnCourse(pc[h], ctx[h]), EndStep(h) \/ CancelStep(h) \/ StartCancel(h)
  PROVE  DriveHead(h)
<1>1. /\ ctx[h] \in Context
      /\ completedAt \in Handler \cup {NoStamp}
      /\ Seeing(ctx[h], completedAt) \in Context
  BY HandlerFacts, SeeingFacts DEF TypeInv, TypeOK
<1>2. pc[h] \notin {"failGate", "close", "handover", "cancelPurge"}
  BY DEF OnCourse
<1>3. CASE pc[h] \in {"scan", "load"} /\ pc'[h] \in {"scan", "load", "complete"} /\ Moved(h)
  BY <1>3 DEF DriveHead, OnCourse, OnGraph, GraphLabels, DagLabels, Skipping, Queueing,
              Completing, Launches, Takes, Concludes
<1>4. CASE Scan(h)
  <2>1. CASE Goto(h, "load")
    BY <1>3, <1>4, <2>1, GotoFacts DEF Scan, Labels
  <2>2. ASSUME NEW j \in ctx[h].unread, Step(h, "scan", Unread(ctx[h], ctx[h].unread \ {j}))
        PROVE  DriveHead(h)
    <3>1. ctx[h].unread \ {j} \in SUBSET Job
      BY HandlerFacts
    <3>2. Unread(ctx[h], ctx[h].unread \ {j}) \in Context
      BY <1>1, <3>1, UnreadFacts
    <3> QED
      BY <1>3, <1>4, <2>2, <3>2, MovedFacts DEF Scan, Labels
  <2>3. ASSUME NEW j \in ctx[h].unread, ~completed[j], Finish(h)
        PROVE  DriveHead(h)
    <3>1. Moved(h) /\ pc'[h] = "idle" /\ pc[h] = "scan" /\ j \in Job
      BY <1>4, <2>3, FinishFacts, HandlerFacts DEF Scan
    <3> QED
      BY <2>3, <3>1
      DEF DriveHead, OnCourse, OnGraph, GraphLabels, DagLabels, Skipping, Queueing,
          Completing, Launches, Takes
  <2> QED
    BY <1>4, <2>1, <2>2, <2>3 DEF Scan
<1>5. CASE LoadRun(h)
  BY <1>1, <1>3, <1>5, MovedFacts DEF LoadRun, Labels
<1>6. CASE CancelKill(h) \/ StartCancel(h)
  BY <1>1, <1>6, AsideDrive DEF CancelKill, StartCancel, Goto
<1>7. CASE CancelLoad(h)
  BY <1>1, <1>7, AsideDrive DEF CancelLoad
<1> QED
  BY <1>2, <1>4, <1>5, <1>6, <1>7
  DEF EndStep, CancelStep, CompleteRun, HandOver, GateLoopFailure, FailRun, CloseRun,
      CancelWrite, CancelPurge

LEMMA HandlerDrive ==
  ASSUME NoTransitions, InitialJobs # {}, TypeInv, status = "RUNNING", status' = "RUNNING",
         NEW h \in Handler, Linear(h), OnCourse(pc[h], ctx[h]), HandlerStep(h) \/ StartCancel(h)
  PROVE  DriveHead(h)
BY LaunchDrive, CompletionDrive, DagDrive, EndDrive, NoBranch DEF HandlerStep

LEMMA GateDrive ==
  ASSUME TypeInv, NEW h \in Handler, NEW t \in triggers, OnCourse(pc[h], ctx[h]), Gate(h, t)
  PROVE  DriveHead(h)
<1>1. t.job \in Job /\ t.result \in Results /\ pc[h] = "idle"
  BY TriggerFacts DEF TypeInv, TypeOK, Gate, GateCompletion, GateFailure, Salvage
<1>2. Moved(h) /\ (pc'[h] \in {"claim", "failing"} \/ UNCHANGED <<pc, ctx>>)
  <2>1. CASE UNCHANGED <<pc, ctx>>
    BY <2>1 DEF Moved
  <2>2. CASE Step(h, "claim", Starting(t.job, t.result))
    BY <1>1, <2>2, MovedFacts, StartingFacts DEF Labels
  <2>3. CASE StartFailing(h, t.job)
    BY <1>1, <2>3, StartFailingFacts
  <2> QED
    BY <2>1, <2>2, <2>3 DEF Gate, GateCompletion, GateFailure, Salvage
<1> QED
  BY <1>1, <1>2 DEF DriveHead, OnCourse, OnGraph, GraphLabels, DagLabels, Skipping, Queueing,
                    Completing, Launches, Takes, Concludes
-----------------------------------------------------------------------------
(* No job is lost while the run is RUNNING, other than to a handler that is  *)
(* about to fail the run.                                                    *)

LEMMA LabelledSteps ==
  ASSUME NEW h \in Handler, HandlerStep(h) \/ StartCancel(h)
  PROVE  /\ pc[h] = "queue" => Queue(h)
         /\ pc[h] = "add" => Add(h)
         /\ pc[h] = "claim" => ClaimCompletion(h)
         /\ pc[h] = "skipCompleted" => SkipCompleted(h)
         /\ pc[h] = "failing" => FailRun(h)
<1>1. CASE Launch(h) \/ Queue(h) \/ Add(h) \/ Completion(h)
  BY <1>1 DEF Launch, Queue, Add, Completion, ClaimCompletion, ReadOutput, RecordOutput,
              RecordResult, RecordCompleted, Route
<1>2. CASE DagStep(h) \/ BranchStep(h)
  BY <1>2 DEF DagStep, FinishLevel, Advance, ReadNeeds, ReadBlocked, TestCondition,
              SkipOutput, SkipResult, SkipCompleted, BranchStep, Exclude, Include,
              NextInBranch, EnterTarget, ClearQueued, ClearCompleted, MoveStep
<1>3. CASE EndStep(h)
  BY <1>3 DEF EndStep, Scan, LoadRun, CompleteRun, HandOver, GateLoopFailure,
              FailRun, CloseRun
<1>4. CASE CancelStep(h) \/ StartCancel(h)
  BY <1>4 DEF CancelStep, CancelKill, CancelLoad, CancelWrite, CancelPurge, StartCancel
<1> QED
  BY <1>1, <1>2, <1>3, <1>4 DEF HandlerStep

LEMMA HandlerLost ==
  ASSUME NoTransitions, TypeInv, status = "RUNNING", NEW h \in Handler, Linear(h),
         OnCourse(pc[h], ctx[h]), HandlerStep(h) \/ StartCancel(h), NEW j \in Job, Lost(j)'
  PROVE  Lost(j)
<1>1. /\ queued'[j] /\ ~completed'[j]
      /\ j \notin Added' /\ j \notin InWork' /\ j \notin Reported' /\ j \notin Claimed'
  BY DEF Lost
<1>2. Moved(h) /\ Kept
  BY StepKinds, KindsKeep DEF Ordinary, Claims, Adds, Completes
<1>3. ~completed[j]
  BY <1>1, <1>2 DEF Kept
<1>4. queued[j]
  <2> SUFFICES ASSUME ~queued[j] PROVE FALSE
    OBVIOUS
  <2>1. pc[h] = "queue" /\ j = ctx[h].cand /\ Queue(h)
    BY <1>1, FlagFacts, LabelledSteps
  <2>2. PICK f \in Job \cup {NoJob} : Step(h, "add", WithFirst(ctx[h], f))
    <3>1. ctx[h].first \in Job \cup {NoJob}
      BY HandlerFacts
    <3> QED
      BY <1>1, <2>1, <3>1 DEF Queue
  <2>3. WithFirst(ctx[h], f) \in Context /\ WithFirst(ctx[h], f).cand = j
    BY <2>1, HandlerFacts, WithFirstFacts
  <2>4. pc'[h] = "add" /\ ctx'[h].cand = j
    BY <2>2, <2>3, MovedFacts DEF Labels
  <2> QED
    BY <1>1, <2>4 DEF Added
<1>5. j \notin Added
  <2> SUFFICES ASSUME NEW g \in Handler, pc[g] = "add", ctx[g].cand = j PROVE FALSE
    BY DEF Added
  <2>1. CASE g # h
    BY <1>1, <1>2, <2>1 DEF Moved, Added
  <2>2. CASE g = h
    <3>1. Add(h)
      BY <2>2, LabelledSteps
    <3> QED
      BY <1>1, <2>2, <3>1 DEF Add, InWork
  <2> QED
    BY <2>1, <2>2
<1>6. j \notin Claimed
  <2> SUFFICES ASSUME NEW g \in Handler, pc[g] = "claim", ctx[g].job = j PROVE FALSE
    BY DEF Claimed
  <2>1. CASE g # h
    BY <1>1, <1>2, <2>1 DEF Moved, Claimed
  <2>2. CASE g = h
    <3>1. ClaimCompletion(h) /\ completed \in [Job -> BOOLEAN]
      BY <2>2, LabelledSteps DEF TypeInv, TypeOK
    <3> QED
      BY <1>1, <1>3, <2>2, <3>1 DEF ClaimCompletion, Claimable
  <2> QED
    BY <2>1, <2>2
<1>7. j \notin InWork /\ j \notin Reported
  <2>1. CASE UNCHANGED <<workVars, triggers>>
    BY <1>1, <2>1 DEF workVars, InWork, Reported
  <2>2. CASE Add(h)
    BY <1>1, <2>2 DEF Add, InWork, Reported
  <2>3. CASE CancelKill(h)
    <3>1. /\ stepQueue' = stepQueue /\ dispatching' = dispatching
          /\ running' = running \cap Special
          /\ triggers' = triggers \cup {Failure(k) : k \in running \ Special}
      BY <2>3 DEF CancelKill, KillAgents
    <3>2. ASSUME j \in running \ Special
          PROVE  FALSE
      <4>1. Failure(j) \in triggers' /\ Failure(j).job = j
        BY <3>1, <3>2 DEF Failure
      <4> QED
        BY <1>1, <4>1 DEF Reported
    <3> QED
      BY <1>1, <3>1, <3>2 DEF InWork, Reported
  <2>4. ~CloseRun(h) /\ ~CancelPurge(h)
    BY DEF OnCourse, CloseRun, CancelPurge
  <2> QED
    BY <2>1, <2>2, <2>3, <2>4, WorkWrites
<1> QED
  BY <1>3, <1>4, <1>5, <1>6, <1>7 DEF Lost

LEMMA GateLost ==
  ASSUME TypeInv, status = "RUNNING", NEW h \in Handler, NEW t \in triggers, Gate(h, t),
         NEW j \in Job, Lost(j)'
  PROVE  Lost(j) \/ pc'[h] = "failing"
<1>1. /\ queued'[j] /\ ~completed'[j]
      /\ j \notin Added' /\ j \notin InWork' /\ j \notin Reported' /\ j \notin Claimed'
  BY DEF Lost
<1>2. /\ UNCHANGED <<queued, completed, stepQueue, dispatching, running>>
      /\ pc[h] = "idle"
  BY DEF Gate, GateCompletion, GateFailure, Salvage, flagVars, workVars
<1>3. t.job \in Job /\ t.result \in Results
  BY TriggerFacts DEF TypeInv, TypeOK
<1>4. CASE GateCompletion(h, t)
  <2>1. Step(h, "claim", Starting(t.job, t.result)) /\ triggers' = triggers \ {t}
    BY <1>4 DEF GateCompletion
  <2>2. Moved(h) /\ pc'[h] = "claim" /\ ctx'[h].job = t.job
    BY <1>3, <2>1, MovedFacts, StartingFacts DEF Labels
  <2>3. j # t.job
    BY <1>1, <2>2 DEF Claimed
  <2>4. j \notin Reported
    BY <1>1, <2>1, <2>3 DEF Reported
  <2>5. j \notin Added /\ j \notin Claimed
    BY <1>1, <1>2, <2>2 DEF Added, Claimed, Moved
  <2> QED
    BY <1>1, <1>2, <2>4, <2>5 DEF Lost, InWork
<1>5. CASE GateFailure(h, t)
  BY <1>3, <1>5, StartFailingFacts DEF GateFailure
<1>6. CASE Salvage(h, t)
  <2> DEFINE r == [job |-> t.job, kind |-> "turn_end", result |-> "success"]
  <2>1. r.job = t.job /\ triggers' = (triggers \ {t}) \cup {r} /\ UNCHANGED <<pc, ctx>>
    BY <1>6 DEF Salvage
  <2> HIDE DEF r
  <2>2. j \notin Reported
    BY <1>1, <2>1 DEF Reported
  <2> QED
    BY <1>1, <1>2, <2>1, <2>2 DEF Lost, InWork, Added, Claimed
<1> QED
  BY <1>4, <1>5, <1>6 DEF Gate

LEMMA WorkLost ==
  ASSUME TypeInv, status = "RUNNING", NEW x \in Job, Work(x), NEW j \in Job, Lost(j)'
  PROVE  Lost(j)
<1>1. /\ queued'[j] /\ ~completed'[j]
      /\ j \notin Added' /\ j \notin InWork' /\ j \notin Reported' /\ j \notin Claimed'
  BY DEF Lost
<1>2. UNCHANGED <<queued, completed, pc, ctx>>
  BY WorkIdle DEF flagVars
<1>3. CASE j # x /\ triggers \subseteq triggers' /\ InWork \ {x} \subseteq InWork'
  BY <1>1, <1>2, <1>3 DEF Lost, Added, Claimed, Reported
<1>4. ASSUME triggers \subseteq triggers', \E t \in triggers' : t.job = x,
             InWork \ {x} \subseteq InWork'
      PROVE  Lost(j)
  <2>1. x # j
    BY <1>1, <1>4 DEF Reported
  <2> QED
    BY <1>3, <1>4, <2>1
<1>5. CASE Dispatch(x)
  <2>1. CASE triggers' = triggers \cup {[job |-> x, kind |-> "turn_end", result |-> "skipped"]}
    <3> DEFINE r == [job |-> x, kind |-> "turn_end", result |-> "skipped"]
    <3>1. r \in triggers' /\ r.job = x
      BY <2>1
    <3>2. triggers \subseteq triggers' /\ InWork \ {x} \subseteq InWork'
      BY <1>5, <2>1 DEF Dispatch, InWork
    <3> HIDE DEF r
    <3> QED
      BY <1>4, <3>1, <3>2
  <2>2. CASE triggers' = triggers /\ dispatching' = dispatching \cup {x}
    <3>1. InWork' = InWork /\ Reported' = Reported
      BY <1>5, <2>2 DEF Dispatch, InWork, Reported
    <3> QED
      BY <1>1, <1>2, <3>1 DEF Lost, Added, Claimed
  <2> QED
    BY <1>5, <2>1, <2>2 DEF Dispatch
<1>6. CASE StartExecution(x) \/ StartSaving(x) \/ ReadRecorded(x) \/ PersistJobOutput(x)
  <2>1. InWork' = InWork /\ triggers' = triggers
    BY <1>6 DEF StartExecution, StartSaving, ReadRecorded, PersistJobOutput, workVars, InWork
  <2> QED
    BY <1>1, <1>2, <2>1 DEF Lost, Added, Claimed, Reported
<1>7. CASE DispatchFails(x) \/ AgentDies(x) \/ SpecialDies(x)
  <2>1. Failure(x) \in triggers' /\ Failure(x).job = x
    BY <1>7 DEF DispatchFails, AgentDies, SpecialDies, Ended, Failure
  <2>2. triggers \subseteq triggers' /\ InWork \ {x} \subseteq InWork'
    BY <1>7 DEF DispatchFails, AgentDies, SpecialDies, Ended, InWork
  <2> QED
    BY <1>4, <2>1, <2>2
<1>8. CASE AgentEnds(x)
  <2> DEFINE r == [job |-> x, kind |-> "event", result |-> "success"]
  <2>1. r \in triggers' /\ r.job = x
    BY <1>8 DEF AgentEnds, Ended
  <2>2. triggers \subseteq triggers' /\ InWork \ {x} \subseteq InWork'
    BY <1>8 DEF AgentEnds, Ended, InWork
  <2> HIDE DEF r
  <2> QED
    BY <1>4, <2>1, <2>2
<1>9. CASE SpecialEnds(x)
  <2>1. PICK r \in {"success", "failed"} :
          Ended(x, {[job |-> x, kind |-> "turn_end", result |-> r]})
    BY <1>9 DEF SpecialEnds
  <2> DEFINE t == [job |-> x, kind |-> "turn_end", result |-> r]
  <2>2. t \in triggers' /\ t.job = x
    BY <2>1 DEF Ended
  <2>3. triggers \subseteq triggers' /\ InWork \ {x} \subseteq InWork'
    BY <2>1 DEF Ended, InWork
  <2> HIDE DEF t
  <2> QED
    BY <1>4, <2>2, <2>3
<1> QED
  BY <1>5, <1>6, <1>7, <1>8, <1>9 DEF Work, Execution

-----------------------------------------------------------------------------
(* Every step that leaves the run RUNNING keeps it driven. *)

\* What the handler that completes a job does next: route it, or consider what
\* comes after a job that it skipped.
LEMMA NewlyCompleted ==
  ASSUME TypeInv, CompletionInv, NEW h \in Handler, Linear(h), OnCourse(pc[h], ctx[h]),
         HandlerStep(h) \/ StartCancel(h), NEW d \in Job, completed'[d], ~completed[d]
  PROVE  \/ pc'[h] = "existing" /\ ctx'[h].job = d
         \/ /\ pc'[h] = "advance" /\ ctx'[h].mode = "dag" /\ ctx'[h].todo = ctx[h].todo
            /\ ctx[h].cand = d /\ Ordered(ctx[h]) /\ Placed(ctx[h])
<1>0. pc[h] = "completed" => completed[ctx[h].job]
  BY DEF CompletionInv, Completing
<1>1. CASE pc[h] = "claim" /\ d = ctx[h].job
  <2>1. Goto(h, "existing")
    BY <1>1, LabelledSteps DEF ClaimCompletion
  <2> QED
    BY <1>1, <2>1, GotoFacts DEF Labels
<1>2. CASE pc[h] = "skipCompleted" /\ d = ctx[h].cand
  <2>1. Return(h)
    BY <1>2, LabelledSteps DEF SkipCompleted
  <2>2. OnGraph(pc[h], ctx[h]) /\ Ordered(ctx[h]) /\ Placed(ctx[h])
    BY <1>2, CandidatesOnGraph DEF DagLabels, Skipping
  <2> QED
    BY <1>2, <2>1, <2>2, ReturnFacts DEF OnGraph
<1> QED
  BY <1>0, <1>1, <1>2, FlagFacts

\* A job that depends on d comes after d in the order of the levels.
LEMMA DependentsLater ==
  ASSUME Layered, NEW c, Ordered(c), Placed(c), NEW k \in Job, c.cand \in NeedIds(k)
  PROVE  k \in c.todo
<1>1. /\ Level[k] \in Nat /\ Level[c.cand] \in Nat /\ Level[c.job] \in Nat
      /\ Rank[k] \in Nat /\ Rank[c.cand] \in Nat
      /\ Level[c.cand] < Level[k] /\ Rank[c.cand] < Rank[k]
      /\ Level[c.cand] > Level[c.job]
  BY ConstantsAssumption DEF Layered, Ordered, Placed
<1>2. Level[k] > Level[c.job] /\ ~(Rank[k] <= Rank[c.cand])
  BY <1>1
<1> QED
  BY <1>2 DEF Placed

LEMMA DriveStep ==
  ASSUME Layered, TypeInv, RunningInv, Kept, NEW h \in Handler, DriveHead(h),
         \A d \in Job : completed'[d] /\ ~completed[d] =>
           \/ pc'[h] = "existing" /\ ctx'[h].job = d
           \/ /\ pc'[h] = "advance" /\ ctx'[h].mode = "dag" /\ ctx'[h].todo = ctx[h].todo
              /\ ctx[h].cand = d /\ Ordered(ctx[h]) /\ Placed(ctx[h]),
         \A j \in Job : Lost(j)' => Lost(j) \/ pc'[h] = "failing",
         pc[h] # "failing"
  PROVE  RunningInv'
<1> USE DEF DriveHead, Moved, Kept
<1>1. \A g \in Handler : OnCourse(pc'[g], ctx'[g])
  BY DEF RunningInv
<1>2. ASSUME NEW j \in InitialJobs
      PROVE  queued'[j] \/ \E g \in Handler : Launches(pc'[g], ctx'[g], j)
  <2>1. j \in Job
    BY DEF InitialJobs
  <2>2. CASE queued[j]
    BY <2>1, <2>2
  <2>3. ASSUME NEW g \in Handler, Launches(pc[g], ctx[g], j)
        PROVE  queued'[j] \/ Launches(pc'[g], ctx'[g], j)
    BY <2>1, <2>3
  <2> QED
    BY <2>2, <2>3 DEF RunningInv
<1>3. ASSUME NEW k \in Job \ InitialJobs, NeedsDone(k)', ~queued'[k], ~completed'[k]
      PROVE  \E g \in Handler : Takes(pc'[g], ctx'[g], k)
  <2>1. CASE NeedsDone(k)
    <3>1. PICK g \in Handler : Takes(pc[g], ctx[g], k)
      BY <1>3, <2>1 DEF RunningInv
    <3> QED
      BY <1>3, <2>1, <3>1
  <2>2. CASE ~NeedsDone(k)
    <3>1. PICK d \in NeedIds(k) : completed'[d] /\ ~completed[d]
      BY <1>3, <2>2 DEF NeedsDone
    <3>2. d \in Job
      BY <3>1, GraphTypes
    <3>3. CASE pc'[h] = "existing" /\ ctx'[h].job = d
      <4>1. Level[k] > Level[d]
        BY <3>1, <3>2 DEF Layered
      <4> QED
        BY <3>3, <4>1 DEF Takes, Completing
    <3>4. CASE /\ pc'[h] = "advance" /\ ctx'[h].mode = "dag" /\ ctx'[h].todo = ctx[h].todo
               /\ ctx[h].cand = d /\ Ordered(ctx[h]) /\ Placed(ctx[h])
      <4>1. k \in ctx'[h].todo
        BY <3>1, <3>4, DependentsLater
      <4> QED
        BY <3>4, <4>1 DEF Takes, OnGraph, GraphLabels, DagLabels
    <3> QED
      BY <3>1, <3>2, <3>3, <3>4
  <2> QED
    BY <2>1, <2>2
<1>4. ASSUME \A j \in Job : completed'[j]
      PROVE  \E g \in Handler : Concludes(pc'[g], ctx'[g])
  <2>1. CASE \A j \in Job : completed[j]
    <3>1. PICK g \in Handler : Concludes(pc[g], ctx[g])
      BY <2>1 DEF RunningInv
    <3> QED
      BY <2>1, <3>1
  <2>2. ASSUME NEW d \in Job, ~completed[d]
        PROVE  Concludes(pc'[h], ctx'[h])
    <3>1. pc'[h] = "existing" \/ (pc'[h] = "advance" /\ ctx'[h].mode = "dag")
      BY <1>4, <2>2
    <3> QED
      BY <3>1 DEF Concludes, OnGraph, GraphLabels, DagLabels, Completing
  <2> QED
    BY <2>1, <2>2
<1>5. ASSUME NEW j \in Job, Lost(j)'
      PROVE  \E g \in Handler : pc'[g] = "failing"
  <2>1. CASE pc'[h] = "failing"
    BY <2>1
  <2>2. CASE Lost(j)
    <3>1. PICK g \in Handler : pc[g] = "failing"
      BY <2>2 DEF RunningInv
    <3>2. g # h
      BY <3>1
    <3> QED
      BY <3>1, <3>2
  <2> QED
    BY <1>5, <2>1, <2>2
<1>6. \A k \in Job \ InitialJobs : NeedsDone(k)' =>
        queued'[k] \/ completed'[k] \/ \E g \in Handler : Takes(pc'[g], ctx'[g], k)
  BY <1>3
<1> QED
  BY <1>1, <1>2, <1>4, <1>5, <1>6 DEF RunningInv

DriveInv == SafeInv /\ (status = "RUNNING" => RunningInv)

LEMMA InitDrive ==
  ASSUME NoTransitions, InitialJobs # {}, Init
  PROVE  DriveInv
<1>1. /\ \A j \in Job : ~queued[j] /\ ~completed[j]
      /\ Launcher \in Handler /\ pc[Launcher] = "launch"
      /\ ctx[Launcher].mode = "launch" /\ ctx[Launcher].todo = InitialJobs
      /\ \A h \in Handler : pc[h] \in {"idle", "launch"} /\ ctx[h].mode # "dag"
      /\ \A h \in Handler : pc[h] = "launch" => ctx[h].mode = "launch"
  BY ConstantsAssumption DEF Init, NoContext
<1>2. \A h \in Handler : OnCourse(pc[h], ctx[h])
  BY <1>1 DEF OnCourse, OnGraph, Queueing, DagLabels, Skipping
<1>3. \A j \in InitialJobs : Launches(pc[Launcher], ctx[Launcher], j)
  BY <1>1 DEF Launches
<1>4. ASSUME NEW k \in Job \ InitialJobs, NeedsDone(k)
      PROVE  FALSE
  <2>1. NeedIds(k) = {}
    BY <1>1, <1>4, GraphTypes DEF NeedsDone
  <2> QED
    BY <2>1, <1>4 DEF InitialJobs, NoTransitions
<1>5. ~ \A j \in Job : completed[j]
  BY <1>1 DEF InitialJobs
<1>6. RunningInv
  BY <1>1, <1>2, <1>3, <1>4, <1>5 DEF RunningInv, Lost
<1> QED
  BY <1>6, InitSafe DEF DriveInv

LEMMA NextDrive ==
  ASSUME NoTransitions, InitialJobs # {}, Layered, DriveInv, [Next]_vars
  PROVE  DriveInv'
<1>1. /\ SafeInv' /\ TypeInv /\ CompletionInv
      /\ \A h \in Handler : Linear(h)
  BY NextSafe DEF DriveInv, SafeInv, ClaimInv
<1> SUFFICES ASSUME status' = "RUNNING" PROVE RunningInv'
  BY <1>1 DEF DriveInv
<1>2. status = "RUNNING" /\ RunningInv
  <2>1. ASSUME NEW h \in Handler, HandlerStep(h) \/ StartCancel(h)
        PROVE  status = "RUNNING"
    BY <2>1, StatusWrites
  <2>2. ASSUME NEW h \in Handler, NEW t \in triggers, Gate(h, t)
        PROVE  status = "RUNNING"
    BY <2>2 DEF Gate, GateCompletion, GateFailure, Salvage, runVars
  <2>3. ASSUME NEW j \in Job, Work(j)
        PROVE  status = "RUNNING"
    BY <2>3, WorkIdle DEF runVars
  <2>4. status = "RUNNING"
    BY <2>1, <2>2, <2>3 DEF Next, Over, vars, runVars
  <2> QED
    BY <2>4 DEF DriveInv
<1>3. ASSUME NEW h \in Handler, HandlerStep(h) \/ StartCancel(h)
      PROVE  RunningInv'
  <2>1. Linear(h) /\ OnCourse(pc[h], ctx[h])
    BY <1>1, <1>2 DEF RunningInv
  <2>2. DriveHead(h) /\ Kept
    BY <1>1, <1>2, <1>3, <2>1, HandlerDrive, StepKinds, KindsKeep
  <2>3. pc[h] # "failing"
    BY <1>3, LabelledSteps DEF FailRun
  <2>4. \A d \in Job : completed'[d] /\ ~completed[d] =>
          \/ pc'[h] = "existing" /\ ctx'[h].job = d
          \/ /\ pc'[h] = "advance" /\ ctx'[h].mode = "dag" /\ ctx'[h].todo = ctx[h].todo
             /\ ctx[h].cand = d /\ Ordered(ctx[h]) /\ Placed(ctx[h])
    BY <1>1, <1>3, <2>1, NewlyCompleted
  <2>5. \A j \in Job : Lost(j)' => Lost(j)
    BY <1>1, <1>2, <1>3, <2>1, HandlerLost
  <2> QED
    BY <1>1, <1>2, <2>2, <2>3, <2>4, <2>5, DriveStep
<1>4. ASSUME NEW h \in Handler, NEW t \in triggers, Gate(h, t)
      PROVE  RunningInv'
  <2>1. OnCourse(pc[h], ctx[h])
    BY <1>2 DEF RunningInv
  <2>2. pc[h] = "idle" /\ UNCHANGED <<queued, completed>>
    BY <1>4 DEF Gate, GateCompletion, GateFailure, Salvage, flagVars
  <2>3. DriveHead(h)
    BY <1>1, <1>4, <2>1, GateDrive
  <2>4. Kept
    BY <2>2 DEF Kept
  <2>5. \A j \in Job : Lost(j)' => Lost(j) \/ pc'[h] = "failing"
    BY <1>1, <1>2, <1>4, GateLost
  <2> QED
    BY <1>1, <1>2, <2>2, <2>3, <2>4, <2>5, DriveStep
<1>5. ASSUME UNCHANGED <<queued, completed, pc, ctx>>, \A j \in Job : Lost(j)' => Lost(j)
      PROVE  RunningInv'
  BY <1>2, <1>5 DEF RunningInv, NeedsDone
<1>6. ASSUME NEW x \in Job, Work(x)
      PROVE  RunningInv'
  <2>1. UNCHANGED <<queued, completed, pc, ctx>>
    BY <1>6, WorkIdle DEF flagVars
  <2>2. \A j \in Job : Lost(j)' => Lost(j)
    BY <1>1, <1>2, <1>6, WorkLost
  <2> QED
    BY <1>5, <2>1, <2>2
<1>7. CASE UNCHANGED vars
  <2>1. UNCHANGED <<queued, completed, pc, ctx, InWork, triggers>>
    BY <1>7 DEF vars, flagVars, workVars, InWork
  <2>2. \A j \in Job : Lost(j)' => Lost(j)
    BY <2>1 DEF Lost, Added, Reported, Claimed
  <2> QED
    BY <1>5, <2>1, <2>2
<1> QED
  BY <1>3, <1>4, <1>6, <1>7 DEF Next, Over

\* Of the jobs that are not completed one is at the lowest level.
LEMMA LowestOpen ==
  ASSUME Layered, NEW S \in SUBSET Job, S # {}
  PROVE  \E k \in S : \A d \in S : ~(Level[d] < Level[k])
<1> DEFINE Levels == {Level[k] : k \in S}
<1>1. Levels \subseteq Nat /\ Levels # {}
  BY DEF Layered
<1>2. PICK m \in Levels : \A n \in Levels : <<n, m>> \notin OpToRel(<, Nat)
  <2> HIDE DEF Levels
  <2> QED
    BY <1>1, NatLessThanWellFounded, WFMin
<1>3. PICK k \in S : m = Level[k]
  OBVIOUS
<1>4. ASSUME NEW d \in S, Level[d] < Level[k]
      PROVE  FALSE
  <2>1. <<Level[d], Level[k]>> \in OpToRel(<, Nat)
    BY <1>1, <1>4 DEF OpToRel
  <2> QED
    BY <1>2, <1>3, <2>1
<1> QED
  BY <1>4

\* However completions, skips, failures and cancellations interleave, the run is not
\* left RUNNING with nothing to drive it.  If it were, every queued job would have
\* completed; the jobs that the lowest open job needs would have too, so that a
\* handler would still be about to consider that job; and if no job is open, one
\* would be about to complete the run.
THEOREM NoDriverlessRunHolds ==
  ASSUME NoTransitions, InitialJobs # {}, Layered
  PROVE  Spec => []NoDriverlessRun
<1>1. Init => DriveInv
  BY InitDrive
<1>2. DriveInv /\ [Next]_vars => DriveInv'
  BY NextDrive
<1>3. DriveInv => NoDriverlessRun
  <2> SUFFICES ASSUME DriveInv, Quiet, status = "RUNNING"
               PROVE  FALSE
    BY DEF NoDriverlessRun, DriveInv, SafeInv, TypeInv, TypeOK, Statuses, Terminal
  <2>1. RunningInv /\ \A h \in Handler : pc[h] = "idle"
    BY DEF DriveInv, Quiet
  <2>2. \A h \in Handler :
          /\ \A k \in Job : ~Takes(pc[h], ctx[h], k) /\ ~Launches(pc[h], ctx[h], k)
          /\ ~Concludes(pc[h], ctx[h])
    BY <2>1 DEF Takes, Launches, Concludes, OnGraph, GraphLabels, DagLabels, Skipping,
                Queueing, Completing
  <2>3. ASSUME NEW j \in Job, queued[j]
        PROVE  completed[j]
    <3>1. ~Lost(j)
      BY <2>1 DEF RunningInv
    <3>2. Added = {} /\ InWork = {} /\ Reported = {} /\ Claimed = {}
      BY <2>1 DEF Added, InWork, Reported, Claimed, Quiet
    <3> QED
      BY <2>3, <3>1, <3>2 DEF Lost
  <2> DEFINE Open == {j \in Job : ~completed[j]}
  <2>4. Open # {}
    BY <2>1, <2>2 DEF RunningInv
  <2>5. PICK k \in Open : \A d \in Open : ~(Level[d] < Level[k])
    <3> HIDE DEF Open
    <3>1. Open \in SUBSET Job
      BY DEF Open
    <3> QED
      BY <2>4, <3>1, LowestOpen
  <2>6. CASE k \in InitialJobs
    BY <2>1, <2>2, <2>3, <2>6 DEF RunningInv
  <2>7. CASE k \notin InitialJobs
    <3>1. NeedsDone(k)
      BY GraphTypes, <2>5 DEF NeedsDone, Layered
    <3> QED
      BY <2>1, <2>2, <2>3, <2>7, <3>1 DEF RunningInv
  <2> QED
    BY <2>6, <2>7
<1> QED
  BY <1>1, <1>2, <1>3, PTL DEF Spec
=============================================================================
