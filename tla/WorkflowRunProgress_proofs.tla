---------------------- MODULE WorkflowRunProgress_proofs ----------------------
(***************************************************************************)
(* Proofs about WorkflowRunProgress for every set of jobs and handlers and *)
(* every job graph.                                                        *)
(***************************************************************************)
EXTENDS WorkflowRunProgress, TLAPS

(* Labels at which a handler holds a candidate, or the job it completes. *)

CandidateLabels == {"needs", "blocked", "condition", "queue", "add",
                    "skipOutput", "skipResult", "skipCompleted", "unqueue",
                    "uncomplete", "move"}

JobLabels == {"claim", "existing", "output", "result", "completed", "route"}

HandlersOK ==
  \A h \in Handler :
    /\ pc[h] \in CandidateLabels => ctx[h].cand \in Job
    /\ pc[h] \in JobLabels => ctx[h].job \in Job
    /\ ctx[h].mode = "branch" => ctx[h].next \in Job
    /\ pc[h] = "branch" => ctx[h].mode = "branch"

TypeInv == TypeOK /\ HandlersOK

LEMMA GraphTypes ==
  ASSUME NEW j \in Job
  PROVE  /\ NeedIds(j) \subseteq Job
         /\ DependsOn(j) \subseteq NeedIds(j)
         /\ DependsOn(j) \subseteq Job
         /\ Transitions[j] \subseteq Job
         /\ LaterLevels(j) \subseteq Job
         /\ Outputs(j) \subseteq Own
         /\ AfterNeeds(j) \in {"queue", "condition"}
         /\ FirstRead(j) \in {"queue", "condition", "needs"}
<1>1. NeedIds(j) \subseteq Job
  BY ConstantsAssumption DEF NeedIds, Need
<1>2. Transitions[j] \subseteq Job
  BY ConstantsAssumption
<1> QED
  BY <1>1, <1>2 DEF DependsOn, LaterLevels, Outputs, Own, AfterNeeds, FirstRead

LEMMA InitTypes == Init => TypeInv
<1> SUFFICES ASSUME Init PROVE TypeInv
  OBVIOUS
<1> USE ConstantsAssumption
<1>1. InitialJobs \subseteq Job
  BY DEF InitialJobs
<1>2. NoContext \in Context
  BY DEF NoContext, Context, Results, Modes, Recorded
<1>3. [NoContext EXCEPT !.mode = "launch", !.todo = InitialJobs] \in Context
  BY <1>1 DEF NoContext, Context, Results, Modes, Recorded
<1>4. currentStep \in Job \cup {NoJob}
  BY DEF Init
<1>5. TypeOK
  BY <1>2, <1>3, <1>4 DEF Init, TypeOK, Statuses, Results, Recorded, Calls, Labels, Trigger
<1>6. HandlersOK
  BY DEF Init, HandlersOK, CandidateLabels, JobLabels, NoContext
<1> QED
  BY <1>5, <1>6 DEF TypeInv

-----------------------------------------------------------------------------
(* The local variables of a handler: what each update leaves and changes. *)

LEMMA StartingFacts ==
  ASSUME NEW j \in Job \cup {NoJob}, NEW r \in Results
  PROVE  /\ Starting(j, r) \in Context
         /\ Starting(j, r).job = j
         /\ Starting(j, r).result = r
         /\ Starting(j, r).mode = "none"
BY DEF Starting, NoContext, Context, Results, Modes, Recorded

LEMMA NoContextFacts ==
  /\ NoContext \in Context
  /\ NoContext.mode = "none"
  /\ NoContext.job = NoJob
  /\ NoContext.cand = NoJob
BY DEF NoContext, Context, Results, Modes, Recorded

LEMMA AdvancingFacts ==
  ASSUME NEW c \in Context, NEW S \in SUBSET Job
  PROVE  /\ Advancing(c, S) \in Context
         /\ Advancing(c, S).job = c.job
         /\ Advancing(c, S).mode = "dag"
         /\ Advancing(c, S).todo = S
BY DEF Advancing, Context, Modes

LEMMA BranchingFacts ==
  ASSUME NEW c \in Context, NEW k \in Job, NEW S \in SUBSET Job
  PROVE  /\ Branching(c, k, S) \in Context
         /\ Branching(c, k, S).mode = "branch"
         /\ Branching(c, k, S).next = k
BY DEF Branching, Context, Modes

LEMMA ConsiderFacts ==
  ASSUME NEW c \in Context, NEW j \in Job, NEW S \in SUBSET Job
  PROVE  /\ Consider(c, j, S) \in Context
         /\ Consider(c, j, S).cand = j
         /\ Consider(c, j, S).unread = S
         /\ Consider(c, j, S).todo = c.todo \ {j}
         /\ Consider(c, j, S).job = c.job
         /\ Consider(c, j, S).mode = c.mode
         /\ Consider(c, j, S).next = c.next
BY DEF Consider, Context

LEMMA PassFacts ==
  ASSUME NEW c \in Context, NEW j \in Job
  PROVE  /\ Pass(c, j) \in Context
         /\ Pass(c, j).mode = c.mode
         /\ Pass(c, j).next = c.next
BY DEF Pass, Context

LEMMA UnreadFacts ==
  ASSUME NEW c \in Context, NEW S \in SUBSET Job
  PROVE  /\ Unread(c, S) \in Context
         /\ Unread(c, S).unread = S
         /\ Unread(c, S).cand = c.cand
         /\ Unread(c, S).todo = c.todo
         /\ Unread(c, S).job = c.job
         /\ Unread(c, S).mode = c.mode
         /\ Unread(c, S).next = c.next
BY DEF Unread, Context

LEMMA WithFirstFacts ==
  ASSUME NEW c \in Context, NEW f \in Job \cup {NoJob}
  PROVE  /\ WithFirst(c, f) \in Context
         /\ WithFirst(c, f).unread = c.unread
         /\ WithFirst(c, f).cand = c.cand
         /\ WithFirst(c, f).todo = c.todo
         /\ WithFirst(c, f).job = c.job
         /\ WithFirst(c, f).mode = c.mode
         /\ WithFirst(c, f).next = c.next
BY DEF WithFirst, Context

LEMMA SettledFacts ==
  ASSUME NEW c \in Context, NEW f \in Job \cup {NoJob}
  PROVE  /\ Settled(c, f) \in Context
         /\ Settled(c, f).todo = c.todo
         /\ Settled(c, f).job = c.job
         /\ Settled(c, f).mode = c.mode
         /\ Settled(c, f).next = c.next
BY DEF Settled, Context

LEMMA TargetingFacts ==
  ASSUME NEW c \in Context
  PROVE  /\ Targeting(c) \in Context
         /\ Targeting(c).cand = c.next
         /\ Targeting(c).mode = c.mode
         /\ Targeting(c).next = c.next
BY DEF Targeting, Context

LEMMA SeeingFacts ==
  ASSUME NEW c \in Context, NEW st \in Handler \cup {NoStamp}
  PROVE  /\ Seeing(c, st) \in Context
         /\ Seeing(c, st).job = c.job
         /\ Seeing(c, st).todo = c.todo
         /\ Seeing(c, st).mode = c.mode
         /\ Seeing(c, st).next = c.next
BY DEF Seeing, Context

LEMMA HoldingFacts ==
  ASSUME NEW c \in Context, NEW o \in Recorded
  PROVE  /\ Holding(c, o) \in Context
         /\ Holding(c, o).job = c.job
         /\ Holding(c, o).todo = c.todo
         /\ Holding(c, o).cand = c.cand
         /\ Holding(c, o).mode = c.mode
         /\ Holding(c, o).next = c.next
BY DEF Holding, Context

LEMMA ContextFacts ==
  ASSUME NEW c \in Context
  PROVE  /\ c.job \in Job \cup {NoJob}
         /\ c.result \in Results
         /\ c.mode \in Modes
         /\ c.todo \in SUBSET Job
         /\ c.unread \in SUBSET Job
         /\ c.cand \in Job \cup {NoJob}
         /\ c.first \in Job \cup {NoJob}
         /\ c.next \in Job \cup {NoJob}
         /\ c.seen \in Handler \cup {NoStamp}
         /\ c.existing \in Recorded
BY DEF Context

LEMMA StepFacts ==
  ASSUME pc \in [Handler -> Labels], ctx \in [Handler -> Context],
         NEW h \in Handler, NEW l \in Labels, NEW c \in Context, Step(h, l, c)
  PROVE  /\ pc' \in [Handler -> Labels]
         /\ ctx' \in [Handler -> Context]
         /\ pc'[h] = l
         /\ ctx'[h] = c
         /\ \A g \in Handler : g # h => pc'[g] = pc[g] /\ ctx'[g] = ctx[g]
BY DEF Step
-----------------------------------------------------------------------------
(* Type correctness *)

HandlerTypes ==
  /\ pc \in [Handler -> Labels]
  /\ ctx \in [Handler -> Context]
  /\ HandlersOK

\* A step to a label with locals that fit the label keeps the handlers well typed.
LEMMA StepTyped ==
  ASSUME TypeInv, NEW h \in Handler, NEW l \in Labels, NEW c \in Context,
         Step(h, l, c),
         l \in CandidateLabels => c.cand \in Job,
         l \in JobLabels => c.job \in Job,
         c.mode = "branch" => c.next \in Job,
         l = "branch" => c.mode = "branch"
  PROVE  HandlerTypes'
<1>1. /\ pc' \in [Handler -> Labels]
      /\ ctx' \in [Handler -> Context]
      /\ pc'[h] = l
      /\ ctx'[h] = c
      /\ \A g \in Handler : g # h => pc'[g] = pc[g] /\ ctx'[g] = ctx[g]
  BY StepFacts DEF TypeInv, TypeOK
<1> QED
  BY <1>1 DEF HandlerTypes, HandlersOK, TypeInv

LEMMA FinishTyped ==
  ASSUME TypeInv, NEW h \in Handler, Finish(h)
  PROVE  HandlerTypes'
BY StepTyped, NoContextFacts DEF Finish, Labels, CandidateLabels, JobLabels

LEMMA ResumeTyped ==
  ASSUME TypeInv, NEW h \in Handler, NEW f \in Job \cup {NoJob}, Resume(h, f)
  PROVE  HandlerTypes'
<1> DEFINE c == Settled(ctx[h], f)
<1>1. ctx[h] \in Context
  BY DEF TypeInv, TypeOK
<1>2. CASE Finish(h)
  BY <1>2, FinishTyped
<1>3. CASE Step(h, LoopOf(ctx[h].mode), c)
  <2>1. c \in Context /\ c.mode = ctx[h].mode /\ c.next = ctx[h].next
    BY <1>1, SettledFacts
  <2>2. /\ LoopOf(ctx[h].mode) \in Labels \ (CandidateLabels \cup JobLabels)
        /\ LoopOf(ctx[h].mode) = "branch" => ctx[h].mode = "branch"
    BY DEF LoopOf, Labels, CandidateLabels, JobLabels
  <2> HIDE DEF c
  <2> QED
    BY <1>3, <2>1, <2>2, StepTyped DEF TypeInv, HandlersOK
<1> QED
  BY <1>2, <1>3 DEF Resume

LEMMA ReturnTyped ==
  ASSUME TypeInv, NEW h \in Handler, Return(h)
  PROVE  HandlerTypes'
<1>1. ctx[h].first \in Job \cup {NoJob}
  BY ContextFacts DEF TypeInv, TypeOK
<1> QED
  BY <1>1, ResumeTyped DEF Return

LEMMA GotoTyped ==
  ASSUME TypeInv, NEW h \in Handler, NEW l \in Labels, Goto(h, l),
         l \in CandidateLabels => ctx[h].cand \in Job,
         l \in JobLabels => ctx[h].job \in Job,
         l # "branch"
  PROVE  HandlerTypes'
<1>1. ctx[h] \in Context
  BY DEF TypeInv, TypeOK
<1> QED
  BY <1>1, StepTyped DEF Goto, TypeInv, HandlersOK

\* What TypeInv says of one handler.
LEMMA HandlerFacts ==
  ASSUME TypeInv, NEW h \in Handler
  PROVE  /\ ctx[h] \in Context
         /\ ctx[h].job \in Job \cup {NoJob}
         /\ ctx[h].cand \in Job \cup {NoJob}
         /\ ctx[h].first \in Job \cup {NoJob}
         /\ ctx[h].next \in Job \cup {NoJob}
         /\ ctx[h].seen \in Handler \cup {NoStamp}
         /\ ctx[h].todo \in SUBSET Job
         /\ ctx[h].unread \in SUBSET Job
         /\ ctx[h].result \in Results
         /\ pc[h] \in CandidateLabels => ctx[h].cand \in Job
         /\ pc[h] \in JobLabels => ctx[h].job \in Job
         /\ ctx[h].mode = "branch" => ctx[h].next \in Job
         /\ pc[h] = "branch" => ctx[h].mode = "branch"
<1>1. ctx[h] \in Context
  BY DEF TypeInv, TypeOK
<1> QED
  BY <1>1, ContextFacts DEF TypeInv, HandlersOK

\* The state outside the handlers.
DataTypes ==
  /\ status \in Statuses
  /\ currentStep \in Job \cup {NoJob}
  /\ completedAt \in Handler \cup {NoStamp}
  /\ queued \in [Job -> BOOLEAN]
  /\ completed \in [Job -> BOOLEAN]
  /\ output \in [Job -> Recorded]
  /\ result \in [Job -> Results \cup {"none"}]
  /\ saving \in [Job -> Calls] /\ \A j \in Job \ Savers : saving[j] = "idle"
  /\ loops \in [Job \X Job -> Nat]
  /\ stepQueue \subseteq Job
  /\ dispatching \subseteq Job
  /\ running \subseteq Job
  /\ triggers \subseteq Trigger
  /\ cancels \in Nat
  /\ adds \in [Job -> Nat]

LEMMA TypeInvSplit == TypeInv <=> DataTypes /\ HandlerTypes
BY DEF TypeInv, TypeOK, DataTypes, HandlerTypes

LEMMA TypeInvSplitNext == TypeInv' <=> DataTypes' /\ HandlerTypes'
BY DEF TypeInv, TypeOK, DataTypes, HandlerTypes

LEMMA LaunchTyped ==
  ASSUME TypeInv, NEW h \in Handler, Launch(h) \/ Queue(h) \/ Add(h)
  PROVE  TypeInv'
<1> USE HandlerFacts DEF CandidateLabels, JobLabels, Labels
<1>1. CASE Launch(h)
  <2>1. DataTypes'
    BY <1>1, TypeInvSplit DEF Launch, DataTypes, runVars, flagVars, recordVars, workVars
  <2>2. ASSUME NEW j \in ctx[h].todo, Step(h, "queue", Consider(ctx[h], j, {}))
        PROVE  HandlerTypes'
    <3>1. j \in Job /\ {} \in SUBSET Job
      OBVIOUS
    <3> QED
      BY <2>2, <3>1, StepTyped, ConsiderFacts
  <2>3. CASE Goto(h, "load")
    BY <2>1, <2>3, GotoTyped, TypeInvSplitNext
  <2>4. CASE Finish(h)
    BY <2>1, <2>4, FinishTyped, TypeInvSplitNext
  <2> QED
    BY <1>1, <2>1, <2>2, <2>3, <2>4, TypeInvSplitNext DEF Launch
<1>2. CASE Queue(h)
  <2>1. DataTypes'
    BY <1>2, TypeInvSplit DEF Queue, DataTypes, runVars, flagVars, recordVars, workVars
  <2>2. HandlerTypes'
    BY <1>2, StepTyped, ResumeTyped, WithFirstFacts DEF Queue
  <2> QED
    BY <2>1, <2>2, TypeInvSplitNext
<1>3. CASE Add(h)
  <2>1. DataTypes'
    BY <1>3, TypeInvSplit DEF Add, DataTypes, runVars, flagVars, recordVars, workVars
  <2>2. HandlerTypes'
    BY <1>3, ReturnTyped DEF Add
  <2> QED
    BY <2>1, <2>2, TypeInvSplitNext
<1> QED
  BY <1>1, <1>2, <1>3

\* Type correctness, action group by action group.

LEMMA TriggerFacts ==
  ASSUME NEW t \in Trigger
  PROVE  t.job \in Job /\ t.result \in Results
BY DEF Trigger

LEMMA FailureFacts ==
  ASSUME NEW j \in Job
  PROVE  Failure(j) \in Trigger
BY DEF Failure, Trigger, Results

LEMMA KillTyped ==
  ASSUME TypeInv, KillAgents
  PROVE  running' \subseteq Job /\ triggers' \subseteq Trigger
<1>1. running \subseteq Job /\ triggers \subseteq Trigger
  BY DEF TypeInv, TypeOK
<1> QED
  BY <1>1, FailureFacts DEF KillAgents

LEMMA RouteLoops ==
  ASSUME TypeInv, NEW h \in Handler, Route(h)
  PROVE  loops' \in [Job \X Job -> Nat]
<1>1. ctx[h].job \in Job /\ Transitions[ctx[h].job] \subseteq Job
  BY HandlerFacts, GraphTypes DEF Route, JobLabels
<1>2. loops \in [Job \X Job -> Nat]
  BY DEF TypeInv, TypeOK
<1>3. ASSUME NEW k \in Transitions[ctx[h].job],
             loops' = [loops EXCEPT ![<<ctx[h].job, k>>] = @ + 1]
      PROVE  loops' \in [Job \X Job -> Nat]
  BY <1>1, <1>2, <1>3
<1> QED
  BY <1>2, <1>3 DEF Route

LEMMA StartFailingTyped ==
  ASSUME TypeInv, NEW h \in Handler, NEW j \in Job \cup {NoJob},
         StartFailing(h, j)
  PROVE  HandlerTypes'
<1> DEFINE c == Seeing(Starting(j, "failed"), completedAt)
<1>1. completedAt \in Handler \cup {NoStamp}
  BY DEF TypeInv, TypeOK
<1>2. Starting(j, "failed") \in Context /\ Starting(j, "failed").mode = "none"
  BY StartingFacts DEF Results
<1>3. c \in Context /\ c.mode = "none"
  BY <1>1, <1>2, SeeingFacts
<1>4. Step(h, "failing", c)
  BY DEF StartFailing
<1> HIDE DEF c
<1> QED
  BY <1>3, <1>4, StepTyped DEF Labels, CandidateLabels, JobLabels

LEMMA CompletionTyped ==
  ASSUME TypeInv, NEW h \in Handler, Completion(h)
  PROVE  TypeInv'
<1> USE HandlerFacts DEF CandidateLabels, JobLabels, Labels
<1>1. CASE ClaimCompletion(h)
  <2>1. DataTypes'
    BY <1>1, TypeInvSplit DEF ClaimCompletion, DataTypes, runVars, flagVars, recordVars, workVars
  <2>2. HandlerTypes'
    BY <1>1, GotoTyped, FinishTyped DEF ClaimCompletion
  <2> QED
    BY <2>1, <2>2, TypeInvSplitNext
<1>2. CASE ReadOutput(h)
  <2>1. DataTypes'
    BY <1>2, TypeInvSplit DEF ReadOutput, DataTypes, runVars, flagVars, recordVars, workVars
  <2>2. output[ctx[h].job] \in Recorded
    BY <1>2, TypeInvSplit DEF ReadOutput, DataTypes
  <2>3. HandlerTypes'
    BY <1>2, <2>2, StepTyped, HoldingFacts DEF ReadOutput, HandlersOK, TypeInv
  <2> QED
    BY <2>1, <2>3, TypeInvSplitNext
<1>6. CASE RecordOutput(h)
  <2>1. Merged(ctx[h]) \subseteq Recorded
    BY <1>6, GraphTypes DEF RecordOutput, Merged, Recorded
  <2>2. DataTypes'
    BY <1>6, <2>1, TypeInvSplit DEF RecordOutput, DataTypes, runVars, flagVars, workVars
  <2>3. "none" \in Recorded
    BY DEF Recorded
  <2>4. HandlerTypes'
    BY <1>6, <2>3, StepTyped, HoldingFacts DEF RecordOutput, HandlersOK, TypeInv
  <2> QED
    BY <2>2, <2>4, TypeInvSplitNext
<1>3. CASE RecordResult(h)
  <2>1. DataTypes'
    BY <1>3, TypeInvSplit DEF RecordResult, DataTypes, runVars, flagVars, recordVars, workVars
  <2>2. HandlerTypes'
    BY <1>3, GotoTyped DEF RecordResult
  <2> QED
    BY <2>1, <2>2, TypeInvSplitNext
<1>4. CASE RecordCompleted(h)
  <2>1. DataTypes'
    BY <1>4, TypeInvSplit DEF RecordCompleted, DataTypes, runVars, flagVars, recordVars, workVars
  <2>2. HandlerTypes'
    BY <1>4, GotoTyped DEF RecordCompleted
  <2> QED
    BY <2>1, <2>2, TypeInvSplitNext
<1>5. CASE Route(h)
  <2>1. DataTypes'
    BY <1>5, TypeInvSplit, RouteLoops DEF Route, DataTypes, runVars, flagVars, recordVars, workVars
  <2>2. HandlerTypes'
    <3>1. /\ ctx[h].job \in Job
          /\ LaterLevels(ctx[h].job) \in SUBSET Job
          /\ Transitions[ctx[h].job] \subseteq Job
      BY <1>5, GraphTypes DEF Route
    <3>2. CASE Step(h, "advance", Advancing(ctx[h], LaterLevels(ctx[h].job)))
      BY <3>1, <3>2, StepTyped, AdvancingFacts
    <3>3. ASSUME NEW k \in Transitions[ctx[h].job],
                 Step(h, "branch", Branching(ctx[h], k, Job \ {ctx[h].job}))
          PROVE  HandlerTypes'
      BY <3>1, <3>3, StepTyped, BranchingFacts
    <3>4. CASE Goto(h, "failGate")
      BY <3>4, GotoTyped
    <3> QED
      BY <1>5, <3>2, <3>3, <3>4 DEF Route
  <2> QED
    BY <2>1, <2>2, TypeInvSplitNext
<1> QED
  BY <1>1, <1>2, <1>3, <1>4, <1>5, <1>6 DEF Completion

LEMMA DagTyped ==
  ASSUME TypeInv, NEW h \in Handler, DagStep(h)
  PROVE  TypeInv'
<1> USE HandlerFacts DEF CandidateLabels, JobLabels, Labels
<1>1. CASE FinishLevel(h)
  <2>1. DataTypes'
    BY <1>1, TypeInvSplit DEF FinishLevel, DataTypes, runVars, flagVars, recordVars, workVars
  <2>2. HandlerTypes'
    BY <1>1, StepTyped, WithFirstFacts DEF FinishLevel
  <2> QED
    BY <2>1, <2>2, TypeInvSplitNext
<1>2. CASE Advance(h)
  <2>1. DataTypes'
    BY <1>2, TypeInvSplit DEF Advance, DataTypes, runVars, flagVars, recordVars, workVars
  <2>2. HandlerTypes'
    <3>1. ASSUME NEW j \in ctx[h].todo,
                 Step(h, FirstRead(j), Consider(ctx[h], j, DependsOn(j)))
          PROVE  HandlerTypes'
      <4>1. /\ j \in Job
            /\ DependsOn(j) \in SUBSET Job
            /\ FirstRead(j) \in {"queue", "condition", "needs"}
        BY GraphTypes
      <4> QED
        BY <3>1, <4>1, StepTyped, ConsiderFacts
    <3>2. CASE Step(h, "scan", Unread(ctx[h], Job))
      BY <3>2, StepTyped, UnreadFacts
    <3> QED
      BY <1>2, <3>1, <3>2 DEF Advance
  <2> QED
    BY <2>1, <2>2, TypeInvSplitNext
<1>3. CASE ReadNeeds(h)
  <2>1. DataTypes'
    BY <1>3, TypeInvSplit DEF ReadNeeds, DataTypes, runVars, flagVars, recordVars, workVars
  <2>2. HandlerTypes'
    <3>1. /\ ctx[h].cand \in Job
          /\ AfterNeeds(ctx[h].cand) \in {"queue", "condition"}
          /\ NeedIds(ctx[h].cand) \in SUBSET Job
      BY <1>3, GraphTypes DEF ReadNeeds
    <3>2. CASE Goto(h, AfterNeeds(ctx[h].cand))
      BY <3>1, <3>2, GotoTyped
    <3>3. CASE Step(h, "blocked", Unread(ctx[h], NeedIds(ctx[h].cand)))
      BY <3>1, <3>3, StepTyped, UnreadFacts
    <3>4. ASSUME NEW d \in ctx[h].unread, NEW l \in {"queue", "condition", "needs"},
                 Step(h, l, Unread(ctx[h], ctx[h].unread \ {d}))
          PROVE  HandlerTypes'
      BY <3>1, <3>4, StepTyped, UnreadFacts
    <3>5. CASE Return(h)
      BY <3>5, ReturnTyped
    <3> QED
      BY <1>3, <3>1, <3>2, <3>3, <3>4, <3>5 DEF ReadNeeds
  <2> QED
    BY <2>1, <2>2, TypeInvSplitNext
<1>4. CASE ReadBlocked(h)
  <2>1. DataTypes'
    BY <1>4, TypeInvSplit DEF ReadBlocked, DataTypes, runVars, flagVars, recordVars, workVars
  <2>2. HandlerTypes'
    <3>1. ctx[h].cand \in Job
      BY <1>4 DEF ReadBlocked
    <3>2. CASE Goto(h, "skipOutput")
      BY <3>1, <3>2, GotoTyped
    <3>3. ASSUME NEW d \in ctx[h].unread,
                 Step(h, "blocked", Unread(ctx[h], ctx[h].unread \ {d}))
          PROVE  HandlerTypes'
      BY <3>1, <3>3, StepTyped, UnreadFacts
    <3>4. CASE Return(h)
      BY <3>4, ReturnTyped
    <3> QED
      BY <1>4, <3>2, <3>3, <3>4 DEF ReadBlocked
  <2> QED
    BY <2>1, <2>2, TypeInvSplitNext
<1>5. CASE TestCondition(h)
  <2>1. DataTypes'
    BY <1>5, TypeInvSplit DEF TestCondition, DataTypes, runVars, flagVars, recordVars, workVars
  <2>2. HandlerTypes'
    BY <1>5, GotoTyped DEF TestCondition
  <2> QED
    BY <2>1, <2>2, TypeInvSplitNext
<1>6. CASE SkipOutput(h)
  <2>1. DataTypes'
    BY <1>6, TypeInvSplit DEF SkipOutput, Recorded, DataTypes, runVars, flagVars, recordVars, workVars
  <2>2. HandlerTypes'
    BY <1>6, GotoTyped DEF SkipOutput
  <2> QED
    BY <2>1, <2>2, TypeInvSplitNext
<1>7. CASE SkipResult(h)
  <2>1. DataTypes'
    BY <1>7, TypeInvSplit DEF SkipResult, DataTypes, runVars, flagVars, recordVars, workVars, Results
  <2>2. HandlerTypes'
    BY <1>7, GotoTyped DEF SkipResult
  <2> QED
    BY <2>1, <2>2, TypeInvSplitNext
<1>8. CASE SkipCompleted(h)
  <2>1. DataTypes'
    BY <1>8, TypeInvSplit DEF SkipCompleted, DataTypes, runVars, flagVars, recordVars, workVars
  <2>2. HandlerTypes'
    BY <1>8, ReturnTyped DEF SkipCompleted
  <2> QED
    BY <2>1, <2>2, TypeInvSplitNext
<1> QED
  BY <1>1, <1>2, <1>3, <1>4, <1>5, <1>6, <1>7, <1>8 DEF DagStep

LEMMA BranchTyped ==
  ASSUME TypeInv, NEW h \in Handler, BranchStep(h)
  PROVE  TypeInv'
<1> USE HandlerFacts DEF CandidateLabels, JobLabels, Labels
<1>1. CASE \E j \in Job : Exclude(h, j)
  <2>1. DataTypes'
    BY <1>1, TypeInvSplit DEF Exclude, DataTypes, runVars, flagVars, recordVars, workVars
  <2>2. HandlerTypes'
    BY <1>1, StepTyped, ConsiderFacts DEF Exclude
  <2> QED
    BY <2>1, <2>2, TypeInvSplitNext
<1>2. CASE \E j \in Job : Include(h, j)
  <2>1. DataTypes'
    BY <1>2, TypeInvSplit DEF Include, DataTypes, runVars, flagVars, recordVars, workVars
  <2>2. HandlerTypes'
    <3>1. PICK j \in Job : Include(h, j)
      BY <1>2
    <3>2. CASE Step(h, "branch", Pass(ctx[h], j))
      <4>1. ctx[h].mode = "branch"
        BY <3>1 DEF Include, NextInBranch
      <4> QED
        BY <3>2, <4>1, StepTyped, PassFacts
    <3>3. CASE Step(h, "unqueue", Consider(ctx[h], j, {}))
      BY <3>3, StepTyped, ConsiderFacts
    <3> QED
      BY <3>1, <3>2, <3>3 DEF Include
  <2> QED
    BY <2>1, <2>2, TypeInvSplitNext
<1>3. CASE EnterTarget(h)
  <2>1. DataTypes'
    BY <1>3, TypeInvSplit DEF EnterTarget, DataTypes, runVars, flagVars, recordVars, workVars
  <2>2. HandlerTypes'
    BY <1>3, StepTyped, TargetingFacts DEF EnterTarget
  <2> QED
    BY <2>1, <2>2, TypeInvSplitNext
<1>4. CASE ClearQueued(h)
  <2>1. DataTypes'
    BY <1>4, TypeInvSplit DEF ClearQueued, DataTypes, runVars, flagVars, recordVars, workVars
  <2>2. HandlerTypes'
    BY <1>4, GotoTyped DEF ClearQueued
  <2> QED
    BY <2>1, <2>2, TypeInvSplitNext
<1>5. CASE ClearCompleted(h)
  <2>1. DataTypes'
    BY <1>5, TypeInvSplit DEF ClearCompleted, DataTypes, runVars, flagVars, recordVars, workVars
  <2>2. HandlerTypes'
    BY <1>5, ReturnTyped DEF ClearCompleted
  <2> QED
    BY <2>1, <2>2, TypeInvSplitNext
<1>6. CASE MoveStep(h)
  <2>1. DataTypes'
    BY <1>6, TypeInvSplit DEF MoveStep, DataTypes, runVars, flagVars, recordVars, workVars
  <2>2. HandlerTypes'
    BY <1>6, GotoTyped DEF MoveStep
  <2> QED
    BY <2>1, <2>2, TypeInvSplitNext
<1> QED
  BY <1>1, <1>2, <1>3, <1>4, <1>5, <1>6 DEF BranchStep

LEMMA EndTyped ==
  ASSUME TypeInv, NEW h \in Handler, EndStep(h)
  PROVE  TypeInv'
<1> USE HandlerFacts DEF CandidateLabels, JobLabels, Labels
<1>1. CASE Scan(h)
  <2>1. DataTypes'
    BY <1>1, TypeInvSplit DEF Scan, DataTypes, runVars, flagVars, recordVars, workVars
  <2>2. HandlerTypes'
    <3>1. CASE Goto(h, "load")
      BY <3>1, GotoTyped
    <3>2. ASSUME NEW j \in ctx[h].unread,
                 Step(h, "scan", Unread(ctx[h], ctx[h].unread \ {j}))
          PROVE  HandlerTypes'
      BY <3>2, StepTyped, UnreadFacts
    <3>3. CASE Finish(h)
      BY <3>3, FinishTyped
    <3> QED
      BY <1>1, <3>1, <3>2, <3>3 DEF Scan
  <2> QED
    BY <2>1, <2>2, TypeInvSplitNext
<1>2. CASE LoadRun(h)
  <2>1. DataTypes'
    BY <1>2, TypeInvSplit DEF LoadRun, DataTypes, runVars, flagVars, recordVars, workVars
  <2>2. HandlerTypes'
    <3>1. completedAt \in Handler \cup {NoStamp}
      BY DEF TypeInv, TypeOK
    <3> QED
      BY <1>2, <3>1, StepTyped, SeeingFacts DEF LoadRun
  <2> QED
    BY <2>1, <2>2, TypeInvSplitNext
<1>3. CASE CompleteRun(h)
  <2>1. DataTypes'
    BY <1>3, TypeInvSplit DEF CompleteRun, DataTypes, runVars, flagVars, recordVars, workVars, Stamp, Statuses
  <2>2. HandlerTypes'
    <3>1. CASE Finish(h)
      BY <3>1, FinishTyped
    <3>2. CASE Goto(h, "handover")
      BY <3>2, GotoTyped
    <3> QED
      BY <1>3, <3>1, <3>2 DEF CompleteRun
  <2> QED
    BY <2>1, <2>2, TypeInvSplitNext
<1>4. CASE HandOver(h)
  <2>1. DataTypes'
    BY <1>4, TypeInvSplit DEF HandOver, DataTypes, runVars, flagVars, recordVars, workVars
  <2>2. HandlerTypes'
    BY <1>4, FinishTyped DEF HandOver
  <2> QED
    BY <2>1, <2>2, TypeInvSplitNext
<1>5. CASE GateLoopFailure(h)
  <2>1. DataTypes'
    BY <1>5, TypeInvSplit DEF GateLoopFailure, DataTypes, runVars, flagVars, recordVars, workVars
  <2>2. HandlerTypes'
    <3>1. CASE StartFailing(h, ctx[h].job)
      BY <3>1, StartFailingTyped
    <3>2. CASE Finish(h)
      BY <3>2, FinishTyped
    <3> QED
      BY <1>5, <3>1, <3>2 DEF GateLoopFailure
  <2> QED
    BY <2>1, <2>2, TypeInvSplitNext
<1>6. CASE FailRun(h)
  <2>1. DataTypes'
    BY <1>6, TypeInvSplit DEF FailRun, DataTypes, runVars, flagVars, recordVars, workVars, Stamp, Statuses
  <2>2. HandlerTypes'
    BY <1>6, GotoTyped DEF FailRun
  <2> QED
    BY <2>1, <2>2, TypeInvSplitNext
<1>7. CASE CloseRun(h)
  <2>1. DataTypes'
    BY <1>7, TypeInvSplit, KillTyped DEF CloseRun, DataTypes, runVars, flagVars, recordVars, workVars
  <2>2. HandlerTypes'
    BY <1>7, GotoTyped DEF CloseRun
  <2> QED
    BY <2>1, <2>2, TypeInvSplitNext
<1> QED
  BY <1>1, <1>2, <1>3, <1>4, <1>5, <1>6, <1>7 DEF EndStep

LEMMA CancelTyped ==
  ASSUME TypeInv, NEW h \in Handler, CancelStep(h) \/ StartCancel(h)
  PROVE  TypeInv'
<1> USE HandlerFacts DEF CandidateLabels, JobLabels, Labels
<1>1. CASE CancelKill(h)
  <2>1. DataTypes'
    BY <1>1, TypeInvSplit, KillTyped DEF CancelKill, DataTypes, runVars, flagVars, recordVars, workVars
  <2>2. HandlerTypes'
    BY <1>1, GotoTyped DEF CancelKill
  <2> QED
    BY <2>1, <2>2, TypeInvSplitNext
<1>2. CASE CancelLoad(h)
  <2>1. DataTypes'
    BY <1>2, TypeInvSplit DEF CancelLoad, DataTypes, runVars, flagVars, recordVars, workVars
  <2>2. HandlerTypes'
    <3>1. completedAt \in Handler \cup {NoStamp}
      BY DEF TypeInv, TypeOK
    <3> QED
      BY <1>2, <3>1, StepTyped, SeeingFacts DEF CancelLoad
  <2> QED
    BY <2>1, <2>2, TypeInvSplitNext
<1>3. CASE CancelWrite(h)
  <2>1. DataTypes'
    BY <1>3, TypeInvSplit DEF CancelWrite, DataTypes, runVars, flagVars, recordVars, workVars, Stamp, Statuses
  <2>2. HandlerTypes'
    BY <1>3, GotoTyped DEF CancelWrite
  <2> QED
    BY <2>1, <2>2, TypeInvSplitNext
<1>4. CASE CancelPurge(h)
  <2>1. DataTypes'
    BY <1>4, TypeInvSplit DEF CancelPurge, DataTypes, runVars, flagVars, recordVars, workVars
  <2>2. HandlerTypes'
    BY <1>4, FinishTyped DEF CancelPurge
  <2> QED
    BY <2>1, <2>2, TypeInvSplitNext
<1>5. CASE StartCancel(h)
  <2>1. DataTypes'
    BY <1>5, TypeInvSplit DEF StartCancel, DataTypes, runVars, flagVars, recordVars, workVars
  <2>2. HandlerTypes'
    BY <1>5, GotoTyped DEF StartCancel
  <2> QED
    BY <2>1, <2>2, TypeInvSplitNext
<1> QED
  BY <1>1, <1>2, <1>3, <1>4, <1>5 DEF CancelStep

LEMMA GateTyped ==
  ASSUME TypeInv, NEW h \in Handler, NEW t \in triggers, Gate(h, t)
  PROVE  TypeInv'
<1>1. /\ triggers \subseteq Trigger
      /\ t.job \in Job
      /\ t.result \in Results
  BY TriggerFacts DEF TypeInv, TypeOK
<1>2. [job |-> t.job, kind |-> "turn_end", result |-> "success"] \in Trigger
  BY <1>1 DEF Trigger, Results
<1>3. DataTypes'
  BY <1>1, <1>2, TypeInvSplit
     DEF Gate, GateCompletion, GateFailure, Salvage, DataTypes, runVars, flagVars,
         recordVars, workVars
<1>4. HandlerTypes'
  <2>1. CASE UNCHANGED <<pc, ctx>>
    BY <2>1 DEF HandlerTypes, HandlersOK, TypeInv, TypeOK
  <2>2. CASE Step(h, "claim", Starting(t.job, t.result))
    BY <1>1, <2>2, StepTyped, StartingFacts DEF Labels, CandidateLabels, JobLabels
  <2>3. CASE StartFailing(h, t.job)
    BY <1>1, <2>3, StartFailingTyped
  <2> QED
    BY <2>1, <2>2, <2>3 DEF Gate, GateCompletion, GateFailure, Salvage
<1> QED
  BY <1>3, <1>4, TypeInvSplitNext

LEMMA WorkTyped ==
  ASSUME TypeInv, NEW j \in Job, Work(j)
  PROVE  TypeInv'
<1>1. UNCHANGED <<pc, ctx>>
  BY DEF Work, Dispatch, StartExecution, DispatchFails, Execution,
         StartSaving, ReadRecorded, PersistJobOutput, AgentEnds, AgentDies, SpecialEnds, SpecialDies, Ended
<1>2. HandlerTypes'
  BY <1>1 DEF HandlerTypes, HandlersOK, TypeInv, TypeOK
<1>3. Failure(j) \in Trigger
  BY FailureFacts
<1>4. \A k \in {"turn_end", "event"}, r \in Results :
        [job |-> j, kind |-> k, result |-> r] \in Trigger
  BY DEF Trigger
<1>5. DataTypes'
  <2> USE TypeInvSplit DEF DataTypes, runVars, flagVars, recordVars, workVars
  <2>1. CASE Dispatch(j)
    BY <1>4, <2>1 DEF Dispatch, Results
  <2>2. CASE StartExecution(j)
    BY <2>2 DEF StartExecution
  <2>3. CASE DispatchFails(j)
    BY <1>3, <2>3 DEF DispatchFails
  <2>4. CASE PersistJobOutput(j)
    BY <2>4, GraphTypes DEF PersistJobOutput, Recorded, Calls
  <2>8. CASE StartSaving(j)
    BY <2>8 DEF StartSaving, Calls
  <2>9. CASE ReadRecorded(j)
    BY <2>9 DEF ReadRecorded, Calls
  <2>5. CASE AgentEnds(j)
    BY <1>3, <1>4, <2>5 DEF AgentEnds, Ended, Results
  <2>6. CASE AgentDies(j) \/ SpecialDies(j)
    BY <1>3, <2>6 DEF AgentDies, SpecialDies, Ended
  <2>7. CASE SpecialEnds(j)
    BY <1>4, <2>7 DEF SpecialEnds, Ended, Results
  <2> QED
    BY <2>1, <2>2, <2>3, <2>4, <2>5, <2>6, <2>7, <2>8, <2>9 DEF Work, Execution
<1> QED
  BY <1>2, <1>5, TypeInvSplitNext

LEMMA StepTypes == TypeInv /\ [Next]_vars => TypeInv'
<1> SUFFICES ASSUME TypeInv, [Next]_vars PROVE TypeInv'
  OBVIOUS
<1>1. ASSUME NEW h \in Handler, HandlerStep(h) \/ StartCancel(h)
      PROVE  TypeInv'
  BY <1>1, LaunchTyped, CompletionTyped, DagTyped, BranchTyped, EndTyped, CancelTyped
     DEF HandlerStep
<1>2. ASSUME NEW h \in Handler, NEW t \in triggers, Gate(h, t)
      PROVE  TypeInv'
  BY <1>2, GateTyped
<1>3. ASSUME NEW j \in Job, Work(j)
      PROVE  TypeInv'
  BY <1>3, WorkTyped
<1>4. CASE UNCHANGED vars
  BY <1>4 DEF vars, runVars, flagVars, recordVars, workVars, TypeInv, TypeOK, HandlersOK
<1> QED
  BY <1>1, <1>2, <1>3, <1>4 DEF Next, Over

\* Every reachable state is well typed: a handler that has a candidate, a job to
\* complete or a branch to follow holds a job of the definition, never NoJob.
THEOREM TypeCorrect == Spec => []TypeOK
<1>1. Init => TypeInv
  BY InitTypes
<1>2. TypeInv /\ [Next]_vars => TypeInv'
  BY StepTypes
<1>3. TypeInv => TypeOK
  BY DEF TypeInv
<1> QED
  BY <1>1, <1>2, <1>3, PTL DEF Spec
=============================================================================
