------------------------ MODULE RunQueueSafety_proofs ------------------------
(***************************************************************************)
(* What the launch locks guarantee, for any number of launches of one API  *)
(* process, although hand-overs, the reconciler, cancellations, failed     *)
(* statements and restarts come in between; and the order of activation,   *)
(* for any number of processes.                                            *)
(***************************************************************************)
EXTENDS RunQueue_proofs

\* Started at once and running; not ended yet.
Unqueued == Running \ waited

Open == InStatus(Live) \ ended

\* No step but an insert adds to these sets.
Shrinks ==
  /\ Pending' \subseteq Pending
  /\ Unqueued' \subseteq Unqueued
  /\ Open' \subseteq Open
  /\ UNCHANGED <<born, now>>

\* Between the search for an existing run and the insert.
Searched == {"wait", "oldest", "cancelLoad", "cancelWrite", "create", "byKey",
             "byTrigger", "queue"}
-----------------------------------------------------------------------------
(* Steps. *)

LEMMA KeptShrinks ==
  ASSUME UNCHANGED <<status, born, now, ended, waited>>
  PROVE  Shrinks
BY DEF Shrinks, Pending, Unqueued, Open, Running, InStatus

LEMMA ClosedShrinks ==
  ASSUME TypeInv, NEW x \in Present, NEW t \in Terminal, Close(x, t)
  PROVE  Shrinks
<1>1. /\ \A q \in Run : status'[q] = IF q = x THEN t ELSE status[q]
      /\ ended' = ended \cup {x}
      /\ UNCHANGED <<born, now, waited>>
  BY DEF Close, Wrote, TypeInv, RowTypes
<1>2. t \notin Live /\ t # "PENDING" /\ t # "RUNNING"
  BY DEF Terminal, Live
<1> QED
  BY <1>1, <1>2 DEF Shrinks, Pending, Unqueued, Open, Running, InStatus

LEMMA ActivatedShrinks ==
  ASSUME TypeInv, NEW a \in Activator, Activate(a)
  PROVE  Shrinks
<1>1. /\ picked[a] \in Present /\ picked[a] \in waited
      /\ \A q \in Run : status'[q] = IF q = picked[a] THEN "RUNNING" ELSE status[q]
      /\ UNCHANGED <<born, now, ended, waited>>
  BY DEF Activate, Wrote, TypeInv, RowTypes, RowsOK, HandRows, Holding
<1>2. picked[a] \notin Open => picked[a] \in ended
  BY <1>1 DEF Open, Present, InStatus, TypeInv, RowTypes, RowsOK
<1> QED
  BY <1>1, <1>2 DEF Shrinks, Pending, Unqueued, Open, Running, InStatus, Live

LEMMA LaunchShrinks ==
  ASSUME TypeInv, NEW r \in Run,
         \/ Arrive(r) \/ Launch(r)
         \/ FindExistingFails(r) \/ LoadVictimFails(r) \/ LaunchFails(r)
  PROVE  Shrinks \/ CreateRun(r) \/ CreateQueuedRun(r)
<1>1. CASE CancelVictim(r)
  <2>1. victim[r] \in Present /\ "CANCELLED" \in Terminal
    BY <1>1 DEF CancelVictim, TypeInv, RowsOK, LaunchRows, Terminal
  <2> QED
    BY <1>1, <2>1, ClosedShrinks DEF CancelVictim
<1>2. CASE NameFirstStep(r) \/ StartRun(r)
  BY <1>2, KeptShrinks DEF NameFirstStep, StartRun, NameStep, StartJobs
<1>3. CASE UNCHANGED rowVars
  BY <1>3, KeptShrinks DEF rowVars
<1> QED
  BY <1>1, <1>2, <1>3
     DEF Launch, Arrive, FindExisting, FindExistingFails, CheckConcurrency,
         FindOldestRunning, LoadVictim, LoadVictimFails, FindQueuedByKey,
         FindQueuedByTrigger, LaunchFails

LEMMA HandShrinks ==
  ASSUME TypeInv,
         \/ \E h \in Hand : WriteEnd(h) \/ \E r \in Run : EndRun(h, r)
         \/ \E a \in Activator : Activation(a) \/ ActivationFails(a)
         \/ \E s \in Server : Reconcile(s)
  PROVE  Shrinks
<1>1. ASSUME NEW a \in Activator, WriteEnd(a) \/ CancelUnactivatable(a)
      PROVE  Shrinks
  <2>1. picked[a] \in Present
    BY <1>1 DEF WriteEnd, CancelUnactivatable, TypeInv, RowsOK, HandRows, Holding
  <2>2. PICK t \in Terminal : Close(picked[a], t)
    BY <1>1 DEF WriteEnd, CancelUnactivatable, Terminal
  <2> QED
    BY <2>1, <2>2, ClosedShrinks
<1>2. ASSUME NEW a \in Activator, NameFirst(a) \/ EnqueueFirst(a)
      PROVE  Shrinks
  BY <1>2, KeptShrinks DEF NameFirst, EnqueueFirst, NameStep, StartJobs
<1>3. CASE UNCHANGED rowVars
  BY <1>3, KeptShrinks DEF rowVars
<1> QED
  BY <1>1, <1>2, <1>3, ActivatedShrinks, ActivatorTypes
     DEF EndRun, Activation, ActivationFails, Reconcile, Sweep, FindOwner, ReadPolicy,
         PickOldest, CheckUnactivatable

LEMMA StepShrinks ==
  ASSUME TypeInv, [Next]_vars
  PROVE  Shrinks \/ \E r \in Run : CreateRun(r) \/ CreateQueuedRun(r)
<1>1. ASSUME NEW r \in Run, RequestCancel(r) \/ CancelRun(r) \/ Age(r) PROVE Shrinks
  <2>1. CASE CancelRun(r)
    BY <2>1, ClosedShrinks DEF CancelRun, TypeInv, RowsOK, Terminal
  <2> QED
    BY <1>1, <2>1, KeptShrinks DEF RequestCancel, Age, rowVars
<1>2. CASE EditPolicy \/ \E s \in Server : Restart(s)
  BY <1>2, KeptShrinks DEF EditPolicy, Restart, rowVars
<1>3. CASE UNCHANGED vars
  BY <1>3, KeptShrinks DEF vars, rowVars
<1> QED
  BY <1>1, <1>2, <1>3, LaunchShrinks, HandShrinks DEF Next

-----------------------------------------------------------------------------
(* How a launch comes to the statement it is about to execute. *)

\* A launch loads its definition before it has a row; it is about to insert because
\* there was room, or it cancels another run; it is about to queue because there was
\* no twin; it is past the search because there was no run with its key.
Enters(q) ==
  /\ plan'[q] # plan[q] => status[q] = "absent" /\ pc'[q] \in Waiting
  /\ pc'[q] = "create" =>
       \/ pc[q] = "create"
       \/ plan[q] = "cancel_running"
       \/ HasRoom /\ UNCHANGED rowVars
  /\ pc'[q] = "queue" =>
       \/ pc[q] = "queue"
       \/ QueuedTwin(q) = {} /\ UNCHANGED rowVars
  /\ pc'[q] \in Searched =>
       \/ pc[q] \in Searched
       \/ KeyOf[q] = NoKey
       \/ SameKey(q) = {} /\ UNCHANGED rowVars

\* A launch that stays, or is done, enters nothing.
LEMMA KeptEnters ==
  ASSUME NEW q \in Run, plan'[q] = plan[q], pc'[q] = pc[q] \/ pc'[q] = "done"
  PROVE  Enters(q)
BY DEF Enters, Searched

LEMMA AnswerEnters ==
  ASSUME TypeInv, NEW q \in Run, Answer(q)
  PROVE  Enters(q)
<1>1. pc'[q] = "done" /\ plan'[q] = plan[q]
  BY DEF Answer, Await, TypeInv, LockTypes
<1> QED
  BY <1>1, KeptEnters

LEMMA OwnEnters ==
  ASSUME TypeInv, NEW q \in Run,
         \/ Arrive(q) \/ Launch(q)
         \/ FindExistingFails(q) \/ LoadVictimFails(q) \/ LaunchFails(q)
  PROVE  Enters(q)
<1> USE DEF Enters, Searched, Await, Continue, TypeInv, LockTypes
<1>1. CASE Arrive(q)
  <2>1. pc'[q] \in {"wait", "keyWait"} /\ status[q] = "absent"
    BY <1>1 DEF Arrive, RowsOK, LaunchRows, Fresh
  <2> QED
    BY <1>1, <2>1 DEF Arrive, Waiting
<1>2. CASE FindExisting(q) \/ FindExistingFails(q)
  BY <1>2 DEF FindExisting, FindExistingFails
<1>3. CASE CheckConcurrency(q)
  <2>1. CASE Answer(q)
    BY <2>1, AnswerEnters
  <2>2. CASE ~Answer(q)
    BY <1>3, <2>2 DEF CheckConcurrency
  <2> QED
    BY <2>1, <2>2
<1>4. CASE FindOldestRunning(q)
  BY <1>4, AnswerEnters DEF FindOldestRunning
<1>5. CASE LoadVictim(q) \/ LoadVictimFails(q) \/ CancelVictim(q)
  BY <1>5 DEF LoadVictim, LoadVictimFails, CancelVictim, RowsOK, LaunchRows
<1>6. CASE CreateRun(q) \/ NameFirstStep(q)
  BY <1>6 DEF CreateRun, NameFirstStep
<1>7. CASE FindQueuedByKey(q) \/ FindQueuedByTrigger(q)
  <2>1. CASE Answer(q)
    BY <2>1, AnswerEnters
  <2>2. CASE ~Answer(q)
    BY <1>7, <2>2 DEF FindQueuedByKey, FindQueuedByTrigger
  <2> QED
    BY <2>1, <2>2
<1>8. CASE StartRun(q) \/ CreateQueuedRun(q) \/ LaunchFails(q)
  BY <1>8, AnswerEnters DEF StartRun, CreateQueuedRun, LaunchFails
<1> QED
  BY <1>1, <1>2, <1>3, <1>4, <1>5, <1>6, <1>7, <1>8 DEF Launch

\* A launch moves nobody else.
LEMMA OthersKept ==
  ASSUME TypeInv, NEW r \in Run, NEW q \in Run, q # r,
         \/ Arrive(r) \/ Launch(r)
         \/ FindExistingFails(r) \/ LoadVictimFails(r) \/ LaunchFails(r)
  PROVE  pc'[q] = pc[q] /\ plan'[q] = plan[q]
<1>1. pc'[q] = pc[q]
  BY DEF TypeInv, LockTypes, Arrive, Launch, FindExisting, FindExistingFails, CheckConcurrency,
         FindOldestRunning, LoadVictim, LoadVictimFails, CancelVictim, CreateRun,
         NameFirstStep, StartRun, FindQueuedByKey, FindQueuedByTrigger, CreateQueuedRun,
         LaunchFails, Continue, Answer, Await
<1>2. plan'[q] = plan[q]
  BY DEF TypeInv, LaunchTypes, Arrive, Launch, FindExisting, FindExistingFails, CheckConcurrency,
         FindOldestRunning, LoadVictim, LoadVictimFails, CancelVictim, CreateRun,
         NameFirstStep, StartRun, FindQueuedByKey, FindQueuedByTrigger, CreateQueuedRun,
         LaunchFails, Continue, Answer
<1> QED
  BY <1>1, <1>2

\* Hand-overs, the reconciler and the world move no launch, but for a restart.
LEMMA LaunchesKept ==
  ASSUME \/ \E h \in Hand : WriteEnd(h) \/ \E r \in Run : EndRun(h, r)
         \/ \E a \in Activator : Activation(a) \/ ActivationFails(a)
         \/ \E s \in Server : Reconcile(s)
         \/ EditPolicy \/ \E r \in Run : RequestCancel(r) \/ CancelRun(r) \/ Age(r)
         \/ UNCHANGED vars
  PROVE  UNCHANGED <<pc, plan>>
BY DEF WriteEnd, EndRun, Activation, ActivationFails, Reconcile, EditPolicy, RequestCancel,
       CancelRun, Age, vars, launchVars, ReadPolicy, PickOldest, Activate, NameFirst,
       EnqueueFirst, Sweep, FindOwner, CheckUnactivatable, CancelUnactivatable

LEMMA StepEnters ==
  ASSUME TypeInv, [Next]_vars, NEW q \in Run
  PROVE  Enters(q)
<1>1. ASSUME NEW r \in Run,
             \/ Arrive(r) \/ Launch(r)
             \/ FindExistingFails(r) \/ LoadVictimFails(r) \/ LaunchFails(r)
      PROVE  Enters(q)
  BY <1>1, OwnEnters, OthersKept, KeptEnters
<1>2. ASSUME NEW s \in Server, Restart(s) PROVE Enters(q)
  BY <1>2, KeptEnters DEF Restart
<1>3. CASE UNCHANGED <<pc, plan>>
  BY <1>3, KeptEnters
<1> QED
  BY <1>1, <1>2, <1>3, LaunchesKept DEF Next
-----------------------------------------------------------------------------
(* Mutual exclusion. *)

LEMMA OneInLock ==
  ASSUME TypeInv, OneServer, NEW q \in Run, NEW r \in Run
  PROVE  /\ pc[q] \in Exclusive /\ pc[r] \in Exclusive => q = r
         /\ pc[q] \in InLine /\ pc[r] \in InLine /\ KeyOf[q] = KeyOf[r] =>
              q = r \/ KeyOf[q] = NoKey
<1>1. Host[q] = Host[r]
  BY DEF OneServer
<1> QED
  BY <1>1 DEF TypeInv, LocksOK, LineOK, KeyOK, InLine

\* While a launch inserts, no other one is past the check of the policy, nor past the
\* search for the same key.
LEMMA InsertAlone ==
  ASSUME TypeInv, OneServer, NEW x \in Run, CreateRun(x) \/ CreateQueuedRun(x)
  PROVE  /\ pc'[x] \in {"name", "done"}
         /\ plan'[x] = plan[x]
         /\ \A r \in Run \ {x} :
              /\ pc'[r] = pc[r]
              /\ plan'[r] = plan[r]
              /\ pc[r] \notin Exclusive
              /\ pc[r] \in Searched => KeyOf[r] = NoKey \/ KeyOf[r] # KeyOf[x]
<1>1. pc[x] \in Exclusive /\ pc[x] \in InLine
  BY DEF CreateRun, CreateQueuedRun, Exclusive, InLine
<1>2. pc'[x] \in {"name", "done"} /\ plan'[x] = plan[x]
  BY DEF CreateRun, CreateQueuedRun, Continue, Answer, Await, TypeInv, LockTypes
<1>3. ASSUME NEW r \in Run, r # x
      PROVE  /\ pc'[r] = pc[r]
             /\ plan'[r] = plan[r]
             /\ pc[r] \notin Exclusive
             /\ pc[r] \in Searched => KeyOf[r] = NoKey \/ KeyOf[r] # KeyOf[x]
  <2>1. pc'[r] = pc[r] /\ plan'[r] = plan[r]
    BY <1>3, OthersKept DEF Launch
  <2>2. Searched \subseteq InLine
    BY DEF Searched, InLine, Exclusive
  <2> QED
    BY <1>1, <1>3, <2>1, <2>2, OneInLock
<1> QED
  BY <1>2, <1>3

\* The row that a launch inserts is the only one that changes.
LEMMA InsertMoves ==
  ASSUME TypeInv, NEW x \in Run, CreateRun(x) \/ CreateQueuedRun(x)
  PROVE  /\ status[x] = "absent"
         /\ status'[x] = IF CreateRun(x) THEN "RUNNING" ELSE "PENDING"
         /\ \A r \in Run \ {x} : status'[r] = status[r]
         /\ ended' = ended
         /\ \A r \in Run \ {x} : r \in waited' <=> r \in waited
         /\ now' = now + 1
         /\ born' = [born EXCEPT ![x] = now']
<1>1. status[x] = "absent"
  BY DEF CreateRun, CreateQueuedRun, TypeInv, RowsOK, LaunchRows, Fresh
<1>2. CASE CreateRun(x)
  BY <1>1, <1>2 DEF CreateRun, Insert, Wrote, TypeInv, RowTypes
<1>3. CASE CreateQueuedRun(x) /\ ~CreateRun(x)
  BY <1>1, <1>3 DEF CreateQueuedRun, Insert, Wrote, TypeInv, RowTypes
<1> QED
  BY <1>2, <1>3
-----------------------------------------------------------------------------
(* The limit. *)

\* A launch that is about to insert has found room, and there still is.
AdmitInv ==
  /\ AdmittedWithinLimit
  /\ \A r \in Run : pc[r] = "create" =>
       plan[r] = "cancel_running" \/ Cardinality(Admitted) < MaxRuns

LEMMA RowsFinite ==
  ASSUME NEW S \in SUBSET Run, NEW T \in SUBSET S
  PROVE  /\ IsFiniteSet(S)
         /\ Cardinality(S) \in Nat
         /\ Cardinality(T) \in Nat
         /\ Cardinality(T) <= Cardinality(S)
<1>1. IsFiniteSet(S)
  BY FS_Subset, QueueConstants
<1>2. IsFiniteSet(T) /\ Cardinality(T) <= Cardinality(S)
  BY <1>1, FS_Subset
<1> QED
  BY <1>1, <1>2, FS_CardinalityType

LEMMA AdmitStep ==
  ASSUME TypeInv, OneServer, AdmitInv, [Next]_vars
  PROVE  AdmitInv'
<1> DEFINE n == Cardinality(Admitted)
<1>1. Admitted \in SUBSET Run /\ MaxRuns \in Nat
  BY QueueConstants DEF Admitted, Running, InStatus
<1>2. CASE Shrinks
  <2>1. Admitted' \subseteq Admitted
    BY <1>2, StepEnters DEF Enters, Shrinks, Unqueued, Admitted, Running, InStatus
  <2>2. n \in Nat /\ Cardinality(Admitted') \in Nat /\ Cardinality(Admitted') <= n
    BY <1>1, <2>1, RowsFinite
  <2>3. ASSUME NEW r \in Run, pc'[r] = "create", plan'[r] # "cancel_running"
        PROVE  n < MaxRuns
    <3>1. Enters(r) /\ plan[r] = plan'[r]
      BY <2>3, StepEnters DEF Enters, Waiting
    <3>2. CASE pc[r] = "create"
      BY <2>3, <3>1, <3>2 DEF AdmitInv
    <3>3. CASE HasRoom
      <4>1. Admitted \in SUBSET InStatus(Live) /\ InStatus(Live) \in SUBSET Run
        BY DEF Admitted, Running, InStatus, Live
      <4>2. n <= Cardinality(InStatus(Live)) /\ Cardinality(InStatus(Live)) \in Nat
        BY <4>1, RowsFinite
      <4> QED
        BY <1>1, <2>2, <3>3, <4>2 DEF HasRoom
    <3> QED
      BY <2>3, <3>1, <3>2, <3>3 DEF Enters
  <2> QED
    BY <1>1, <2>2, <2>3 DEF AdmitInv, AdmittedWithinLimit
<1>3. ASSUME NEW x \in Run, CreateRun(x) \/ CreateQueuedRun(x)
      PROVE  AdmitInv'
  <2>1. \A r \in Run : pc'[r] # "create"
    BY <1>3, InsertAlone DEF Exclusive
  <2>2. \/ Admitted' \subseteq Admitted
        \/ /\ CreateRun(x) /\ plan[x] # "cancel_running"
           /\ Admitted' \subseteq Admitted \cup {x}
    BY <1>3, InsertMoves, InsertAlone DEF Admitted, Running, InStatus
  <2>3. CASE Admitted' \subseteq Admitted
    BY <1>1, <2>1, <2>3, RowsFinite DEF AdmitInv, AdmittedWithinLimit
  <2>4. CASE /\ CreateRun(x) /\ plan[x] # "cancel_running"
             /\ Admitted' \subseteq Admitted \cup {x}
    <3>1. n \in Nat /\ n < MaxRuns
      BY <1>1, <2>4, RowsFinite DEF AdmitInv, CreateRun
    <3>2. Cardinality(Admitted \cup {x}) <= n + 1
      BY <1>1, <3>1, FS_AddElement, RowsFinite
    <3>3. /\ Cardinality(Admitted') \in Nat /\ Cardinality(Admitted \cup {x}) \in Nat
          /\ Cardinality(Admitted') <= Cardinality(Admitted \cup {x})
      BY <1>1, <2>4, RowsFinite
    <3>4. Cardinality(Admitted') <= MaxRuns
      BY <1>1, <3>1, <3>2, <3>3
    <3> QED
      BY <2>1, <3>4 DEF AdmitInv, AdmittedWithinLimit
  <2> QED
    BY <2>2, <2>3, <2>4
<1> QED
  BY <1>2, <1>3, StepShrinks

LEMMA AdmitInit == Init => AdmitInv
<1> SUFFICES ASSUME Init PROVE AdmitInv
  OBVIOUS
<1>1. Admitted = {} /\ \A r \in Run : pc[r] = "new"
  BY DEF Init, Admitted, Running, InStatus
<1>2. Cardinality(Admitted) = 0
  BY <1>1, FS_EmptySet
<1> QED
  BY <1>1, <1>2, QueueConstants DEF AdmitInv, AdmittedWithinLimit

\* With one API process the lock of the workflow makes count-then-insert one step: the
\* runs that launches start at once never exceed max_runs.
THEOREM AdmittedWithinLimitHolds ==
  ASSUME OneServer
  PROVE  Spec => []AdmittedWithinLimit
<1>1. TypeInv /\ AdmitInv /\ [Next]_vars => AdmitInv'
  BY AdmitStep
<1>2. AdmitInv => AdmittedWithinLimit
  BY DEF AdmitInv
<1> QED
  BY <1>1, <1>2, AdmitInit, InvariantHolds, PTL DEF Spec
-----------------------------------------------------------------------------
(* Coalescing. *)

\* A launch that is about to queue has found no twin, and there still is none.
QueueInv ==
  /\ OneQueuedPerTrigger
  /\ \A r \in Run : pc[r] = "queue" => QueuedTwin(r) = {}

LEMMA QueueStep ==
  ASSUME TypeInv, OneServer, QueueInv, [Next]_vars
  PROVE  QueueInv'
<1>1. CASE Shrinks
  <2>1. Pending' \subseteq Pending
    BY <1>1 DEF Shrinks
  <2>2. ASSUME NEW r \in Run, pc'[r] = "queue" PROVE QueuedTwin(r) = {}
    BY <2>2, StepEnters DEF Enters, QueueInv
  <2> QED
    BY <2>1, <2>2 DEF QueueInv, OneQueuedPerTrigger, QueuedTwin
<1>2. ASSUME NEW x \in Run, CreateRun(x) \/ CreateQueuedRun(x)
      PROVE  QueueInv'
  <2>1. \A r \in Run : pc'[r] # "queue"
    BY <1>2, InsertAlone DEF Exclusive
  <2>2. \/ Pending' = Pending
        \/ pc[x] = "queue" /\ Pending' = Pending \cup {x}
    BY <1>2, InsertMoves DEF Pending, InStatus, CreateQueuedRun
  <2>3. ASSUME NEW q \in Pending', NEW r \in Pending', TriggerOf[q] = TriggerOf[r]
        PROVE  q = r
    BY <2>2, <2>3 DEF QueueInv, OneQueuedPerTrigger, QueuedTwin
  <2> QED
    BY <2>1, <2>3 DEF QueueInv, OneQueuedPerTrigger
<1> QED
  BY <1>1, <1>2, StepShrinks

LEMMA QueueInit == Init => QueueInv
BY DEF Init, QueueInv, OneQueuedPerTrigger, Pending, InStatus

\* With one API process no two queued rows have the same trigger.
THEOREM OneQueuedPerTriggerHolds ==
  ASSUME OneServer
  PROVE  Spec => []OneQueuedPerTrigger
<1>1. TypeInv /\ QueueInv /\ [Next]_vars => QueueInv'
  BY QueueStep
<1>2. QueueInv => OneQueuedPerTrigger
  BY DEF QueueInv
<1> QED
  BY <1>1, <1>2, QueueInit, InvariantHolds, PTL DEF Spec
-----------------------------------------------------------------------------
(* Dedupe keys. *)

\* A launch past the search for its key is the only one that can insert it.
KeyInv ==
  /\ OneLiveRunPerKey
  /\ \A r \in Run : pc[r] \in Searched =>
       KeyOf[r] = NoKey \/ \A q \in Open : KeyOf[q] # KeyOf[r]

LEMMA KeyStep ==
  ASSUME TypeInv, OneServer, KeyInv, [Next]_vars
  PROVE  KeyInv'
<1>1. CASE Shrinks
  <2>1. Open' \subseteq Open
    BY <1>1 DEF Shrinks
  <2>2. ASSUME NEW r \in Run, pc'[r] \in Searched, KeyOf[r] # NoKey, NEW q \in Open
        PROVE  KeyOf[q] # KeyOf[r]
    <3>1. CASE pc[r] \in Searched
      BY <2>2, <3>1 DEF KeyInv
    <3>2. CASE SameKey(r) = {}
      BY <3>2 DEF SameKey, Open, InStatus, Deduped
    <3> QED
      BY <2>2, <3>1, <3>2, StepEnters DEF Enters
  <2> QED
    BY <2>1, <2>2 DEF KeyInv, OneLiveRunPerKey, Open
<1>2. ASSUME NEW x \in Run, CreateRun(x) \/ CreateQueuedRun(x)
      PROVE  KeyInv'
  <2>1. Open' \subseteq Open \cup {x}
    BY <1>2, InsertMoves DEF Open, InStatus
  <2>2. KeyOf[x] = NoKey \/ \A q \in Open : KeyOf[q] # KeyOf[x]
    BY <1>2 DEF CreateRun, CreateQueuedRun, Searched, KeyInv
  <2>3. ASSUME NEW r \in Run, pc'[r] \in Searched
        PROVE  KeyOf[r] = NoKey \/ \A q \in Open' : KeyOf[q] # KeyOf[r]
    <3>1. r # x
      BY <1>2, <2>3, InsertAlone DEF Searched
    <3> QED
      BY <1>2, <2>1, <2>3, <3>1, InsertAlone DEF KeyInv
  <2>4. ASSUME NEW q \in Open', NEW r \in Open', q # r, KeyOf[q] = KeyOf[r]
        PROVE  KeyOf[q] = NoKey
    BY <2>1, <2>2, <2>4 DEF KeyInv, OneLiveRunPerKey, Open
  <2> QED
    BY <2>3, <2>4 DEF KeyInv, OneLiveRunPerKey, Open
<1> QED
  BY <1>1, <1>2, StepShrinks

LEMMA KeyInit == Init => KeyInv
BY DEF Init, KeyInv, OneLiveRunPerKey, Open, InStatus, Live, Searched

\* With one API process two launches with one dedupe key never both have a run that is
\* waiting or running and was never ended before.
THEOREM OneLiveRunPerKeyHolds ==
  ASSUME OneServer
  PROVE  Spec => []OneLiveRunPerKey
<1>1. TypeInv /\ KeyInv /\ [Next]_vars => KeyInv'
  BY KeyStep
<1>2. KeyInv => OneLiveRunPerKey
  BY DEF KeyInv
<1> QED
  BY <1>1, <1>2, KeyInit, InvariantHolds, PTL DEF Spec
-----------------------------------------------------------------------------
(* First come, first served. *)

\* The clock is ahead of every row, so an insert makes no row older than the one that
\* an activator has picked.
OldestInv ==
  /\ \A r \in Run : born[r] <= now
  /\ \A a \in Activator : act[a] = "activate" =>
       \A q \in Pending : born[picked[a]] <= born[q]

\* An activator that is about to activate has just picked, or has not moved.
LEMMA PickMoves ==
  ASSUME TypeInv, [Next]_vars, NEW a \in Activator, act'[a] = "activate"
  PROVE  \/ act[a] = "activate" /\ picked'[a] = picked[a]
         \/ /\ Pending # {} /\ UNCHANGED rowVars
            /\ picked'[a] = Oldest(Pending)
<1> USE DEF TypeInv, HandTypes
<1>1. CASE UNCHANGED <<act, picked>>
  BY <1>1
<1>2. ASSUME NEW r \in Run,
             \/ Arrive(r) \/ Launch(r)
             \/ FindExistingFails(r) \/ LoadVictimFails(r) \/ LaunchFails(r)
             \/ RequestCancel(r) \/ CancelRun(r) \/ Age(r)
      PROVE  UNCHANGED <<act, picked>>
  BY <1>2 DEF Launch, handVars, Arrive, FindExisting, FindExistingFails, CheckConcurrency,
         FindOldestRunning, LoadVictim, LoadVictimFails, CancelVictim, CreateRun,
         NameFirstStep, StartRun, FindQueuedByKey, FindQueuedByTrigger, CreateQueuedRun,
         LaunchFails, RequestCancel, CancelRun, Age
<1>3. ASSUME NEW s \in Server, Restart(s)
      PROVE  act[a] = "activate" /\ picked'[a] = picked[a]
  BY <1>3 DEF Restart
<1>4. ASSUME NEW b \in Activator,
             WriteEnd(b) \/ (\E r \in Run : EndRun(b, r)) \/ Activation(b) \/ ActivationFails(b)
             \/ Reconcile(b)
      PROVE  \/ act[a] = "activate" /\ picked'[a] = picked[a]
             \/ /\ Pending # {} /\ UNCHANGED rowVars
                /\ picked'[a] = Oldest(Pending)
  <2>1. CASE a # b
    BY <1>4, <2>1 DEF WriteEnd, EndRun, Activation, ActivationFails, Reconcile, ReadPolicy,
       PickOldest, Activate, NameFirst, EnqueueFirst, Sweep, FindOwner, CheckUnactivatable,
       CancelUnactivatable, Rest, Proceed, Turn
  <2>2. CASE a = b
    BY <1>4, <2>2 DEF WriteEnd, EndRun, Activation, ActivationFails, Reconcile, ReadPolicy,
       PickOldest, Activate, NameFirst, EnqueueFirst, Sweep, FindOwner, CheckUnactivatable,
       CancelUnactivatable, Rest, Proceed, Turn
  <2> QED
    BY <2>1, <2>2
<1> QED
  BY <1>1, <1>2, <1>3, <1>4, ActivatorTypes DEF Next, EditPolicy, vars, handVars

LEMMA OldestStep ==
  ASSUME TypeInv, OldestInv, [Next]_vars
  PROVE  OldestInv'
<1> USE DEF TypeInv, RowTypes
<1>1. Pending \in SUBSET Run
  BY DEF Pending, InStatus
<1>2. CASE Shrinks
  <2>1. born' = born /\ now' = now /\ Pending' \subseteq Pending
    BY <1>2 DEF Shrinks
  <2>2. ASSUME NEW a \in Activator, act'[a] = "activate", NEW q \in Pending'
        PROVE  born[picked'[a]] <= born[q]
    <3>1. q \in Pending
      BY <2>1
    <3> QED
      BY <1>1, <2>2, <3>1, PickMoves, OldestFacts DEF OldestInv
  <2> QED
    BY <2>1, <2>2 DEF OldestInv
<1>3. ASSUME NEW x \in Run, CreateRun(x) \/ CreateQueuedRun(x)
      PROVE  OldestInv'
  <2>1. /\ status[x] = "absent" /\ now' = now + 1 /\ now' \in Nat
        /\ \A r \in Run : born'[r] = IF r = x THEN now' ELSE born[r]
        /\ Pending' \subseteq Pending \cup {x}
    BY <1>3, InsertMoves DEF Pending, InStatus
  <2>2. \A r \in Run : born'[r] <= now'
    BY <2>1 DEF OldestInv
  <2>3. ASSUME NEW a \in Activator, act'[a] = "activate", NEW q \in Pending'
        PROVE  born'[picked'[a]] <= born'[q]
    <3>1. act[a] = "activate" /\ picked'[a] = picked[a]
      BY <1>3, <2>3 DEF CreateRun, CreateQueuedRun, handVars
    <3>2. picked[a] \in Run /\ picked[a] # x
      BY <2>1, <3>1 DEF RowsOK, HandRows, Holding, Present
    <3>3. born'[picked[a]] = born[picked[a]]
      BY <2>1, <3>2
    <3>4. CASE q = x
      BY <2>1, <2>2, <3>1, <3>2, <3>4
    <3>5. CASE q # x
      <4>1. q \in Pending /\ q \in Run
        BY <1>1, <2>1, <3>5
      <4> QED
        BY <2>1, <3>1, <3>3, <3>5, <4>1 DEF OldestInv
    <3> QED
      BY <3>4, <3>5
  <2> QED
    BY <2>2, <2>3 DEF OldestInv
<1> QED
  BY <1>2, <1>3, StepShrinks

LEMMA OldestInit == Init => OldestInv
BY DEF Init, OldestInv

\* Only an activation starts a row of the queue.
LEMMA OnlyActivated ==
  ASSUME TypeInv, [Next]_vars, NEW r \in Pending, status'[r] = "RUNNING"
  PROVE  \E a \in Activator : Activate(a) /\ picked[a] = r
<1>1. r \in Run /\ status[r] = "PENDING"
  BY DEF Pending, InStatus
<1>2. ASSUME NEW x \in Present, NEW t \in Terminal, Close(x, t) PROVE FALSE
  BY <1>1, <1>2 DEF Close, Wrote, TypeInv, RowTypes, Terminal
<1>3. CASE UNCHANGED status
  BY <1>1, <1>3
<1>4. ASSUME NEW x \in Run, CreateRun(x) \/ CreateQueuedRun(x) PROVE FALSE
  BY <1>1, <1>4, InsertMoves
<1>5. ASSUME NEW x \in Run, CancelVictim(x) \/ CancelRun(x) PROVE FALSE
  BY <1>2, <1>5 DEF CancelVictim, CancelRun, TypeInv, RowsOK, LaunchRows, Terminal
<1>6. ASSUME NEW a \in Activator, WriteEnd(a) \/ CancelUnactivatable(a) PROVE FALSE
  <2>1. picked[a] \in Present
    BY <1>6 DEF WriteEnd, CancelUnactivatable, TypeInv, RowsOK, HandRows, Holding
  <2> QED
    BY <1>2, <1>6, <2>1 DEF WriteEnd, CancelUnactivatable, Terminal
<1>7. ASSUME NEW a \in Activator, Activate(a)
      PROVE  \E b \in Activator : Activate(b) /\ picked[b] = r
  <2>1. picked[a] = r
    BY <1>1, <1>7 DEF Activate, Wrote, TypeInv, RowTypes
  <2> QED
    BY <1>7, <2>1
<1> QED
  BY <1>3, <1>4, <1>5, <1>6, <1>7, ActivatorTypes
     DEF Next, vars, rowVars, Launch, Arrive, FindExisting, FindExistingFails,
         CheckConcurrency, FindOldestRunning, LoadVictim, LoadVictimFails, NameFirstStep,
         StartRun, FindQueuedByKey, FindQueuedByTrigger, LaunchFails, EndRun, Activation,
         ActivationFails, Reconcile, Sweep, FindOwner, ReadPolicy, PickOldest, NameFirst,
         EnqueueFirst, CheckUnactivatable, EditPolicy, RequestCancel, Age, Restart,
         NameStep, StartJobs

\* Whatever the number of API processes, the row that is activated is an oldest one of
\* the rows that wait at that moment, although it was read a step before.
THEOREM OldestFirstHolds == Spec => OldestFirst
<1>1. TypeInv /\ OldestInv /\ [Next]_vars => OldestInv'
  BY OldestStep
<1>2. TypeInv /\ OldestInv /\ [Next]_vars =>
        [\A r \in Pending : status'[r] = "RUNNING" =>
           \A q \in Pending : born[r] <= born[q]]_vars
  BY OnlyActivated DEF OldestInv, Activate
<1> QED
  BY <1>1, <1>2, OldestInit, InvariantHolds, PTL DEF Spec, OldestFirst
=============================================================================
