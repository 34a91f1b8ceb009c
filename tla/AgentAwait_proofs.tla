--------------------------- MODULE AgentAwait_proofs ---------------------------
(***************************************************************************)
(* The durable await for every set of awaits and children, every bound on  *)
(* attempts, crashes and queue errors: its types, and that it implements   *)
(* AwaitContract.                                                          *)
(***************************************************************************)
EXTENDS AgentAwait, TLAPS

ThreadState == [pc : Pcs, child : SUBSET Children, todo : SUBSET Awaits,
                entity : Held, ready : Held]

LEMMA StatusTypes ==
  /\ \A p \in RegistryPcs \cup ResumePcs \cup SweepPcs \cup {"idle"} : p \in Pcs
  /\ NoRow \in Row
  /\ Nothing \in Held
  /\ \A a \in Awaits, r \in Row : Holding(a, r) \in Held
  /\ \A a \in Awaits : Naming(a) \in Held
  /\ Idle \in ThreadState
BY DEF Pcs, NoRow, Row, Statuses, Nothing, Held, Holding, Naming, Idle, ThreadState

LEMMA InitTypeOK ==
  ASSUME Init
  PROVE  TypeOK
BY AwaitAssumption, StatusTypes
   DEF Init, TypeOK, NoSweep, ThreadState, Threads

LEMMA CompareAndSetType ==
  ASSUME TypeOK, NEW a \in Awaits, NEW from, NEW to \in Statuses,
         CompareAndSet(a, from, to)
  PROVE  row' \in [Awaits -> Row]
BY DEF TypeOK, CompareAndSet, Row

\* A step of a thread to another label.
LEMMA ThreadType ==
  ASSUME TypeOK, NEW t \in Threads, NEW s \in ThreadState,
         th' = [th EXCEPT ![t] = s]
  PROVE  th' \in [Threads -> ThreadState]
BY DEF TypeOK, ThreadState

LEMMA GotoType ==
  ASSUME TypeOK, NEW t \in Threads, NEW p \in Pcs, Goto(t, p)
  PROVE  th' \in [Threads -> ThreadState]
<1>1. th[t] \in ThreadState
  BY DEF TypeOK, ThreadState
<1>2. [th[t] EXCEPT !.pc = p] \in ThreadState
  BY <1>1 DEF ThreadState
<1>3. th' = [th EXCEPT ![t] = [th[t] EXCEPT !.pc = p]]
  BY DEF TypeOK, Goto
<1> QED
  BY <1>2, <1>3, ThreadType

LEMMA EndResumeType ==
  ASSUME TypeOK, NEW t \in Threads, EndResume(t)
  PROVE  th' \in [Threads -> ThreadState]
<1>1. /\ Idle \in ThreadState
      /\ [Idle EXCEPT !.pc = "pick"] \in ThreadState
  BY StatusTypes DEF ThreadState, Pcs, SweepPcs
<1> QED
  BY <1>1 DEF EndResume, TypeOK, ThreadState

LEMMA AfterMarkType ==
  ASSUME NEW t \in Threads, NEW a \in Awaits
  PROVE  AfterMark(t, a)[1] \in Pcs /\ AfterMark(t, a)[2] \in Held
BY StatusTypes DEF AfterMark, Pcs, RegistryPcs

LEMMA HeldIds ==
  ASSUME NEW h \in Held, NEW a \in h.id
  PROVE  a \in Awaits /\ h.id = {a} /\ h.row \in Row
BY DEF Held

LEMMA ThreadFields ==
  ASSUME TypeOK, NEW t \in Threads
  PROVE  /\ th \in [Threads -> ThreadState]
         /\ th[t] \in ThreadState
         /\ th[t].entity \in Held /\ th[t].ready \in Held
         /\ th[t].todo \subseteq Awaits /\ th[t].child \subseteq Children
BY DEF TypeOK, ThreadState

LEMMA FoundType ==
  ASSUME NEW s \in ThreadState, NEW p \in Pcs, NEW c \in SUBSET Children
  PROVE  [s EXCEPT !.pc = p, !.child = c] \in ThreadState
BY DEF ThreadState

LEMMA ListedType ==
  ASSUME NEW s \in ThreadState, NEW p \in Pcs, NEW d \in SUBSET Awaits, NEW r \in Held
  PROVE  [s EXCEPT !.pc = p, !.todo = d, !.ready = r] \in ThreadState
BY DEF ThreadState

LEMMA ReadType ==
  ASSUME NEW s \in ThreadState, NEW p \in Pcs, NEW e \in Held, NEW d \in SUBSET Awaits
  PROVE  [s EXCEPT !.pc = p, !.entity = e, !.todo = d] \in ThreadState
BY DEF ThreadState

LEMMA PromotedType ==
  ASSUME NEW s \in ThreadState, NEW p \in Pcs, NEW e \in Held, NEW r \in Held
  PROVE  [s EXCEPT !.pc = p, !.entity = e, !.ready = r] \in ThreadState
BY DEF ThreadState

LEMMA RowGains ==
  ASSUME NEW h \in Held, NEW c \in SUBSET Children
  PROVE  [h.row EXCEPT !.satisfied = @ \cup c] \in Row
<1>1. h.row \in Row
  BY DEF Held
<1> QED
  BY <1>1 DEF Row

LEMMA MovedType ==
  ASSUME TypeOK, NEW t \in Threads, NEW p \in Pcs, NEW e \in Held
  PROVE  /\ [th EXCEPT ![t].pc = p, ![t].entity = e] \in [Threads -> ThreadState]
         /\ [th EXCEPT ![t].pc = p, ![t].ready = e] \in [Threads -> ThreadState]
<1>1. /\ [th[t] EXCEPT !.pc = p, !.entity = e] \in ThreadState
      /\ [th[t] EXCEPT !.pc = p, !.ready = e] \in ThreadState
  BY ThreadFields DEF ThreadState
<1>2. /\ [th EXCEPT ![t].pc = p, ![t].entity = e]
             = [th EXCEPT ![t] = [th[t] EXCEPT !.pc = p, !.entity = e]]
      /\ [th EXCEPT ![t].pc = p, ![t].ready = e]
             = [th EXCEPT ![t] = [th[t] EXCEPT !.pc = p, !.ready = e]]
  BY ThreadFields
<1> QED
  BY <1>1, <1>2, ThreadFields

LEMMA ThreadStepTypeOK ==
  ASSUME TypeOK, NEW t \in Threads, ThreadStep(t)
  PROVE  TypeOK'
<1> USE DEF TypeOK, world, budget
<1> DEFINE T == [Threads -> ThreadState]
<1>0. th \in T /\ Nothing \in Held
  BY StatusTypes DEF ThreadState
<1>1. CASE FindWaiting(t)
  <2> DEFINE s == [th[t] EXCEPT !.pc = "mark",
                     !.todo = {a \in Awaits : /\ row[a].status = "WAITING"
                                             /\ th[t].child \subseteq Awaited[a]},
                     !.ready = Nothing]
  <2>a. th' = [th EXCEPT ![t] = s]
    BY <1>0, <1>1 DEF FindWaiting
  <2>b. s \in ThreadState
    <3> DEFINE d == {a \in Awaits : /\ row[a].status = "WAITING"
                                   /\ th[t].child \subseteq Awaited[a]}
    <3>1. d \in SUBSET Awaits /\ "mark" \in Pcs /\ th[t] \in ThreadState
      BY ThreadFields DEF Pcs, RegistryPcs
    <3>2. s = [th[t] EXCEPT !.pc = "mark", !.todo = d, !.ready = Nothing]
      OBVIOUS
    <3> HIDE DEF d, s
    <3> QED BY ONLY <1>0, <3>1, <3>2, ListedType
  <2>1. th' \in T
    BY <2>a, <2>b, ThreadType
  <2> QED
    BY <1>1, <2>1 DEF FindWaiting, ThreadState
<1>2. ASSUME NEW a \in Awaits, ReadEntity(t, a) PROVE TypeOK'
  <2>0. PICK p \in Pcs, e \in Held :
          th' = [th EXCEPT ![t].pc = p, ![t].entity = e, ![t].todo = @ \ {a}]
    <3>1. PICK next \in {AfterMark(t, a), <<"save", Holding(a, row[a])>>} :
            th' = [th EXCEPT ![t].pc = next[1], ![t].entity = next[2], ![t].todo = @ \ {a}]
      BY <1>2 DEF ReadEntity
    <3>2. next[1] \in Pcs /\ next[2] \in Held
      BY AfterMarkType, StatusTypes DEF Pcs, RegistryPcs
    <3> QED BY <3>1, <3>2
  <2> DEFINE s == [th[t] EXCEPT !.pc = p, !.entity = e, !.todo = th[t].todo \ {a}]
  <2>a. th' = [th EXCEPT ![t] = s]
    BY <1>0, <2>0
  <2>b. s \in ThreadState
    <3>1. th[t] \in ThreadState /\ th[t].todo \ {a} \in SUBSET Awaits
      BY ThreadFields
    <3> QED BY ONLY <3>1, ReadType, p \in Pcs, e \in Held
  <2>1. th' \in T
    BY <2>a, <2>b, ThreadType
  <2> QED
    BY <1>2, <2>1 DEF ReadEntity, ThreadState
<1>3. CASE SaveEntity(t)
  <2>1. PICK a \in Awaits :
          /\ row' = [row EXCEPT ![a] = [th[t].entity.row EXCEPT !.satisfied = @ \cup th[t].child]]
          /\ LET next == AfterMark(t, a)
             IN  th' = [th EXCEPT ![t].pc = next[1], ![t].entity = next[2]]
    BY <1>3, ThreadFields, HeldIds DEF SaveEntity
  <2>2. th' \in T
    <3>1. PICK p \in Pcs, e \in Held : th' = [th EXCEPT ![t].pc = p, ![t].entity = e]
      BY <2>1, AfterMarkType
    <3> QED BY <3>1, MovedType
  <2>3. [th[t].entity.row EXCEPT !.satisfied = @ \cup th[t].child] \in Row
    <3>1. th[t].entity \in Held /\ th[t].child \in SUBSET Children
      BY ThreadFields
    <3> QED BY <3>1, RowGains
  <2> QED
    BY <1>3, <2>1, <2>2, <2>3 DEF SaveEntity, ThreadState
<1>4. CASE Refresh(t)
  <2>1. PICK a \in Awaits :
         th' = IF Awaited[a] \subseteq row[a].satisfied
               THEN [th EXCEPT ![t].pc = "promoteOne",
                               ![t].entity = Holding(a, row[a])]
               ELSE [th EXCEPT ![t].pc = "mark", ![t].entity = Nothing]
    BY <1>4, ThreadFields, HeldIds DEF Refresh
  <2>2. th' \in T
    <3>1. PICK p \in Pcs, e \in Held : th' = [th EXCEPT ![t].pc = p, ![t].entity = e]
      BY <2>1, StatusTypes DEF Pcs, RegistryPcs
    <3> QED BY <3>1, MovedType
  <2> QED
    BY <1>4, <2>2 DEF Refresh, ThreadState
<1>5. CASE PromoteOne(t)
  <2>1. PICK a \in Awaits :
         /\ CompareAndSet(a, "WAITING", "RESUMING")
         /\ th' = [th EXCEPT
              ![t].pc = "mark",
              ![t].entity = Nothing,
              ![t].ready = IF row[a].status = "WAITING"
                           THEN th[t].entity ELSE Nothing]
    BY <1>5, ThreadFields, HeldIds DEF PromoteOne
  <2>2. th' \in T
    <3>1. PICK e \in Held :
            th' = [th EXCEPT ![t].pc = "mark", ![t].entity = Nothing, ![t].ready = e]
      BY <1>0, <2>1, ThreadFields
    <3>2. th' = [th EXCEPT ![t] = [th[t] EXCEPT !.pc = "mark", !.entity = Nothing, !.ready = e]]
      BY <1>0, <3>1
    <3>3. [th[t] EXCEPT !.pc = "mark", !.entity = Nothing, !.ready = e] \in ThreadState
      <4>1. "mark" \in Pcs /\ th[t] \in ThreadState
        BY ThreadFields DEF Pcs, RegistryPcs
      <4> QED BY ONLY <1>0, <4>1, e \in Held, PromotedType
    <3> QED BY <3>2, <3>3, ThreadType
  <2>3. row' \in [Awaits -> Row]
    BY <2>1, CompareAndSetType DEF Statuses
  <2> QED
    BY <1>5, <2>2, <2>3 DEF PromoteOne, ThreadState
<1>6. CASE AllMarked(t)
  <2>1. th' \in T
    BY <1>0, <1>6, StatusTypes DEF AllMarked, ThreadState, Pcs, SweepPcs, ResumePcs
  <2> QED
    BY <1>6, <2>1 DEF AllMarked, ThreadState
<1>7. CASE StartResume(t)
  <2>1. th' \in T
    BY <1>7, GotoType, EndResumeType DEF StartResume, Pcs, ResumePcs
  <2> QED
    BY <1>7, <2>1 DEF StartResume, ThreadState
<1>8. CASE CheckRun(t)
  <2>1. th' \in T
    BY <1>8, GotoType, EndResumeType DEF CheckRun, Pcs, ResumePcs
  <2> QED
    BY <1>8, <2>1 DEF CheckRun, ThreadState
<1>9. CASE SetRunning(t)
  <2>1. th' \in T
    BY <1>9, GotoType DEF SetRunning, Pcs, ResumePcs
  <2>2. PICK a \in Awaits : parent' = [parent EXCEPT ![a] = "RUNNING"]
    BY <1>9, ThreadFields, HeldIds DEF SetRunning
  <2> QED
    BY <1>9, <2>1, <2>2 DEF SetRunning, ThreadState
<1>10. CASE Enqueue(t)
  <2>1. th' \in T
    BY <1>10, GotoType DEF Enqueue, Pcs, ResumePcs
  <2>2. joins' \in [Awaits -> SUBSET SUBSET Children]
    BY <1>0, <1>10 DEF Enqueue, ThreadState, Held, Row
  <2> QED
    BY <1>10, <2>1, <2>2 DEF Enqueue, ThreadState
<1>11. CASE EnqueueThrows(t)
  <2>1. th' \in T
    BY <1>11, EndResumeType DEF EnqueueThrows
  <2>2. queueErrors' \in 0 .. MaxQueueErrors
    BY <1>11, AwaitAssumption DEF EnqueueThrows
  <2> QED
    BY <1>11, <2>1, <2>2 DEF EnqueueThrows, ThreadState
<1>12. CASE FinishResume(t)
  <2>1. th' \in T
    BY <1>12, EndResumeType DEF FinishResume
  <2>2. PICK a \in Awaits :
         /\ CompareAndSet(a, "RESUMING", "RESUMED")
         /\ attempts' = IF t = Reconciler THEN [attempts EXCEPT ![a] = 0]
                        ELSE attempts
    BY <1>12, ThreadFields, HeldIds DEF FinishResume
  <2>3. row' \in [Awaits -> Row]
    BY <2>2, CompareAndSetType DEF Statuses
  <2>4. attempts' \in [Awaits -> 0 .. MaxResumeAttempts]
    BY <2>2, AwaitAssumption
  <2> QED
    BY <1>12, <2>1, <2>3, <2>4 DEF FinishResume, ThreadState
<1> QED
  BY <1>1, <1>2, <1>3, <1>4, <1>5, <1>6, <1>7, <1>8, <1>9, <1>10, <1>11, <1>12
     DEF ThreadStep

LEMMA SweepTypes ==
  ASSUME TypeOK
  PROVE  /\ Reconciler \in Threads
         /\ sweep.work \subseteq Held /\ sweep.current \in Held
         /\ sweep.kids \subseteq Children
         /\ NoSweep \in [work : SUBSET Held, current : Held,
                         kids : SUBSET Children, allTerminal : BOOLEAN]
         /\ \A a \in Awaits : row[a] \in Row /\ Awaited[a] \subseteq Children
BY StatusTypes, AwaitAssumption DEF TypeOK, Threads, NoSweep

LEMMA SweepStepTypeOK ==
  ASSUME TypeOK, SweepStep
  PROVE  TypeOK'
<1> USE DEF TypeOK, world, budget
<1> DEFINE T == [Threads -> ThreadState]
           S == [work : SUBSET Held, current : Held,
                 kids : SUBSET Children, allTerminal : BOOLEAN]
<1>0. th \in T /\ sweep \in S /\ NoSweep \in S /\ Reconciler \in Threads
  BY SweepTypes, StatusTypes, ThreadFields
<1>p. {"idle", "pick", "children", "reread", "attempt", "giveUpCancel",
       "giveUpUnpark", "giveUpFail", "unpark", "find"} \subseteq Pcs
  BY DEF Pcs, SweepPcs, ResumePcs, RegistryPcs
<1>1. CASE SweepStarts
  <2>1. th' \in T
    BY <1>1, <1>p, <1>0, GotoType DEF SweepStarts
  <2>2. OpenRows \subseteq Held
    BY SweepTypes, StatusTypes DEF OpenRows
  <2> QED BY <1>0, <1>1, <2>1, <2>2 DEF SweepStarts, ThreadState
<1>2. CASE SweepEnds
  <2>1. th' \in T
    BY <1>2, <1>0, StatusTypes DEF SweepEnds
  <2> QED BY <1>0, <1>2, <2>1 DEF SweepEnds, ThreadState
<1>3. ASSUME NEW r \in sweep.work, PickWaiting(r) \/ SkipYoung(r) \/ PickStuck(r)
      PROVE  TypeOK'
  <2>1. th' \in T
    BY <1>3, <1>p, <1>0, GotoType DEF PickWaiting, SkipYoung, PickStuck
  <2>2. r \in Held /\ \A a \in r.id : a \in Awaits
    BY SweepTypes, HeldIds
  <2>3. sweep' \in S
    <3>1. CASE PickWaiting(r)
      BY <2>2, <3>1, SweepTypes DEF PickWaiting
    <3>2. CASE SkipYoung(r)
      BY <3>2, SweepTypes DEF SkipYoung
    <3>3. CASE PickStuck(r)
      BY <2>2, <3>3, SweepTypes DEF PickStuck
    <3> QED BY <1>3, <3>1, <3>2, <3>3
  <2> QED BY <1>3, <2>1, <2>3 DEF PickWaiting, SkipYoung, PickStuck, ThreadState
<1>4. ASSUME NEW c \in Children, CheckChild(c) PROVE TypeOK'
  <2>1. th' \in T
    <3>1. CASE c \in ended
      <4> DEFINE s == [th[Reconciler] EXCEPT !.pc = "find", !.child = {c}]
      <4>1. th' = [th EXCEPT ![Reconciler] = s]
        BY <1>0, <1>4, <3>1 DEF CheckChild
      <4>2. s \in ThreadState
        <5>1. th[Reconciler] \in ThreadState /\ {c} \in SUBSET Children
          BY <1>0, ThreadFields
        <5>2. [th[Reconciler] EXCEPT !.pc = "find", !.child = {c}] \in ThreadState
          BY <1>p, <5>1, FoundType
        <5> QED BY <5>2
      <4> QED BY <1>0, <4>1, <4>2, ThreadType
    <3> QED BY <1>0, <1>4, <3>1 DEF CheckChild
  <2>2. sweep' \in S
    <3>1. \/ sweep' = [sweep EXCEPT !.kids = @ \ {c}]
          \/ sweep' = [sweep EXCEPT !.kids = @ \ {c}, !.allTerminal = FALSE]
      BY <1>4 DEF CheckChild
    <3>2. /\ [sweep EXCEPT !.kids = @ \ {c}] \in S
          /\ [sweep EXCEPT !.kids = @ \ {c}, !.allTerminal = FALSE] \in S
      BY <1>0, SweepTypes
    <3> QED BY <3>1, <3>2
  <2> QED BY <1>4, <2>1, <2>2 DEF CheckChild, ThreadState
<1>5. CASE StillWaiting
  <2>1. th' \in T
    BY <1>5, <1>p, <1>0, GotoType DEF StillWaiting
  <2> QED BY <1>5, <2>1 DEF StillWaiting, ThreadState
<1>6. CASE Promote
  <2>1. PICK a \in Awaits :
         /\ CompareAndSet(a, "WAITING", "RESUMING")
         /\ Goto(Reconciler, IF row[a].status = "WAITING" THEN "reread" ELSE "pick")
    BY <1>6, SweepTypes, HeldIds DEF Promote
  <2>2. th' \in T
    BY <2>1, <1>p, <1>0, GotoType
  <2>3. row' \in [Awaits -> Row]
    BY <2>1, CompareAndSetType DEF Statuses
  <2> QED BY <1>6, <2>2, <2>3 DEF Promote, ThreadState
<1>7. CASE Reread
  <2>1. PICK a \in Awaits : sweep' = [sweep EXCEPT !.current = Holding(a, row[a])]
    BY <1>7, SweepTypes, HeldIds DEF Reread
  <2>2. th' \in T
    BY <1>7, <1>p, <1>0, GotoType DEF Reread
  <2>3. sweep' \in S
    BY <1>0, <2>1, SweepTypes, StatusTypes
  <2> QED BY <1>7, <2>2, <2>3 DEF Reread, ThreadState
<1>8. CASE Attempt
  <2>1. PICK a \in Awaits :
         IF attempts[a] >= MaxResumeAttempts
         THEN /\ Goto(Reconciler, "giveUpCancel")
              /\ UNCHANGED attempts
         ELSE /\ attempts' = [attempts EXCEPT ![a] = @ + 1]
              /\ th' = [th EXCEPT ![Reconciler].pc = "unpark",
                                  ![Reconciler].ready = sweep.current]
    BY <1>8, SweepTypes, HeldIds DEF Attempt
  <2>2. th' \in T
    <3>1. CASE attempts[a] >= MaxResumeAttempts
      BY <2>1, <3>1, <1>p, <1>0, GotoType
    <3>2. CASE ~(attempts[a] >= MaxResumeAttempts)
      <4>1. th' = [th EXCEPT ![Reconciler].pc = "unpark", ![Reconciler].ready = sweep.current]
        BY <2>1, <3>2
      <4> HIDE DEF TypeOK
      <4> QED BY <4>1, <1>p, <1>0, MovedType, SweepTypes
    <3> QED BY <3>1, <3>2
  <2>3. attempts' \in [Awaits -> 0 .. MaxResumeAttempts]
    BY <2>1, AwaitAssumption
  <2> QED BY <1>8, <2>2, <2>3 DEF Attempt, ThreadState
<1>9. CASE GiveUpCancel
  <2>1. PICK a \in Awaits : CompareAndSet(a, "RESUMING", "CANCELLED")
    BY <1>9, SweepTypes, HeldIds DEF GiveUpCancel
  <2>2. th' \in T
    BY <1>9, <1>p, <1>0, GotoType DEF GiveUpCancel
  <2>3. row' \in [Awaits -> Row]
    BY <2>1, CompareAndSetType DEF Statuses
  <2> QED BY <1>9, <2>2, <2>3 DEF GiveUpCancel, ThreadState
<1>10. CASE GiveUpUnpark
  <2>1. th' \in T
    BY <1>10, <1>p, <1>0, GotoType DEF GiveUpUnpark
  <2> QED BY <1>10, <2>1 DEF GiveUpUnpark, ThreadState
<1>11. CASE GiveUpFail
  <2>1. th' \in T
    BY <1>11, <1>p, <1>0, GotoType DEF GiveUpFail
  <2>2. failed' \subseteq Awaits
    BY <1>11, SweepTypes, HeldIds DEF GiveUpFail
  <2>3. attempts' \in [Awaits -> 0 .. MaxResumeAttempts]
    BY <1>11, AwaitAssumption DEF GiveUpFail
  <2> QED BY <1>11, <2>1, <2>2, <2>3 DEF GiveUpFail, ThreadState
<1> QED
  BY <1>1, <1>2, <1>3, <1>4, <1>5, <1>6, <1>7, <1>8, <1>9, <1>10, <1>11 DEF SweepStep

LEMMA NextTypeOK ==
  ASSUME TypeOK, [Next]_vars
  PROVE  TypeOK'
<1>1. ASSUME NEW a \in Awaits,
             CreateAwait(a) \/ ParkParent(a) \/ CaptureRef(a) \/ CancelParent(a) \/ CancelAwaits(a)
      PROVE  TypeOK'
  <2>1. CASE CreateAwait(a)
    BY <2>1 DEF TypeOK, CreateAwait, budget, Row, Statuses, NoRow
  <2>2. CASE ParkParent(a)
    BY <2>2 DEF TypeOK, ParkParent, budget
  <2>3. CASE CancelParent(a)
    BY <2>3 DEF TypeOK, CancelParent, budget
  <2>4. CASE CancelAwaits(a)
    <3>1. [row[a] EXCEPT !.status = "CANCELLED"] \in Row
      BY DEF TypeOK, Row, Statuses
    <3>2. row' \in [Awaits -> Row]
      BY <2>4, <3>1 DEF TypeOK, CancelAwaits
    <3> QED BY <2>4, <3>2 DEF TypeOK, CancelAwaits, budget
  <2>5. CASE CaptureRef(a)
    <3>1. [row[a] EXCEPT !.ref = TRUE] \in Row
      <4>1. row[a] \in Row /\ TRUE \in BOOLEAN
        BY DEF TypeOK
      <4>2. \A r \in Row, b \in BOOLEAN : [r EXCEPT !.ref = b] \in Row
        BY DEF Row
      <4> QED BY <4>1, <4>2
    <3>2. row' \in [Awaits -> Row]
      BY <2>5, <3>1 DEF TypeOK, CaptureRef
    <3> QED BY <2>5, <3>2 DEF TypeOK, CaptureRef, budget
  <2> QED BY <1>1, <2>1, <2>2, <2>3, <2>4, <2>5
<1>2. ASSUME NEW c \in Children, ChildEnds(c) PROVE TypeOK'
  <2>1. [Idle EXCEPT !.pc = "find", !.child = {c}] \in ThreadState
    BY StatusTypes DEF ThreadState, Pcs, RegistryPcs
  <2>2. th' \in [Threads -> ThreadState]
    BY <1>2, <2>1, ThreadType DEF ChildEnds, Threads
  <2> QED BY <1>2, <2>2 DEF TypeOK, ChildEnds, budget, ThreadState
<1>3. CASE Crash
  BY <1>3, StatusTypes, SweepTypes, AwaitAssumption DEF TypeOK, Crash, ThreadState
<1>4. CASE UNCHANGED vars
  BY <1>4 DEF TypeOK, vars
<1> QED
  BY <1>1, <1>2, <1>3, <1>4, ThreadStepTypeOK, SweepStepTypeOK DEF Next

\* Every variable keeps its type; in particular no counter of resume
\* attempts exceeds MAX_RESUME_ATTEMPTS.
THEOREM TypeCorrect == Spec => []TypeOK
BY InitTypeOK, NextTypeOK, PTL DEF Spec

-----------------------------------------------------------------------------
(* What rows, and copies of rows, say is true, and stays true: children do *)
(* not come back, messages are not withdrawn, nothing registers twice.     *)

RowSound(a, r) ==
  /\ r.satisfied \subseteq Awaited[a] \cap ended
  /\ r.status \in {"RESUMING", "RESUMED"} => Joinable(a)
  /\ r.status = "RESUMED" => joins[a] # {}
  /\ r.status # "NONE" => registrar[a] # "create"

HeldSound(h) == \A a \in h.id : RowSound(a, h.row)

RowsSound == \A a \in Awaits :
  /\ RowSound(a, row[a])
  /\ (joins[a] # {} \/ a \in failed) => Joinable(a)

StateSound(t, s) ==
  /\ s.pc \notin RegistryPcs => s.todo = {} /\ s.entity.id = {}
  /\ s.child \subseteq ended
  /\ \A a \in s.todo \cup s.entity.id :
       s.child \subseteq Awaited[a] /\ registrar[a] # "create"
  /\ HeldSound(s.entity) /\ HeldSound(s.ready)
  /\ s.pc = "promoteOne" =>
       \A a \in s.entity.id : Awaited[a] \subseteq s.entity.row.satisfied
  /\ \A a \in s.ready.id : Joinable(a)
  /\ t # Reconciler => \A a \in s.ready.id : s.ready.row.satisfied = Awaited[a]
  /\ s.pc = "finish" => \A a \in s.ready.id : joins[a] # {}

ThreadSound(t) == StateSound(t, th[t])

\* The sweep has decided to resume, or to give up, its current row.
Deciding == {"reread", "attempt", "giveUpCancel", "giveUpUnpark", "giveUpFail"}

SweepSound ==
  /\ \A r \in sweep.work : HeldSound(r)
  /\ HeldSound(sweep.current)
  /\ sweep.allTerminal =>
       \A a \in sweep.current.id : Awaited[a] \subseteq ended \cup sweep.kids
  /\ th[Reconciler].pc \in Deciding => sweep.allTerminal /\ sweep.kids = {}

Inv == TypeOK /\ RowsSound /\ (\A t \in Threads : ThreadSound(t)) /\ SweepSound

LEMMA InitInv ==
  ASSUME Init
  PROVE  Inv
<1>1. TypeOK
  BY InitTypeOK
<1> QED
  BY <1>1, AwaitAssumption
     DEF Inv, Init, RowsSound, ThreadSound, StateSound, SweepSound, RowSound, HeldSound, NoRow,
         Idle, Nothing, NoSweep, Threads, At, Deciding

Grows ==
  /\ ended \subseteq ended'
  /\ \A a \in Awaits : /\ joins[a] \subseteq joins'[a]
                       /\ registrar'[a] = "create" => registrar[a] = "create"

LEMMA StepGrows ==
  ASSUME TypeOK, [Next]_vars
  PROVE  Grows
<1> USE DEF Grows, TypeOK
<1>1. ASSUME NEW a \in Awaits,
             CreateAwait(a) \/ ParkParent(a) \/ CaptureRef(a) \/ CancelParent(a) \/ CancelAwaits(a)
      PROVE  Grows
  BY <1>1 DEF CreateAwait, ParkParent, CaptureRef, CancelParent, CancelAwaits
<1>2. ASSUME NEW c \in Children, ChildEnds(c) PROVE Grows
  BY <1>2 DEF ChildEnds
<1>3. ASSUME NEW t \in Threads, ThreadStep(t) PROVE Grows
  <2>1. CASE Enqueue(t)
    <3>1. PICK a \in Awaits : joins' = [joins EXCEPT ![a] = @ \cup {th[t].ready.row.satisfied}]
      BY <2>1, <1>3, ThreadFields, HeldIds DEF Enqueue
    <3> QED BY <2>1, <3>1 DEF Enqueue, world
  <2>2. CASE UNCHANGED <<ended, joins, registrar>>
    BY <2>2
  <2> QED
    BY <1>3, <2>1, <2>2
       DEF ThreadStep, FindWaiting, ReadEntity, SaveEntity, Refresh, PromoteOne, AllMarked,
           StartResume, CheckRun, SetRunning, EnqueueThrows, FinishResume, world
<1>4. CASE SweepStep
  <2>1. UNCHANGED <<ended, joins, registrar>>
    BY <1>4
       DEF SweepStep, SweepStarts, SweepEnds, PickWaiting, SkipYoung, PickStuck,
           CheckChild, StillWaiting, Promote, Reread, Attempt, GiveUpCancel,
           GiveUpUnpark, GiveUpFail, world
  <2> QED BY <2>1
<1>5. CASE Crash
  BY <1>5 DEF Crash
<1>6. CASE UNCHANGED vars
  BY <1>6 DEF vars
<1> QED
  BY <1>1, <1>2, <1>3, <1>4, <1>5, <1>6 DEF Next

LEMMA RowSoundGrows ==
  ASSUME Grows, NEW a \in Awaits, NEW r, RowSound(a, r)
  PROVE  /\ r.satisfied \subseteq Awaited[a] \cap ended'
         /\ r.status \in {"RESUMING", "RESUMED"} => Joinable(a)'
         /\ r.status = "RESUMED" => joins'[a] # {}
         /\ r.status # "NONE" => registrar'[a] # "create"
BY DEF Grows, RowSound, Joinable

LEMMA HeldKept ==
  ASSUME Grows, NEW h \in Held, HeldSound(h)
  PROVE  \A a \in h.id :
           /\ h.row.satisfied \subseteq Awaited[a] \cap ended'
           /\ h.row.status \in {"RESUMING", "RESUMED"} => Joinable(a)'
           /\ h.row.status = "RESUMED" => joins'[a] # {}
           /\ h.row.status # "NONE" => registrar'[a] # "create"
BY RowSoundGrows, HeldIds DEF HeldSound

LEMMA ThreadKept ==
  ASSUME Grows, TypeOK, NEW t \in Threads, ThreadSound(t), th'[t] = th[t]
  PROVE  ThreadSound(t)'
<1>1. /\ th[t].entity \in Held /\ th[t].ready \in Held
      /\ \A a \in th[t].todo \cup th[t].entity.id \cup th[t].ready.id : a \in Awaits
  BY ThreadFields, HeldIds
<1>2. HeldSound(th[t].entity)' /\ HeldSound(th[t].ready)'
  <2>1. HeldSound(th[t].entity) /\ HeldSound(th[t].ready)
    BY DEF ThreadSound, StateSound
  <2>2. ASSUME NEW e \in Held, HeldSound(e)
        PROVE  \A a \in e.id : RowSound(a, e.row)'
    BY <2>2, HeldKept DEF RowSound
  <2>3. /\ \A a \in th[t].entity.id : RowSound(a, th[t].entity.row)'
        /\ \A a \in th[t].ready.id : RowSound(a, th[t].ready.row)'
    BY <1>1, <2>1, <2>2
  <2> QED BY <2>3 DEF HeldSound
<1> QED
  BY <1>1, <1>2 DEF Grows, ThreadSound, StateSound, At, Joinable

LEMMA SweepKept ==
  ASSUME Grows, TypeOK, SweepSound, sweep' = sweep,
         th'[Reconciler].pc \in Deciding => th[Reconciler].pc \in Deciding
  PROVE  SweepSound'
<1>1. /\ \A r \in sweep.work : r \in Held
      /\ sweep.current \in Held
  BY SweepTypes
<1>2. (\A r \in sweep.work : HeldSound(r))' /\ HeldSound(sweep.current)'
  BY <1>1, HeldKept DEF SweepSound, HeldSound, RowSound
<1> QED
  BY <1>2 DEF Grows, SweepSound

LEMMA RowsKept ==
  ASSUME Grows, TypeOK, RowsSound, failed' = failed, joins' = joins,
         \A a \in Awaits : row'[a] = row[a] \/ RowSound(a, row[a])'
  PROVE  RowsSound'
<1> SUFFICES ASSUME NEW a \in Awaits
             PROVE  /\ RowSound(a, row[a])'
                    /\ (joins'[a] # {} \/ a \in failed') => Joinable(a)'
  BY DEF RowsSound
<1>1. RowSound(a, row[a])'
  BY RowSoundGrows DEF RowsSound, RowSound
<1> QED
  BY <1>1 DEF RowsSound, Grows, Joinable

LEMMA CompareAndSetKept ==
  ASSUME Grows, TypeOK, RowsSound, NEW a \in Awaits, NEW from \in Statuses \ {"NONE"},
         NEW to \in Statuses, CompareAndSet(a, from, to),
         failed' = failed, joins' = joins,
         to # "CANCELLED" => Joinable(a),
         to = "RESUMED" => joins[a] # {}
  PROVE  RowsSound'
<1>1. CASE row[a].status = from
  <2>1. /\ row'[a].status = to
        /\ row'[a].satisfied = row[a].satisfied
        /\ \A b \in Awaits : b # a => row'[b] = row[b]
    BY <1>1 DEF CompareAndSet, TypeOK, Row
  <2>2. RowSound(a, row[a])'
    BY <1>1, <2>1 DEF RowsSound, RowSound, Grows, Joinable, TypeOK, Row, Statuses
  <2> QED BY <2>1, <2>2, RowsKept
<1>2. CASE row' = row
  BY <1>2, RowsKept
<1> QED
  BY <1>1, <1>2 DEF CompareAndSet

\* A step of one thread that leaves the sweep's rows alone.
LEMMA ThreadMoves ==
  ASSUME Inv, TypeOK', Grows, NEW t \in Threads, NEW s, th' = [th EXCEPT ![t] = s],
         ThreadSound(t)', RowsSound', sweep' = sweep,
         t = Reconciler => s.pc \notin Deciding
  PROVE  Inv'
<1>1. th \in [Threads -> ThreadState]
  BY ThreadFields DEF Inv
<1>2. \A u \in Threads : u # t => th'[u] = th[u]
  BY <1>1
<1>3. th'[t] = s
  BY <1>1
<1>4. \A u \in Threads : ThreadSound(u)'
  BY <1>2, ThreadKept DEF Inv
<1>5. SweepSound'
  BY <1>2, <1>3, SweepKept, SweepTypes DEF Inv
<1> QED
  BY <1>4, <1>5 DEF Inv

LEMMA EndResumeInv ==
  ASSUME Inv, TypeOK', Grows, NEW t \in Threads, EndResume(t), RowsSound', sweep' = sweep
  PROVE  Inv'
<1> DEFINE s == IF t = Reconciler THEN [Idle EXCEPT !.pc = "pick"] ELSE Idle
<1>1. /\ s.child = {} /\ s.todo = {} /\ s.entity.id = {} /\ s.ready.id = {}
      /\ s.pc \in {"pick", "idle"}
  BY DEF Idle, Nothing
<1>2. th' = [th EXCEPT ![t] = s] /\ th'[t] = s
  BY ThreadFields DEF EndResume, Inv
<1>3. ThreadSound(t)'
  BY <1>1, <1>2 DEF ThreadSound, StateSound, RegistryPcs, HeldSound, At
<1> HIDE DEF s
<1> QED
  BY <1>1, <1>2, <1>3, ThreadMoves DEF Deciding

LEMMA GotoSound ==
  ASSUME Inv, Grows, NEW t \in Threads, NEW p, Goto(t, p),
         {p, th[t].pc} \cap RegistryPcs = {},
         p = "finish" => \A a \in th[t].ready.id : joins'[a] # {}
  PROVE  /\ th' = [th EXCEPT ![t] = [th[t] EXCEPT !.pc = p]]
         /\ ThreadSound(t)'
<1>1. /\ th' = [th EXCEPT ![t] = [th[t] EXCEPT !.pc = p]]
      /\ th'[t].child = th[t].child /\ th'[t].todo = th[t].todo
      /\ th'[t].entity = th[t].entity /\ th'[t].ready = th[t].ready
      /\ th'[t].pc = p
  BY ThreadFields DEF Goto, Inv, ThreadState
<1>2. /\ th[t].entity \in Held /\ th[t].ready \in Held
      /\ \A a \in th[t].todo \cup th[t].entity.id \cup th[t].ready.id : a \in Awaits
  BY ThreadFields, HeldIds DEF Inv
<1>3. HeldSound(th[t].entity)' /\ HeldSound(th[t].ready)'
  <2>1. HeldSound(th[t].entity) /\ HeldSound(th[t].ready)
    BY DEF Inv, ThreadSound, StateSound
  <2>2. \A h \in {th[t].entity, th[t].ready} : \A a \in h.id :
           /\ h.row.satisfied \subseteq Awaited[a] \cap ended'
           /\ h.row.status \in {"RESUMING", "RESUMED"} => Joinable(a)'
           /\ h.row.status = "RESUMED" => joins'[a] # {}
           /\ h.row.status # "NONE" => registrar'[a] # "create"
    BY <1>2, <2>1, HeldKept
  <2> QED
    BY <1>1, <2>2 DEF HeldSound, RowSound
<1> QED
  <2>1. th[t].todo = {} /\ th[t].entity.id = {} /\ p # "promoteOne"
    BY DEF Inv, ThreadSound, StateSound, RegistryPcs
  <2> QED
    BY <1>1, <1>2, <1>3, <2>1 DEF Inv, Grows, ThreadSound, StateSound, Joinable

LEMMA GotoInv ==
  ASSUME Inv, TypeOK', Grows, NEW t \in Threads, NEW p, Goto(t, p),
         {p, th[t].pc} \cap RegistryPcs = {},
         p = "finish" => \A a \in th[t].ready.id : joins'[a] # {},
         t = Reconciler => p \notin Deciding,
         RowsSound', sweep' = sweep
  PROVE  Inv'
<1>1. [th[t] EXCEPT !.pc = p].pc = p
  BY ThreadFields DEF Inv, ThreadState
<1> QED
  <2> DEFINE s == [th[t] EXCEPT !.pc = p]
  <2>1. th' = [th EXCEPT ![t] = s] /\ ThreadSound(t)' /\ s.pc = p
    BY <1>1, GotoSound
  <2> HIDE DEF s
  <2> QED BY <2>1, ThreadMoves

LEMMA ThreadBecomes ==
  ASSUME Inv, TypeOK', Grows, NEW t \in Threads, NEW s, th' = [th EXCEPT ![t] = s],
         UNCHANGED <<ended, joins, registrar>>, StateSound(t, s), RowsSound', sweep' = sweep,
         t = Reconciler => s.pc \notin Deciding
  PROVE  Inv'
<1>1. th'[t] = s
  BY ThreadFields DEF Inv
<1>2. ThreadSound(t)'
  BY <1>1 DEF ThreadSound, StateSound, HeldSound, RowSound, Joinable
<1> QED
  BY <1>2, ThreadMoves

LEMMA ThreadStepInv ==
  ASSUME Inv, NEW t \in Threads, ThreadStep(t)
  PROVE  Inv'
<1>g. Grows /\ TypeOK /\ TypeOK' /\ RowsSound
  BY StepGrows, ThreadStepTypeOK DEF Next, Inv
<1>t. /\ th \in [Threads -> ThreadState] /\ th[t] \in ThreadState
      /\ th[t].entity \in Held /\ th[t].ready \in Held
      /\ StateSound(t, th[t])
  BY <1>g, ThreadFields DEF Inv, ThreadSound
<1>h. /\ \A a \in th[t].entity.id : a \in Awaits /\ th[t].entity.id = {a}
      /\ \A a \in th[t].ready.id : a \in Awaits /\ th[t].ready.id = {a}
      /\ \A a \in th[t].todo : a \in Awaits
  BY <1>g, <1>t, HeldIds, ThreadFields
<1>r. row' = row /\ failed' = failed /\ joins' = joins => RowsSound'
  BY <1>g, RowsKept
<1> USE <1>g
<1> USE DEF world
<1>1. CASE FindWaiting(t)
  <2> DEFINE s == [th[t] EXCEPT !.pc = "mark",
                     !.todo = {a \in Awaits : /\ row[a].status = "WAITING"
                                             /\ th[t].child \subseteq Awaited[a]},
                     !.ready = Nothing]
  <2>1. th' = [th EXCEPT ![t] = s]
    BY <1>1, <1>t DEF FindWaiting
  <2>2. StateSound(t, s) /\ s.pc = "mark"
    BY <1>t DEF StateSound, RegistryPcs, ThreadState, RowsSound, RowSound, HeldSound, Nothing
  <2> HIDE DEF s
  <2> QED BY <1>1, <1>r, <2>1, <2>2, ThreadBecomes DEF FindWaiting, Deciding
<1>2. ASSUME NEW a \in Awaits, ReadEntity(t, a) PROVE Inv'
  <2>1. PICK next \in {<<"refresh", Naming(a)>>, <<"mark", Nothing>>,
                       <<"save", Holding(a, row[a])>>} :
          th' = [th EXCEPT ![t].pc = next[1], ![t].entity = next[2],
                           ![t].todo = @ \ {a}]
    BY <1>2 DEF ReadEntity, AfterMark
  <2> DEFINE s == [th[t] EXCEPT !.pc = next[1], !.entity = next[2], !.todo = @ \ {a}]
  <2>2. th' = [th EXCEPT ![t] = s]
    BY <2>1, <1>t
  <2>3. /\ HeldSound(next[2]) /\ next[2].id \subseteq {a}
        /\ next[1] \in {"refresh", "mark", "save"}
    BY DEF HeldSound, Holding, Naming, NoRow, Nothing, RowSound, RowsSound
  <2>4. a \in th[t].todo
    BY <1>2 DEF ReadEntity
  <2>5. StateSound(t, s) /\ s.pc = next[1]
    BY <1>t, <2>3, <2>4 DEF StateSound, RegistryPcs, ThreadState
  <2> HIDE DEF s
  <2> QED BY <1>2, <1>r, <2>2, <2>3, <2>5, ThreadBecomes DEF ReadEntity, Deciding
<1>3. CASE SaveEntity(t)
  <2>0. PICK a \in th[t].entity.id :
          /\ row' = [row EXCEPT ![a] = [th[t].entity.row EXCEPT !.satisfied = @ \cup th[t].child]]
          /\ LET next == AfterMark(t, a)
             IN  th' = [th EXCEPT ![t].pc = next[1], ![t].entity = next[2]]
    BY <1>3 DEF SaveEntity
  <2>1. PICK next \in {<<"refresh", Naming(a)>>, <<"mark", Nothing>>} :
          th' = [th EXCEPT ![t].pc = next[1], ![t].entity = next[2]]
    BY <2>0 DEF AfterMark
  <2> DEFINE s == [th[t] EXCEPT !.pc = next[1], !.entity = next[2]]
  <2>2. th' = [th EXCEPT ![t] = s]
    BY <2>1, <1>t
  <2>3. /\ HeldSound(next[2]) /\ next[2].id \subseteq {a}
        /\ next[1] \in {"refresh", "mark"}
    BY DEF HeldSound, Naming, Holding, NoRow, Nothing, RowSound
  <2>4. StateSound(t, s) /\ s.pc = next[1]
    BY <1>t, <2>3 DEF StateSound, RegistryPcs, ThreadState
  <2>5. RowsSound'
    <3>1. a \in Awaits /\ th[t].entity.row \in Row
      BY <1>h, <1>t, HeldIds
    <3>2. /\ row'[a].satisfied = th[t].entity.row.satisfied \cup th[t].child
          /\ row'[a].status = th[t].entity.row.status
          /\ \A b \in Awaits : b # a => row'[b] = row[b]
      BY <2>0, <3>1 DEF TypeOK, Row
    <3>3. RowSound(a, row[a])'
      BY <1>t, <1>3, <3>2 DEF StateSound, HeldSound, RowSound, Joinable, SaveEntity
    <3> QED BY <1>3, <3>2, <3>3, RowsKept DEF SaveEntity
  <2> HIDE DEF s
  <2> QED BY <1>3, <2>2, <2>3, <2>4, <2>5, ThreadBecomes DEF SaveEntity, Deciding
<1>4. CASE Refresh(t)
  <2>0. PICK a \in th[t].entity.id :
         th' = IF Awaited[a] \subseteq row[a].satisfied
               THEN [th EXCEPT ![t].pc = "promoteOne",
                               ![t].entity = Holding(a, row[a])]
               ELSE [th EXCEPT ![t].pc = "mark", ![t].entity = Nothing]
    BY <1>4 DEF Refresh
  <2>1. PICK next \in {<<"promoteOne", Holding(a, row[a])>>, <<"mark", Nothing>>} :
          /\ th' = [th EXCEPT ![t].pc = next[1], ![t].entity = next[2]]
          /\ next[1] = "promoteOne" => Awaited[a] \subseteq row[a].satisfied
    BY <2>0
  <2> DEFINE s == [th[t] EXCEPT !.pc = next[1], !.entity = next[2]]
  <2>2. th' = [th EXCEPT ![t] = s]
    BY <2>1, <1>t
  <2>3. /\ HeldSound(next[2]) /\ next[2].id \subseteq {a}
        /\ next[1] = "promoteOne" => Awaited[a] \subseteq next[2].row.satisfied
        /\ next[1] \in {"promoteOne", "mark"}
    BY <2>1, <1>h DEF HeldSound, Holding, Nothing, RowsSound
  <2>4. StateSound(t, s) /\ s.pc = next[1]
    BY <1>t, <2>3 DEF StateSound, RegistryPcs, ThreadState
  <2> HIDE DEF s
  <2> QED BY <1>4, <1>r, <2>2, <2>3, <2>4, ThreadBecomes DEF Refresh, Deciding
<1>5. CASE PromoteOne(t)
  <2>0. PICK a \in th[t].entity.id :
         /\ CompareAndSet(a, "WAITING", "RESUMING")
         /\ th' = [th EXCEPT
              ![t].pc = "mark",
              ![t].entity = Nothing,
              ![t].ready = IF row[a].status = "WAITING"
                           THEN th[t].entity ELSE Nothing]
    BY <1>5 DEF PromoteOne
  <2>1. PICK e \in {th[t].entity, Nothing} :
          th' = [th EXCEPT ![t].pc = "mark", ![t].entity = Nothing, ![t].ready = e]
    BY <2>0
  <2> DEFINE s == [th[t] EXCEPT !.pc = "mark", !.entity = Nothing, !.ready = e]
  <2>2. th' = [th EXCEPT ![t] = s]
    BY <2>1, <1>t
  <2>3. \A b \in th[t].entity.id : /\ Joinable(b)
                                   /\ th[t].entity.row.satisfied = Awaited[b]
    <3> SUFFICES ASSUME NEW b \in th[t].entity.id
                 PROVE  Joinable(b) /\ th[t].entity.row.satisfied = Awaited[b]
      OBVIOUS
    <3>1. Awaited[b] \subseteq th[t].entity.row.satisfied
      BY <1>5, <1>t DEF PromoteOne, At, StateSound
    <3>2. th[t].entity.row.satisfied \subseteq Awaited[b] \cap ended
      BY <1>t DEF StateSound, HeldSound, RowSound
    <3> QED BY <3>1, <3>2 DEF Joinable
  <2>4. StateSound(t, s) /\ s.pc = "mark"
    BY <1>t, <2>3 DEF StateSound, RegistryPcs, ThreadState, HeldSound, Nothing
  <2>5. RowsSound'
    BY <1>5, <1>h, <2>0, <2>3, CompareAndSetKept DEF PromoteOne, Statuses
  <2> HIDE DEF s
  <2> QED BY <1>5, <2>2, <2>4, <2>5, ThreadBecomes DEF PromoteOne, Deciding
<1>6. CASE AllMarked(t)
  <2> DEFINE s == IF t = Reconciler THEN [Idle EXCEPT !.pc = "children"]
                  ELSE IF th[t].ready = Nothing THEN Idle
                  ELSE [Idle EXCEPT !.pc = "unpark", !.ready = th[t].ready]
  <2>1. th' = [th EXCEPT ![t] = s]
    BY <1>6 DEF AllMarked
  <2>2. StateSound(t, s) /\ s.pc \in {"children", "idle", "unpark"}
    BY <1>t DEF StateSound, RegistryPcs, Idle, Nothing, HeldSound
  <2> HIDE DEF s
  <2> QED BY <1>6, <1>r, <2>1, <2>2, ThreadBecomes DEF AllMarked, Deciding
<1>7. CASE StartResume(t)
  BY <1>7, <1>r, GotoInv, EndResumeInv DEF StartResume, Deciding, At, RegistryPcs
<1>8. CASE CheckRun(t)
  BY <1>8, <1>r, GotoInv, EndResumeInv DEF CheckRun, Deciding, At, RegistryPcs
<1>9. CASE SetRunning(t)
  BY <1>9, <1>r, GotoInv DEF SetRunning, Deciding, At, RegistryPcs
<1>10. CASE Enqueue(t)
  <2>1. PICK a \in th[t].ready.id : joins' = [joins EXCEPT ![a] = @ \cup {th[t].ready.row.satisfied}]
    BY <1>10 DEF Enqueue
  <2>2. \A b \in Awaits : joins'[b] # {} => joins[b] # {} \/ b = a
    BY <2>1 DEF TypeOK
  <2>3. a \in Awaits /\ Joinable(a) /\ joins'[a] # {} /\ th[t].ready.id = {a}
    BY <1>t, <1>h, <2>1 DEF StateSound, TypeOK
  <2>4. RowsSound'
    <3> SUFFICES ASSUME NEW b \in Awaits
                 PROVE  /\ RowSound(b, row[b])'
                        /\ (joins'[b] # {} \/ b \in failed') => Joinable(b)'
      BY DEF RowsSound
    <3>1. row' = row /\ failed' = failed /\ RowSound(b, row[b])
      BY <1>10 DEF Enqueue, RowsSound
    <3>2. RowSound(b, row[b])'
      BY <3>1, RowSoundGrows DEF RowSound
    <3> QED BY <3>1, <3>2, <2>2, <2>3 DEF RowsSound, Grows, Joinable
  <2> QED BY <1>10, <2>3, <2>4, GotoInv DEF Enqueue, Deciding, At, RegistryPcs
<1>11. CASE EnqueueThrows(t)
  BY <1>11, <1>r, EndResumeInv DEF EnqueueThrows
<1>12. CASE FinishResume(t)
  <2>1. PICK a \in th[t].ready.id : CompareAndSet(a, "RESUMING", "RESUMED")
    BY <1>12 DEF FinishResume
  <2>2. a \in Awaits /\ Joinable(a) /\ joins[a] # {}
    BY <1>12, <1>t, <1>h DEF FinishResume, At, StateSound
  <2>3. RowsSound'
    BY <1>12, <2>1, <2>2, CompareAndSetKept DEF FinishResume, Statuses
  <2> QED BY <1>12, <2>3, EndResumeInv DEF FinishResume
<1> QED
  BY <1>1, <1>2, <1>3, <1>4, <1>5, <1>6, <1>7, <1>8, <1>9, <1>10, <1>11, <1>12
     DEF ThreadStep

LEMMA SweepGoto ==
  ASSUME Inv, Grows, NEW p, Goto(Reconciler, p), p # "finish",
         {p, th[Reconciler].pc} \cap RegistryPcs = {}
  PROVE  /\ \A u \in Threads : ThreadSound(u)'
         /\ th'[Reconciler].pc = p
<1>1. th \in [Threads -> ThreadState] /\ Reconciler \in Threads
  BY ThreadFields, SweepTypes DEF Inv
<1>2. ASSUME NEW u \in Threads, u # Reconciler PROVE ThreadSound(u)'
  <2>1. th'[u] = th[u]
    BY <1>1, <1>2 DEF Goto
  <2> QED BY <2>1, ThreadKept DEF Inv
<1>3. ThreadSound(Reconciler)'
  BY <1>1, GotoSound
<1>4. th'[Reconciler].pc = p
  BY <1>1 DEF Goto, ThreadState
<1> QED
  BY <1>2, <1>3, <1>4

LEMMA SweepStepInv ==
  ASSUME Inv, SweepStep
  PROVE  Inv'
<1>g. Grows /\ TypeOK /\ TypeOK' /\ RowsSound /\ SweepSound /\ Reconciler \in Threads
  BY StepGrows, SweepStepTypeOK, SweepTypes DEF Next, Inv
<1>s. /\ sweep.current \in Held
      /\ \A a \in sweep.current.id : a \in Awaits /\ sweep.current.id = {a}
      /\ sweep.work \subseteq Held
      /\ sweep \in [work : SUBSET Held, current : Held,
                    kids : SUBSET Children, allTerminal : BOOLEAN]
  BY <1>g, SweepTypes, HeldIds DEF TypeOK
<1>r. row' = row /\ failed' = failed /\ joins' = joins => RowsSound'
  BY <1>g, RowsKept
<1>t. th \in [Threads -> ThreadState]
  BY <1>g, ThreadFields
<1>k. th' = th => \A u \in Threads : ThreadSound(u)'
  BY <1>g, ThreadKept DEF Inv
<1>d. At(Reconciler, "attempt") \/ At(Reconciler, "reread") \/ At(Reconciler, "giveUpCancel")
        \/ At(Reconciler, "giveUpUnpark") \/ At(Reconciler, "giveUpFail")
      => /\ sweep.allTerminal /\ sweep.kids = {}
         /\ \A a \in sweep.current.id : Joinable(a)
  BY <1>g, <1>s DEF SweepSound, Deciding, At, Joinable
<1> USE <1>g
<1> USE DEF world
<1>1. CASE SweepStarts
  <2>1. \A r \in OpenRows : HeldSound(r)
    BY DEF OpenRows, RowsSound, HeldSound, Holding
  <2>2. SweepSound'
    BY <1>1, SweepGoto, <2>1
       DEF SweepStarts, SweepSound, NoSweep, Nothing, HeldSound, RowSound, Joinable, Deciding
  <2> QED BY <1>1, <1>r, <1>t, SweepGoto, <2>2 DEF SweepStarts, Inv, At, RegistryPcs
<1>2. CASE SweepEnds
  <2>1. \A u \in Threads : ThreadSound(u)'
    <3>1. ASSUME NEW u \in Threads, u # Reconciler PROVE ThreadSound(u)'
      BY <1>2, <3>1, <1>t, ThreadKept DEF Inv, SweepEnds
    <3>2. ThreadSound(Reconciler)'
      BY <1>2, <1>t DEF SweepEnds, ThreadSound, StateSound, RegistryPcs, Idle, Nothing, HeldSound
    <3> QED BY <3>1, <3>2
  <2>2. SweepSound'
    BY <1>2, <1>t
       DEF SweepEnds, SweepSound, NoSweep, Nothing, HeldSound, Deciding, Idle
  <2> QED BY <1>2, <1>r, <2>1, <2>2 DEF SweepEnds, Inv
<1>3. ASSUME NEW r \in sweep.work, PickWaiting(r) \/ SkipYoung(r) \/ PickStuck(r)
      PROVE  Inv'
  <2>0. /\ \A x \in sweep.work : HeldSound(x)'
        /\ sweep'.current = sweep.current => HeldSound(sweep.current)'
    <3>1. UNCHANGED <<ended, joins, registrar>>
      BY <1>3 DEF PickWaiting, SkipYoung, PickStuck
    <3> QED BY <3>1 DEF SweepSound, HeldSound, RowSound, Joinable
  <2>1. CASE PickWaiting(r)
    <3>1. PICK a \in r.id : sweep' = [work |-> sweep.work \ {r}, current |-> r,
                                     kids |-> Awaited[a], allTerminal |-> TRUE]
      BY <2>1 DEF PickWaiting
    <3>2. r.id = {a}
      BY <1>s, HeldIds
    <3>3. SweepSound'
      BY <2>1, <3>1, <3>2, <2>0, SweepGoto DEF SweepSound, HeldSound, RowSound, Deciding, PickWaiting, At,
            RegistryPcs
    <3> QED BY <2>1, <1>r, <1>t, SweepGoto, <3>3 DEF PickWaiting, Inv, At, RegistryPcs
  <2>2. CASE SkipYoung(r)
    <3>1. SweepSound'
      BY <1>s, <2>2, <2>0 DEF SkipYoung, SweepSound, HeldSound, RowSound
    <3> QED BY <2>2, <1>r, <1>k, <3>1 DEF SkipYoung, Inv
  <2>3. CASE PickStuck(r)
    <3>1. \A a \in r.id : Joinable(a)
      BY <2>3 DEF PickStuck, SweepSound, HeldSound, RowSound
    <3>2. /\ sweep'.work = sweep.work \ {r} /\ sweep'.current = r
          /\ sweep'.kids = {} /\ sweep'.allTerminal
      BY <2>3 DEF PickStuck, NoSweep
    <3>3. SweepSound'
      BY <2>3, <3>1, <3>2, <2>0 DEF PickStuck, SweepSound, HeldSound, RowSound, Joinable
    <3> QED BY <2>3, <1>r, <1>t, SweepGoto, <3>3 DEF PickStuck, Inv, At, RegistryPcs
  <2> QED BY <1>3, <2>1, <2>2, <2>3
<1>4. ASSUME NEW c \in Children, CheckChild(c) PROVE Inv'
  <2>0. /\ sweep'.work = sweep.work /\ sweep'.current = sweep.current
        /\ sweep'.kids = sweep.kids \ {c}
        /\ sweep'.allTerminal => sweep.allTerminal /\ c \in ended
        /\ At(Reconciler, "children")
        /\ UNCHANGED <<ended, joins, registrar, row, failed>>
    BY <1>4, <1>s DEF CheckChild
  <2>1. /\ \A u \in Threads : ThreadSound(u)'
        /\ th'[Reconciler].pc \notin Deciding
    <3>1. CASE c \in ended
      <4> DEFINE s == [th[Reconciler] EXCEPT !.pc = "find", !.child = {c}]
      <4>1. /\ th' = [th EXCEPT ![Reconciler] = s] /\ th'[Reconciler] = s
            /\ s.pc = "find"
        BY <1>4, <3>1, <1>t DEF CheckChild, ThreadState
      <4>2. StateSound(Reconciler, th[Reconciler])
        BY DEF Inv, ThreadSound
      <4>3. StateSound(Reconciler, s)
        BY <2>0, <3>1, <1>t, <4>2 DEF StateSound, At, RegistryPcs, ThreadState
      <4> HIDE DEF s
      <4>4. ThreadSound(Reconciler)'
        BY <4>1, <4>3, <2>0 DEF ThreadSound, StateSound, HeldSound, RowSound, Joinable
      <4>5. ASSUME NEW u \in Threads, u # Reconciler PROVE ThreadSound(u)'
        <5>1. th'[u] = th[u]
          BY <4>1, <4>5, <1>t
        <5> QED BY <5>1, ThreadKept DEF Inv
      <4> QED BY <4>1, <4>4, <4>5 DEF Deciding
    <3>2. CASE c \notin ended
      BY <1>4, <3>2, <1>k, <2>0 DEF CheckChild, At, Deciding
    <3> QED BY <3>1, <3>2
  <2>2. SweepSound'
    BY <2>0, <2>1 DEF SweepSound, HeldSound, RowSound, Joinable
  <2> QED BY <2>0, <2>1, <2>2, <1>r DEF Inv
<1>5. CASE StillWaiting
  BY <1>5, <1>r, <1>t, SweepGoto, SweepKept DEF StillWaiting, Inv, At, RegistryPcs, Deciding
<1>6. CASE Promote
  <2>1. PICK a \in sweep.current.id :
         /\ CompareAndSet(a, "WAITING", "RESUMING")
         /\ Goto(Reconciler, IF row[a].status = "WAITING" THEN "reread" ELSE "pick")
    BY <1>6 DEF Promote
  <2>2. Joinable(a) /\ a \in Awaits
    BY <1>6, <1>s, <2>1 DEF Promote, SweepSound, Joinable
  <2>3. RowsSound'
    BY <1>6, <2>1, <2>2, CompareAndSetKept DEF Promote, Statuses
  <2>4. \A u \in Threads : ThreadSound(u)'
    BY <1>6, <2>1, <1>t, SweepGoto DEF Promote, At, RegistryPcs
  <2>5. SweepSound'
    BY <1>6 DEF Promote, SweepSound, HeldSound, RowSound, Joinable
  <2> QED BY <2>3, <2>4, <2>5 DEF Inv
<1>7. CASE Reread
  <2>1. PICK a \in sweep.current.id : sweep' = [sweep EXCEPT !.current = Holding(a, row[a])]
    BY <1>7 DEF Reread
  <2>2. /\ sweep'.work = sweep.work /\ sweep'.kids = sweep.kids
        /\ sweep'.allTerminal = sweep.allTerminal
        /\ sweep'.current.id = {a} /\ sweep'.current.row = row[a]
    BY <1>s, <2>1 DEF Holding
  <2>3. SweepSound'
    BY <1>7, <1>s, <1>d, <2>2
       DEF Reread, SweepSound, HeldSound, RowSound, RowsSound, Joinable
  <2> QED BY <1>7, <1>r, <1>t, SweepGoto, <2>3 DEF Reread, Inv, At, RegistryPcs
<1>8. CASE Attempt
  <2>1. CASE Goto(Reconciler, "giveUpCancel")
    <3>1. SweepSound'
      BY <1>8, <1>d DEF Attempt, SweepSound, HeldSound, RowSound, Joinable
    <3> QED BY <1>8, <2>1, <3>1, <1>r, <1>t, SweepGoto DEF Attempt, Inv, At, RegistryPcs
  <2>2. CASE th' = [th EXCEPT ![Reconciler].pc = "unpark", ![Reconciler].ready = sweep.current]
    <3> DEFINE s == [th[Reconciler] EXCEPT !.pc = "unpark", !.ready = sweep.current]
    <3>1. th' = [th EXCEPT ![Reconciler] = s]
      BY <1>t, <2>2
    <3>2. StateSound(Reconciler, th[Reconciler])
      BY DEF Inv, ThreadSound
    <3>3. StateSound(Reconciler, s) /\ s.pc = "unpark"
      BY <1>8, <1>t, <1>d, <3>2
         DEF Attempt, StateSound, At, RegistryPcs, ThreadState, SweepSound
    <3> HIDE DEF s
    <3> QED BY <1>8, <1>r, <3>1, <3>3, ThreadBecomes DEF Attempt, Deciding
  <2> QED BY <1>8, <2>1, <2>2 DEF Attempt
<1>9. CASE GiveUpCancel
  <2>1. PICK a \in sweep.current.id : CompareAndSet(a, "RESUMING", "CANCELLED")
    BY <1>9 DEF GiveUpCancel
  <2>2. RowsSound'
    BY <1>9, <1>s, <2>1, CompareAndSetKept DEF GiveUpCancel, Statuses
  <2>3. SweepSound'
    BY <1>9, <1>d DEF GiveUpCancel, SweepSound, HeldSound, RowSound, Joinable
  <2> QED BY <1>9, <2>2, <2>3, <1>t, SweepGoto DEF GiveUpCancel, Inv, At, RegistryPcs
<1>10. CASE GiveUpUnpark
  <2>1. SweepSound'
    BY <1>10, <1>d DEF GiveUpUnpark, SweepSound, HeldSound, RowSound, Joinable
  <2> QED BY <1>10, <2>1, <1>r, <1>t, SweepGoto DEF GiveUpUnpark, Inv, At, RegistryPcs
<1>11. CASE GiveUpFail
  <2>1. SweepSound'
    BY <1>11, SweepGoto DEF GiveUpFail, SweepSound, HeldSound, RowSound, Joinable, Deciding, At, RegistryPcs
  <2>2. RowsSound'
    BY <1>11, <1>d DEF GiveUpFail, RowsSound, RowSound, Joinable
  <2> QED BY <1>11, <2>1, <2>2, <1>t, SweepGoto DEF GiveUpFail, Inv, At, RegistryPcs
<1> QED
  BY <1>1, <1>2, <1>3, <1>4, <1>5, <1>6, <1>7, <1>8, <1>9, <1>10, <1>11 DEF SweepStep

LEMMA NextInv ==
  ASSUME Inv, [Next]_vars
  PROVE  Inv'
<1>g. Grows /\ TypeOK /\ TypeOK' /\ RowsSound /\ SweepSound /\ Reconciler \in Threads
  BY StepGrows, NextTypeOK, SweepTypes DEF Inv
<1>k. th' = th => \A u \in Threads : ThreadSound(u)'
  BY <1>g, ThreadKept DEF Inv
<1>1. ASSUME NEW a \in Awaits,
             CreateAwait(a) \/ ParkParent(a) \/ CaptureRef(a) \/ CancelParent(a) \/ CancelAwaits(a)
      PROVE  Inv'
  <2>1. /\ th' = th /\ sweep' = sweep /\ joins' = joins /\ failed' = failed
        /\ \A b \in Awaits : b # a => row'[b] = row[b]
    BY <1>1, <1>g DEF TypeOK, CreateAwait, ParkParent, CaptureRef, CancelParent, CancelAwaits
  <2>2. row'[a] = row[a] \/ RowSound(a, row[a])'
    <3>1. CASE CreateAwait(a)
      BY <1>g, <3>1 DEF CreateAwait, RowSound, TypeOK, NoRow
    <3>2. CASE CancelAwaits(a)
      BY <1>g, <3>2 DEF CancelAwaits, RowSound, RowsSound, TypeOK, Open, Row, Joinable
    <3>3. CASE ParkParent(a) \/ CancelParent(a)
      BY <3>3 DEF ParkParent, CancelParent
    <3>4. CASE CaptureRef(a)
      BY <1>g, <3>4 DEF CaptureRef, RowSound, RowsSound, TypeOK, Row, Joinable
    <3> QED BY <1>1, <3>1, <3>2, <3>3, <3>4
  <2>3. RowsSound'
    BY <1>g, <2>1, <2>2, RowsKept
  <2> QED BY <1>g, <1>k, <2>1, <2>3, SweepKept DEF Inv
<1>2. ASSUME NEW c \in Children, ChildEnds(c) PROVE Inv'
  <2> DEFINE s == [Idle EXCEPT !.pc = "find", !.child = {c}]
  <2>1. c \in Threads /\ c # Reconciler
    BY AwaitAssumption DEF Threads
  <2>2. th' = [th EXCEPT ![c] = s] /\ th'[c] = s
    BY <1>2, <2>1, <1>g, ThreadFields DEF ChildEnds
  <2>3. ThreadSound(c)'
    <3>1. /\ s.child = {c} /\ s.todo = {} /\ s.entity.id = {} /\ s.ready.id = {}
          /\ s.pc = "find"
      BY DEF Idle, Nothing
    <3>2. c \in ended'
      BY <1>2 DEF ChildEnds
    <3> QED BY <2>2, <3>1, <3>2 DEF ThreadSound, StateSound, HeldSound
  <2>4. RowsSound'
    BY <1>2, <1>g, RowsKept DEF ChildEnds
  <2> HIDE DEF s
  <2> QED BY <1>2, <1>g, <2>1, <2>2, <2>3, <2>4, ThreadMoves DEF ChildEnds
<1>3. CASE Crash
  <2>1. \A u \in Threads : th'[u] = Idle
    BY <1>3 DEF Crash
  <2>2. \A u \in Threads : ThreadSound(u)'
    BY <2>1 DEF ThreadSound, StateSound, Idle, Nothing, HeldSound
  <2>3. RowsSound'
    BY <1>3, <1>g, RowsKept DEF Crash
  <2>4. SweepSound'
    BY <1>3, <1>g, <2>1 DEF Crash, SweepSound, NoSweep, Nothing, HeldSound, Idle, Deciding
  <2> QED BY <1>g, <2>2, <2>3, <2>4 DEF Inv
<1>4. CASE UNCHANGED vars
  <2>1. th' = th /\ sweep' = sweep /\ joins' = joins /\ failed' = failed /\ row' = row
    BY <1>4 DEF vars
  <2> QED BY <1>g, <1>k, <2>1, RowsKept, SweepKept DEF Inv
<1> QED
  BY <1>1, <1>2, <1>3, <1>4, ThreadStepInv, SweepStepInv DEF Next

THEOREM InvHolds == Spec => []Inv
BY InitInv, NextInv, PTL DEF Spec

-----------------------------------------------------------------------------
(* What follows from it. *)

\* A row says RESUMED only when a join message is in the queue.
THEOREM ResumedWasSentHolds == Spec => []ResumedWasSent
<1>1. Inv => ResumedWasSent
  BY DEF Inv, RowsSound, RowSound, ResumedWasSent
<1> QED
  BY <1>1, InvHolds, PTL

\* The record a listener hands to resumeParent names every awaited child.
THEOREM ListenerNamesAllHolds == Spec => []ListenerNamesAll
<1>1. Inv => ListenerNamesAll
  BY AwaitAssumption DEF Inv, ThreadSound, StateSound, ListenerNamesAll, Threads
<1> QED
  BY <1>1, InvHolds, PTL

LEMMA StepImplements ==
  ASSUME Inv, [Next]_vars
  PROVE  [Contract!Next]_Contract!vars
<1> DEFINE sent == {a \in Awaits : joins[a] # {}}
<1>g. TypeOK /\ Reconciler \in Threads
  BY SweepTypes DEF Inv
<1>1. ASSUME NEW a \in Awaits,
             CreateAwait(a) \/ ParkParent(a) \/ CaptureRef(a) \/ CancelParent(a) \/ CancelAwaits(a)
      PROVE  UNCHANGED <<ended, joins, failed>>
  BY <1>1 DEF CreateAwait, ParkParent, CaptureRef, CancelParent, CancelAwaits
<1>2. ASSUME NEW c \in Children, ChildEnds(c) PROVE Contract!End(c)
  BY <1>2 DEF ChildEnds, Contract!End
<1>3. ASSUME NEW t \in Threads, ThreadStep(t)
      PROVE  UNCHANGED <<ended, joins, failed>> \/ \E a \in Awaits : Contract!Resume(a)
  <2>1. CASE Enqueue(t)
    <3>1. PICK a \in th[t].ready.id : joins' = [joins EXCEPT ![a] = @ \cup {th[t].ready.row.satisfied}]
      BY <2>1 DEF Enqueue
    <3>2. a \in Awaits /\ Joinable(a)
      BY <1>3, <1>g, ThreadFields, HeldIds DEF Inv, ThreadSound, StateSound
    <3>3. sent' = sent \cup {a} /\ UNCHANGED <<ended, failed>>
      <4>1. \A b \in Awaits : joins'[b] # {} <=> joins[b] # {} \/ b = a
        BY <3>1, <3>2, <1>g DEF TypeOK
      <4> QED BY <2>1, <3>2, <4>1 DEF Enqueue, world
    <3> QED BY <3>2, <3>3 DEF Contract!Resume, Contract!Joinable, Joinable
  <2>2. CASE UNCHANGED <<ended, joins, failed>>
    BY <2>2
  <2> QED
    BY <1>3, <2>1, <2>2
       DEF ThreadStep, FindWaiting, ReadEntity, SaveEntity, Refresh, PromoteOne, AllMarked,
           StartResume, CheckRun, SetRunning, EnqueueThrows, FinishResume, world
<1>4. CASE SweepStep
  <2>1. CASE GiveUpFail
    <3>1. \A a \in sweep.current.id : a \in Awaits /\ sweep.current.id = {a} /\ Joinable(a)
      BY <2>1, <1>g, SweepTypes, HeldIds
         DEF GiveUpFail, At, Inv, SweepSound, Deciding, Joinable
    <3>2. UNCHANGED <<ended, joins>> /\ failed' = failed \cup sweep.current.id
      BY <2>1 DEF GiveUpFail, world
    <3>3. CASE sweep.current.id = {}
      BY <3>2, <3>3 DEF Contract!vars
    <3>4. ASSUME NEW a \in sweep.current.id PROVE Contract!Drop(a) /\ a \in Awaits
      BY <3>1, <3>2, <3>4 DEF Contract!Drop, Contract!Joinable, Joinable
    <3> QED BY <3>3, <3>4 DEF Contract!Next
  <2>2. CASE UNCHANGED <<ended, joins, failed>>
    BY <2>2 DEF Contract!vars
  <2> QED
    BY <1>4, <2>1, <2>2
       DEF SweepStep, SweepStarts, SweepEnds, PickWaiting, SkipYoung, PickStuck,
           CheckChild, StillWaiting, Promote, Reread, Attempt, GiveUpCancel,
           GiveUpUnpark, world
<1>5. CASE Crash \/ UNCHANGED vars
  BY <1>5 DEF Crash, vars, Contract!vars
<1> QED
  BY <1>1, <1>2, <1>3, <1>4, <1>5 DEF Next, Contract!Next, Contract!vars

\* The listener, the sweep and the cancellation implement AwaitContract: no
\* parent is joined or failed before every child it waits for has ended.
THEOREM Refinement == Spec => KeepsContract
<1>1. Init => Contract!Init
  BY DEF Init, Contract!Init
<1> QED
  BY <1>1, InvHolds, StepImplements, PTL DEF Spec, KeepsContract, Contract!Spec

LEMMA SettledKept ==
  ASSUME TypeOK, NEW a \in Awaits, SettledFor(a), row'[a].status = row[a].status,
         \A t \in Threads : \/ th'[t] = th[t]
                            \/ th'[t].pc # "save"
                            \/ th'[t].entity.row.status = row[a].status
                            \/ th'[t].entity.id # {a}
  PROVE  SettledFor(a)' /\ row'[a].status = row[a].status
BY DEF SettledFor, Saving, At

\* A settled row stays as it is once no stale entity is about to be saved.
THEOREM SettledStaysHolds == Spec => SettledStays
<1>1. ASSUME Inv, [Next]_vars, NEW a \in Awaits, SettledFor(a)
      PROVE  SettledFor(a)' /\ row'[a].status = row[a].status
  <2>g. /\ TypeOK /\ Reconciler \in Threads /\ th \in [Threads -> ThreadState]
        /\ row[a].status \in Settled /\ registrar[a] # "create"
    BY <1>1, SweepTypes, ThreadFields DEF Inv, SettledFor, RowsSound, RowSound, Settled
  <2>c. ASSUME NEW b \in Awaits, NEW from \in Open, NEW to, CompareAndSet(b, from, to)
        PROVE  row'[a] = row[a]
    BY <2>c, <2>g DEF CompareAndSet, TypeOK, Settled, Open
  <2>1. ASSUME NEW b \in Awaits,
               CreateAwait(b) \/ ParkParent(b) \/ CaptureRef(b) \/ CancelParent(b) \/ CancelAwaits(b)
        PROVE  SettledFor(a)' /\ row'[a].status = row[a].status
    <3>1. row'[a] = row[a] /\ th' = th
      BY <2>g, <2>1
         DEF TypeOK, CreateAwait, ParkParent, CaptureRef, CancelParent, CancelAwaits, Settled, Open
    <3> QED BY <1>1, <2>g, <3>1, SettledKept
  <2>2. ASSUME NEW c \in Children, ChildEnds(c)
        PROVE  SettledFor(a)' /\ row'[a].status = row[a].status
    <3>1. row'[a] = row[a] /\ \A t \in Threads : th'[t] = th[t] \/ th'[t].pc = "find"
      BY <2>g, <2>2 DEF ChildEnds, Idle
    <3> QED BY <1>1, <2>g, <3>1, SettledKept
  <2>3. ASSUME NEW u \in Threads, ThreadStep(u)
        PROVE  SettledFor(a)' /\ row'[a].status = row[a].status
    <3>0. \A x \in th[u].ready.id \cup th[u].entity.id : x \in Awaits
      BY <2>g, ThreadFields, HeldIds
    <3>1. \A t \in Threads : t # u => th'[t] = th[t]
      BY <2>3, <2>g
         DEF ThreadStep, FindWaiting, ReadEntity, SaveEntity, Refresh, PromoteOne, AllMarked,
             StartResume, CheckRun, SetRunning, Enqueue, EnqueueThrows, FinishResume,
             Goto, EndResume
    <3>2. ASSUME NEW b \in Awaits, ReadEntity(u, b)
          PROVE  SettledFor(a)' /\ row'[a].status = row[a].status
      <4>1. \/ th'[u].pc # "save"
            \/ th'[u].entity.row = row[b] /\ th'[u].entity.id = {b}
        BY <3>2, <2>g DEF ReadEntity, AfterMark, Holding, ThreadState
      <4> QED BY <1>1, <2>g, <3>1, <3>2, <4>1, SettledKept DEF ReadEntity
    <3>3. CASE SaveEntity(u)
      <4>1. PICK b \in Awaits :
              /\ th[u].entity.id = {b}
              /\ row' = [row EXCEPT ![b] = [th[u].entity.row EXCEPT !.satisfied = @ \cup th[u].child]]
        BY <2>g, <3>3, ThreadFields, HeldIds DEF SaveEntity
      <4>2. row'[a].status = row[a].status
        <5>1. CASE b = a
          <6>1. th[u].entity.row.status = row[a].status
            BY <1>1, <3>3, <4>1, <5>1 DEF SaveEntity, SettledFor, Saving
          <6>2. th[u].entity.row \in Row
            BY <2>g, <4>1, ThreadFields, HeldIds
          <6> QED BY <2>g, <4>1, <5>1, <6>1, <6>2 DEF TypeOK, Row
        <5>2. CASE b # a
          BY <2>g, <4>1, <5>2 DEF TypeOK
        <5> QED BY <5>1, <5>2
      <4>3. th'[u].pc # "save"
        BY <3>3, <2>g DEF SaveEntity, AfterMark, ThreadState
      <4> QED BY <1>1, <2>g, <3>1, <4>2, <4>3, SettledKept
    <3>4. CASE FindWaiting(u) \/ Refresh(u) \/ AllMarked(u) \/ StartResume(u) \/ CheckRun(u)
                 \/ SetRunning(u) \/ Enqueue(u) \/ EnqueueThrows(u)
      <4>1. row' = row
        BY <3>4 DEF FindWaiting, Refresh, AllMarked, StartResume, CheckRun, SetRunning, Enqueue,
                    EnqueueThrows
      <4>2. th'[u].pc # "save"
        <5>1. CASE FindWaiting(u) \/ Refresh(u)
          <6>1. CASE FindWaiting(u)
            BY <2>g, <6>1 DEF FindWaiting, ThreadState
          <6>2. CASE Refresh(u)
            BY <2>g, <6>2 DEF Refresh, ThreadState
          <6> QED BY <5>1, <6>1, <6>2
        <5>2. CASE AllMarked(u)
          BY <5>2, <2>g DEF AllMarked, Idle
        <5>3. CASE StartResume(u) \/ CheckRun(u)
          BY <5>3, <2>g DEF StartResume, CheckRun, Goto, EndResume, Idle, ThreadState
        <5>4. CASE SetRunning(u) \/ Enqueue(u) \/ EnqueueThrows(u)
          BY <5>4, <2>g DEF SetRunning, Enqueue, EnqueueThrows, Goto, EndResume, Idle, ThreadState
        <5> QED BY <3>4, <5>1, <5>2, <5>3, <5>4
      <4> QED BY <1>1, <2>g, <3>1, <4>1, <4>2, SettledKept
    <3>5. CASE PromoteOne(u) \/ FinishResume(u)
      <4>1. row'[a] = row[a]
        BY <3>0, <3>5, <2>c DEF PromoteOne, FinishResume, Open
      <4>2. th'[u].pc # "save"
        BY <3>5, <2>g DEF PromoteOne, FinishResume, EndResume, Idle, ThreadState
      <4> QED BY <1>1, <2>g, <3>1, <4>1, <4>2, SettledKept
    <3> QED BY <2>3, <3>2, <3>3, <3>4, <3>5 DEF ThreadStep
  <2>4. CASE SweepStep
    <3>0. \A x \in sweep.current.id : x \in Awaits
      BY <2>g, SweepTypes, HeldIds
    <3>1. row'[a] = row[a]
      <4>1. CASE Promote \/ GiveUpCancel
        BY <3>0, <4>1, <2>c DEF Promote, GiveUpCancel, Open
      <4>2. CASE row' = row
        BY <4>2
      <4> QED
        BY <2>4, <4>1, <4>2
           DEF SweepStep, SweepStarts, SweepEnds, PickWaiting, SkipYoung, PickStuck,
               CheckChild, StillWaiting, Reread, Attempt, GiveUpUnpark, GiveUpFail
    <3>2. \A t \in Threads : t # Reconciler => th'[t] = th[t]
      BY <2>4, <2>g
         DEF SweepStep, SweepStarts, SweepEnds, PickWaiting, SkipYoung, PickStuck,
             CheckChild, StillWaiting, Promote, Reread, Attempt, GiveUpCancel,
             GiveUpUnpark, GiveUpFail, Goto
    <3>3. th' = th \/ th'[Reconciler].pc # "save"
      <4>1. CASE SweepStarts \/ SweepEnds \/ StillWaiting \/ Promote \/ Reread
        BY <4>1, <2>g DEF SweepStarts, SweepEnds, StillWaiting, Promote, Reread, Goto, Idle,
                          ThreadState
      <4>2. CASE Attempt \/ GiveUpCancel \/ GiveUpUnpark \/ GiveUpFail
        BY <4>2, <2>g DEF Attempt, GiveUpCancel, GiveUpUnpark, GiveUpFail, Goto, ThreadState
      <4>3. ASSUME NEW r \in sweep.work, PickWaiting(r) \/ SkipYoung(r) \/ PickStuck(r)
            PROVE  th' = th \/ th'[Reconciler].pc # "save"
        BY <4>3, <2>g DEF PickWaiting, SkipYoung, PickStuck, Goto, ThreadState
      <4>4. ASSUME NEW c \in Children, CheckChild(c)
            PROVE  th' = th \/ th'[Reconciler].pc # "save"
        BY <4>4, <2>g DEF CheckChild, ThreadState
      <4> QED BY <2>4, <4>1, <4>2, <4>3, <4>4 DEF SweepStep
    <3> QED BY <1>1, <2>g, <3>1, <3>2, <3>3, SettledKept
  <2>5. CASE Crash \/ UNCHANGED vars
    <3>1. row' = row /\ \A t \in Threads : th'[t] \in {Idle, th[t]}
      BY <2>5 DEF Crash, vars
    <3> QED BY <1>1, <2>g, <3>1, SettledKept DEF Idle
  <2> QED
    BY <1>1, <2>1, <2>2, <2>3, <2>4, <2>5 DEF Next
<1>2. Inv /\ [Next]_vars =>
        [\A a \in Awaits : SettledFor(a) =>
                     SettledFor(a)' /\ row'[a].status = row[a].status]_vars
  BY <1>1
<1> QED
  BY <1>2, InvHolds, PTL DEF Spec, SettledStays

-----------------------------------------------------------------------------
(* Why the reconciler gives up: of a parent nobody cancels, whose session  *)
(* can be resumed, every attempt it has counted met an error of the queue, *)
(* save the one that is under way.                                         *)

Calm == HasTree \ Cancellable
Trying(a) == th[Reconciler].pc \in ResumePcs /\ th[Reconciler].ready.id = {a}
GivingUp == {"giveUpCancel", "giveUpUnpark", "giveUpFail"}

TroubleInv ==
  /\ TypeOK
  /\ \A a \in Calm :
       /\ parent[a] = "RUNNING"
       /\ attempts[a] <= queueErrors + (IF Trying(a) THEN 1 ELSE 0)
       /\ a \in failed => queueErrors >= MaxResumeAttempts
  /\ th[Reconciler].pc \in GivingUp =>
       \A a \in sweep.current.id \cap Calm : queueErrors >= MaxResumeAttempts

\* A step that leaves the attempts alone and ends none of the sweep's resumes.
LEMMA TroubleKept ==
  ASSUME TroubleInv, TypeOK', UNCHANGED <<attempts, failed>>,
         queueErrors <= queueErrors',
         \A a \in Calm : parent'[a] = "RUNNING",
         \A a \in Calm : Trying(a) => Trying(a)' \/ queueErrors' = queueErrors + 1,
         th'[Reconciler].pc \in GivingUp => /\ th[Reconciler].pc \in GivingUp
                                            /\ sweep'.current = sweep.current
  PROVE  TroubleInv'
<1>1. /\ queueErrors \in Nat /\ queueErrors' \in Nat
      /\ MaxResumeAttempts \in Nat
      /\ \A a \in Calm : a \in Awaits /\ attempts[a] \in Nat
  BY AwaitAssumption DEF TroubleInv, TypeOK, Calm
<1>2. ASSUME NEW a \in Calm
      PROVE  /\ parent'[a] = "RUNNING"
             /\ attempts'[a] <= queueErrors' + (IF Trying(a)' THEN 1 ELSE 0)
             /\ a \in failed' => queueErrors' >= MaxResumeAttempts
  BY <1>1, <1>2 DEF TroubleInv
<1>3. th'[Reconciler].pc \in GivingUp =>
        \A a \in sweep'.current.id \cap Calm : queueErrors' >= MaxResumeAttempts
  BY <1>1 DEF TroubleInv
<1> QED
  BY <1>2, <1>3 DEF TroubleInv

LEMMA NextTrouble ==
  ASSUME TroubleInv, [Next]_vars
  PROVE  TroubleInv'
<1>g. /\ TypeOK /\ TypeOK' /\ Reconciler \in Threads /\ th \in [Threads -> ThreadState]
      /\ queueErrors \in Nat /\ MaxResumeAttempts \in Nat
      /\ \A a \in Calm : /\ a \in Awaits /\ a \in HasTree /\ a \notin Cancellable
                         /\ parent[a] = "RUNNING" /\ attempts[a] \in Nat
  BY NextTypeOK, SweepTypes, ThreadFields, AwaitAssumption DEF TroubleInv, TypeOK, Calm
<1>1. ASSUME NEW b \in Awaits,
             CreateAwait(b) \/ ParkParent(b) \/ CaptureRef(b) \/ CancelParent(b) \/ CancelAwaits(b)
      PROVE  TroubleInv'
  <2>1. /\ UNCHANGED <<attempts, failed, queueErrors, th, sweep>>
        /\ \A a \in Calm : parent'[a] = "RUNNING"
    BY <1>1, <1>g
       DEF TypeOK, CreateAwait, ParkParent, CaptureRef, CancelParent, CancelAwaits, budget
  <2> QED BY <1>g, <2>1, TroubleKept DEF Trying
<1>2. ASSUME NEW c \in Children, ChildEnds(c) PROVE TroubleInv'
  <2>1. /\ UNCHANGED <<attempts, failed, queueErrors, sweep, parent>>
        /\ th'[Reconciler] = th[Reconciler]
    BY <1>2, <1>g, AwaitAssumption DEF ChildEnds, budget
  <2> QED BY <1>g, <2>1, TroubleKept DEF Trying
<1>3. ASSUME NEW u \in Threads, ThreadStep(u) PROVE TroubleInv'
  <2>0. \A x \in th[u].ready.id : x \in Awaits /\ th[u].ready.id = {x}
    BY <1>g, ThreadFields, HeldIds
  <2>1. CASE FindWaiting(u) \/ (\E b \in Awaits : ReadEntity(u, b)) \/ SaveEntity(u)
               \/ Refresh(u) \/ PromoteOne(u) \/ AllMarked(u)
    <3>1. /\ UNCHANGED <<attempts, failed, queueErrors, sweep, parent>>
          /\ th[u].pc \in RegistryPcs
      BY <2>1 DEF FindWaiting, ReadEntity, SaveEntity, Refresh, PromoteOne, AllMarked, At,
                  world, RegistryPcs
    <3>2. u # Reconciler => th'[Reconciler] = th[Reconciler]
      BY <1>g, <2>1 DEF FindWaiting, ReadEntity, SaveEntity, Refresh, PromoteOne, AllMarked
    <3>3. u = Reconciler => th'[Reconciler].pc \notin GivingUp
      <4>1. ASSUME NEW b \in Awaits, ReadEntity(u, b)
            PROVE  th'[u].pc \notin GivingUp
        <5>1. PICK next \in {AfterMark(u, b), <<"save", Holding(b, row[b])>>} :
                th' = [th EXCEPT ![u].pc = next[1], ![u].entity = next[2], ![u].todo = @ \ {b}]
          BY <4>1 DEF ReadEntity
        <5>2. next[1] \in {"refresh", "mark", "save"}
          BY DEF AfterMark
        <5> QED BY <5>1, <5>2, <1>g DEF ThreadState, GivingUp
      <4>2. CASE FindWaiting(u)
        BY <1>g, <4>2 DEF FindWaiting, ThreadState, GivingUp
      <4>4. CASE SaveEntity(u)
        BY <1>g, <4>4 DEF SaveEntity, AfterMark, ThreadState, GivingUp
      <4>3. CASE Refresh(u) \/ PromoteOne(u) \/ AllMarked(u)
        BY <1>g, <4>3 DEF Refresh, PromoteOne, AllMarked, ThreadState, GivingUp, Idle
      <4> QED BY <2>1, <4>1, <4>2, <4>3, <4>4
    <3> QED BY <1>g, <3>1, <3>2, <3>3, TroubleKept DEF Trying, RegistryPcs, ResumePcs
  <2>2. CASE StartResume(u) \/ CheckRun(u) \/ SetRunning(u) \/ Enqueue(u)
    <3>1. UNCHANGED <<attempts, failed, queueErrors, sweep>>
      BY <2>2 DEF StartResume, CheckRun, SetRunning, Enqueue, world, budget
    <3>2. \A a \in Calm : parent'[a] = "RUNNING"
      BY <1>g, <2>0, <2>2 DEF StartResume, CheckRun, SetRunning, Enqueue, world, TypeOK
    <3>3. u # Reconciler => th'[Reconciler] = th[Reconciler]
      BY <1>g, <2>2 DEF StartResume, CheckRun, SetRunning, Enqueue, Goto, EndResume
    <3>4. u = Reconciler => th'[Reconciler].pc \notin GivingUp
      BY <1>g, <2>0, <2>2 DEF StartResume, CheckRun, SetRunning, Enqueue, Goto, EndResume,
                              ThreadState, GivingUp, Idle
    <3>5. ASSUME u = Reconciler, NEW a \in Calm, Trying(a) PROVE Trying(a)'
      <4>1. Goto(u, "check") \/ Goto(u, "setRunning") \/ Goto(u, "enqueue") \/ Goto(u, "finish")
        BY <1>g, <2>2, <3>5 DEF StartResume, CheckRun, SetRunning, Enqueue, Trying
      <4> QED BY <1>g, <3>5, <4>1 DEF Goto, Trying, ThreadState, ResumePcs
    <3> QED BY <1>g, <3>1, <3>2, <3>3, <3>4, <3>5, TroubleKept DEF Trying
  <2>3. CASE EnqueueThrows(u)
    <3>1. /\ UNCHANGED <<attempts, failed, sweep, parent>>
          /\ queueErrors' = queueErrors + 1
      BY <2>3 DEF EnqueueThrows, world
    <3>2. u # Reconciler => th'[Reconciler] = th[Reconciler]
      BY <1>g, <2>3 DEF EnqueueThrows, EndResume
    <3>3. u = Reconciler => th'[Reconciler].pc = "pick"
      BY <1>g, <2>3 DEF EnqueueThrows, EndResume, Idle
    <3>4. queueErrors <= queueErrors'
      BY <1>g, <3>1
    <3> QED BY <1>g, <3>1, <3>2, <3>3, <3>4, TroubleKept DEF Trying, GivingUp
  <2>4. CASE FinishResume(u)
    <3>1. UNCHANGED <<failed, queueErrors, sweep, parent>>
      BY <2>4 DEF FinishResume, world
    <3>2. CASE u # Reconciler
      <4>1. th'[Reconciler] = th[Reconciler] /\ UNCHANGED attempts
        BY <1>g, <2>4, <3>2 DEF FinishResume, EndResume
      <4> QED BY <1>g, <3>1, <4>1, TroubleKept DEF Trying
    <3>3. CASE u = Reconciler
      <4>1. th'[Reconciler].pc = "pick"
        BY <1>g, <2>4, <3>3 DEF FinishResume, EndResume, Idle
      <4>2. ASSUME NEW a \in Calm PROVE attempts'[a] <= queueErrors'
        <5>1. PICK b \in th[u].ready.id : attempts' = [attempts EXCEPT ![b] = 0]
          BY <2>4, <3>3 DEF FinishResume
        <5>2. Trying(a) => a = b
          BY <2>0, <5>1, <3>3 DEF Trying
        <5>3. a # b => attempts'[a] = attempts[a]
          BY <1>g, <5>1 DEF TypeOK
        <5>4. a = b => attempts'[a] = 0
          BY <1>g, <5>1 DEF TypeOK
        <5> QED BY <1>g, <3>1, <4>2, <5>2, <5>3, <5>4 DEF TroubleInv
      <4> QED BY <1>g, <3>1, <4>1, <4>2 DEF TroubleInv, Trying, GivingUp, ResumePcs
    <3> QED BY <3>2, <3>3
  <2> QED BY <1>3, <2>1, <2>2, <2>3, <2>4 DEF ThreadStep
<1>4. CASE SweepStep
  <2>0. \A x \in sweep.current.id : x \in Awaits /\ sweep.current.id = {x}
    BY <1>g, SweepTypes, HeldIds
  <2>1. CASE Attempt
    <3>1. PICK b \in sweep.current.id :
         IF attempts[b] >= MaxResumeAttempts
         THEN /\ Goto(Reconciler, "giveUpCancel")
              /\ UNCHANGED attempts
         ELSE /\ attempts' = [attempts EXCEPT ![b] = @ + 1]
              /\ th' = [th EXCEPT ![Reconciler].pc = "unpark",
                                  ![Reconciler].ready = sweep.current]
      BY <2>1 DEF Attempt
    <3>2. UNCHANGED <<failed, queueErrors, sweep, parent>>
      BY <2>1 DEF Attempt, world
    <3>3. \A a \in Calm : attempts[a] <= queueErrors
      BY <1>g, <2>1 DEF Attempt, At, TroubleInv, Trying, ResumePcs
    <3>4. CASE attempts[b] >= MaxResumeAttempts
      <4>1. \A a \in sweep.current.id \cap Calm : queueErrors >= MaxResumeAttempts
        BY <1>g, <2>0, <3>1, <3>3, <3>4
      <4>2. th'[Reconciler].pc = "giveUpCancel"
        BY <1>g, <3>1, <3>4 DEF Goto, ThreadState
      <4> QED BY <1>g, <3>1, <3>2, <3>3, <3>4, <4>1, <4>2 DEF TroubleInv, Trying, ResumePcs
    <3>5. CASE ~(attempts[b] >= MaxResumeAttempts)
      <4>1. /\ th'[Reconciler].pc = "unpark" /\ th'[Reconciler].ready = sweep.current
            /\ attempts' = [attempts EXCEPT ![b] = @ + 1]
        BY <1>g, <3>1, <3>5 DEF ThreadState
      <4>2. \A a \in Calm : /\ a = b => attempts'[a] = attempts[a] + 1 /\ Trying(a)'
                            /\ a # b => attempts'[a] = attempts[a]
        BY <1>g, <2>0, <3>1, <4>1 DEF TypeOK, Trying, ResumePcs
      <4>3. ASSUME NEW a \in Calm
            PROVE  attempts'[a] <= queueErrors' + (IF Trying(a)' THEN 1 ELSE 0)
        BY <1>g, <3>2, <3>3, <4>2
      <4> QED BY <1>g, <3>2, <4>1, <4>3 DEF TroubleInv, GivingUp
    <3> QED BY <3>4, <3>5
  <2>2. CASE GiveUpFail
    <3>1. /\ UNCHANGED <<queueErrors, sweep, parent>>
          /\ failed' = failed \cup sweep.current.id
          /\ attempts' = [a \in Awaits |-> IF a \in sweep.current.id THEN 0 ELSE attempts[a]]
          /\ th[Reconciler].pc = "giveUpFail"
          /\ th'[Reconciler].pc = "pick"
      BY <1>g, <2>2 DEF GiveUpFail, world, Goto, At, ThreadState
    <3>2. ASSUME NEW a \in Calm
          PROVE  /\ attempts'[a] <= queueErrors'
                 /\ a \in failed' => queueErrors' >= MaxResumeAttempts
      BY <1>g, <3>1 DEF TroubleInv, GivingUp, Trying, ResumePcs
    <3> QED BY <1>g, <3>1, <3>2 DEF TroubleInv, Trying, GivingUp, ResumePcs
  <2>3. CASE GiveUpCancel \/ GiveUpUnpark
    <3>1. /\ UNCHANGED <<attempts, failed, queueErrors, sweep, parent>>
          /\ th[Reconciler].pc \in GivingUp
      BY <2>3 DEF GiveUpCancel, GiveUpUnpark, world, At, GivingUp
    <3> QED BY <1>g, <3>1, TroubleKept DEF Trying, GivingUp, ResumePcs
  <2>4. ASSUME \/ SweepStarts \/ SweepEnds \/ StillWaiting \/ Promote \/ Reread
               \/ \E c \in Children : CheckChild(c)
               \/ \E r \in sweep.work : PickWaiting(r) \/ SkipYoung(r) \/ PickStuck(r)
        PROVE  TroubleInv'
    <3>1. /\ UNCHANGED <<attempts, failed, queueErrors, parent>>
          /\ th[Reconciler].pc \in {"idle", "pick", "children", "reread"}
      BY <2>4 DEF SweepStarts, SweepEnds, StillWaiting, Promote, Reread, CheckChild,
                  PickWaiting, SkipYoung, PickStuck, world, At
    <3>2. th' = th \/ th'[Reconciler].pc \notin GivingUp
      <4>1. CASE SweepStarts \/ SweepEnds \/ StillWaiting \/ Promote \/ Reread
        BY <4>1, <1>g DEF SweepStarts, SweepEnds, StillWaiting, Promote, Reread, Goto, Idle,
                          ThreadState, GivingUp
      <4>2. ASSUME NEW r \in sweep.work, PickWaiting(r) \/ SkipYoung(r) \/ PickStuck(r)
            PROVE  th' = th \/ th'[Reconciler].pc \notin GivingUp
        BY <4>2, <1>g DEF PickWaiting, SkipYoung, PickStuck, Goto, ThreadState, GivingUp
      <4>3. ASSUME NEW c \in Children, CheckChild(c)
            PROVE  th' = th \/ th'[Reconciler].pc \notin GivingUp
        BY <4>3, <1>g DEF CheckChild, ThreadState, GivingUp
      <4> QED BY <2>4, <4>1, <4>2, <4>3
    <3> QED BY <1>g, <3>1, <3>2, TroubleKept DEF Trying, GivingUp, ResumePcs
  <2> QED BY <1>4, <2>1, <2>2, <2>3, <2>4 DEF SweepStep
<1>5. CASE Crash
  BY <1>5, <1>g DEF Crash, TroubleInv, Trying, Idle, ResumePcs, GivingUp
<1>6. CASE UNCHANGED vars
  BY <1>6, <1>g, TroubleKept DEF vars, Trying
<1> QED
  BY <1>1, <1>2, <1>3, <1>4, <1>5, <1>6 DEF Next

\* The job of a resumable parent that nobody cancelled is failed only when the
\* queue threw at least MAX_RESUME_ATTEMPTS times.
THEOREM GivesUpOnlyInTroubleHolds == Spec => []GivesUpOnlyInTrouble
<1>1. Init => TroubleInv
  <2> SUFFICES ASSUME Init PROVE TroubleInv
    OBVIOUS
  <2>1. TypeOK /\ Reconciler \in Threads
    BY InitTypeOK, SweepTypes
  <2> QED BY <2>1, AwaitAssumption DEF Init, TroubleInv, Calm, Trying, Idle, GivingUp, ResumePcs
<1>2. TroubleInv => GivesUpOnlyInTrouble
  BY DEF TroubleInv, GivesUpOnlyInTrouble, Calm
<1> QED
  BY <1>1, <1>2, NextTrouble, PTL DEF Spec
=============================================================================
