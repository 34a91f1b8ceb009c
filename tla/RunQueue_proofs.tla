--------------------------- MODULE RunQueue_proofs ---------------------------
(***************************************************************************)
(* Types and safety of the launch locks and of the pending queue, for any  *)
(* number of launches, keys and handlers, with edits of the policy,        *)
(* cancellations, failures and restarts.  What the locks give is proved    *)
(* for one API process (OneServer), as they live in its memory.            *)
(***************************************************************************)
EXTENDS RunQueue, FiniteSetTheorems, TLAPS

OneServer == \A q, r \in Run : Host[q] = Host[r]

Occurs(x, s) == \E i \in 1..Len(s) : s[i] = x

\* The launch is in the chain of the lock of the workflow.
InLine == {"wait"} \cup Exclusive

\* A launch q at label p is in the chain l of the workflow's lock, and works at its
\* head only.
LineOK(q, p, l) ==
  p \in InLine => Occurs(q, l) /\ (p \in Exclusive => Head(l) = q)

\* The same for the lock of its key, which it keeps all the time.
KeyOK(q, p, l) ==
  /\ p = "keyWait" => KeyOf[q] # NoKey
  /\ KeyOf[q] # NoKey => /\ p = "keyWait" \/ p \in InLine => Occurs(q, l)
                         /\ p \in InLine => Head(l) = q

LocksOK ==
  \A q \in Run : /\ LineOK(q, pc[q], line[Host[q]])
                 /\ KeyOK(q, pc[q], keyLine[<<Host[q], KeyOf[q]>>])

\* The launch has not inserted its row.
Fresh == {"new", "keyWait", "wait", "oldest", "cancelLoad", "cancelWrite",
          "create", "byKey", "byTrigger", "queue"}

Present == {r \in Run : status[r] # "absent"}

\* The activator is about to write, or to start, the row it has picked.
Holding == {"complete", "fail", "activate", "name", "enqueue", "cancelWrite"}

\* A launch that has not inserted its row: the row is absent, and the run it is
\* about to cancel is not.
LaunchRows(r) ==
  /\ pc[r] \in Fresh => status[r] = "absent"
  /\ pc[r] \in {"cancelLoad", "cancelWrite"} => victim[r] \in Present
  /\ pc[r] \in {"oldest", "cancelLoad", "cancelWrite"} => plan[r] = "cancel_running"

\* An activator holds a row that exists, and one that waited if it is to start it.
HandRows(a) ==
  /\ act[a] \in Holding => picked[a] \in Present
  /\ act[a] = "activate" => picked[a] \in waited
  /\ a \in Server => todo[a] \subseteq Present

RowsOK ==
  /\ \A r \in Run : LaunchRows(r)
  /\ \A a \in Activator : HandRows(a)
  /\ cancelling \subseteq Present
  /\ Pending \subseteq waited
  /\ InStatus(Terminal) \subseteq ended

LockTypes ==
  /\ line \in [Server -> Seq(Run)]
  /\ keyLine \in [Server \X Key -> Seq(Run)]
  /\ pc \in [Run -> {"new", "done"} \cup Waiting \cup Exclusive]

RowTypes ==
  /\ status \in [Run -> Live \cup Terminal \cup {"absent"}]
  /\ born \in [Run -> Nat]
  /\ now \in Nat
  /\ ended \subseteq Run
  /\ waited \subseteq Run
  /\ jobs \in [Run -> JobStates]

LaunchTypes ==
  /\ plan \in [Run -> Conflict]
  /\ victim \in [Run -> Run \cup {NoRun}]

Turns == {"idle", "complete", "fail", "owner", "policy", "pick", "activate", "name",
          "enqueue", "cancel", "cancelWrite"}

HandTypes ==
  /\ act \in [Activator -> Turns]
  /\ picked \in [Activator -> Run \cup {NoRun}]
  /\ todo \in [Server -> SUBSET Run]

WorldTypes ==
  /\ policy \in Conflict
  /\ cancelling \subseteq Run
  /\ aged \subseteq Run
  /\ upsets \in Nat

TypeInv ==
  /\ LockTypes /\ RowTypes /\ LaunchTypes /\ HandTypes /\ WorldTypes
  /\ LocksOK /\ RowsOK
-----------------------------------------------------------------------------
(* Chains. *)

LEMMA AppendFacts ==
  ASSUME NEW S, NEW s \in Seq(S), NEW x \in S
  PROVE  /\ Append(s, x) \in Seq(S)
         /\ Occurs(x, Append(s, x))
         /\ \A y : Occurs(y, s) => Occurs(y, Append(s, x))
         /\ s # <<>> => Head(Append(s, x)) = Head(s)
BY DEF Occurs

LEMMA OccursFacts ==
  ASSUME NEW S, NEW s \in Seq(S), NEW x, Occurs(x, s)
  PROVE  /\ s # <<>>
         /\ x \in S
         /\ Head(s) \in S
         /\ Tail(s) \in Seq(S)
BY DEF Occurs

LEMMA TailFacts ==
  ASSUME NEW S, NEW s \in Seq(S), s # <<>>, NEW y, Occurs(y, s), y # Head(s)
  PROVE  Occurs(y, Tail(s))
<1>1. PICK i \in 1..Len(s) : s[i] = y
  BY DEF Occurs
<1>2. i # 1
  BY <1>1
<1>3. i - 1 \in 1..Len(Tail(s)) /\ Tail(s)[i - 1] = y
  BY <1>1, <1>2
<1> QED
  BY <1>3 DEF Occurs
-----------------------------------------------------------------------------
(* The oldest row of a set. *)

\* An initial segment of the numbers per value: the least one is a subset of all.
LEMMA SomeLeast ==
  ASSUME NEW T \in SUBSET Nat, T # {}
  PROVE  \E m \in T : \A n \in T : m <= n
<1> DEFINE upTo(n) == 0..n
           Segments == {upTo(n) : n \in T}
<1>1. Segments # {} /\ Segments \subseteq FiniteSubsetsOf(Nat)
  <2>1. ASSUME NEW n \in T PROVE upTo(n) \in FiniteSubsetsOf(Nat)
    BY FS_Interval DEF FiniteSubsetsOf
  <2> QED
    BY <2>1
<1>2. IsWellFoundedOn(StrictSubsetOrdering(Nat), FiniteSubsetsOf(Nat))
  BY FS_StrictSubsetOrderingWellFounded
<1>3. PICK A \in Segments : \A B \in Segments : <<B, A>> \notin StrictSubsetOrdering(Nat)
  <2> HIDE DEF Segments
  <2> QED
    BY <1>1, <1>2, WFMin
<1>4. PICK m \in T : A = upTo(m)
  OBVIOUS
<1>5. ASSUME NEW n \in T PROVE m <= n
  <2>1. SUFFICES ASSUME n < m PROVE FALSE
    OBVIOUS
  <2>2. upTo(n) \subseteq upTo(m) /\ m \in upTo(m) /\ m \notin upTo(n)
    BY <2>1
  <2>3. <<upTo(n), upTo(m)>> \in StrictSubsetOrdering(Nat)
    BY <2>2 DEF StrictSubsetOrdering
  <2> QED
    BY <2>3, <1>3, <1>4
<1> QED
  BY <1>5

LEMMA OldestFacts ==
  ASSUME RowTypes, NEW S \in SUBSET Run, S # {}
  PROVE  /\ Oldest(S) \in S
         /\ \A q \in S : born[Oldest(S)] <= born[q]
<1> DEFINE T == {born[r] : r \in S}
<1>1. T \in SUBSET Nat /\ T # {}
  BY DEF RowTypes
<1>2. PICK m \in T : \A n \in T : m <= n
  BY <1>1, SomeLeast
<1>3. PICK r \in S : born[r] = m
  OBVIOUS
<1>4. \A q \in S : born[r] <= born[q]
  BY <1>2, <1>3
<1> QED
  BY <1>4 DEF Oldest

-----------------------------------------------------------------------------
(* What a launch does to the chains. *)

AtHead(r) == pc[r] \in InLine /\ Head(line[Host[r]]) = r

AtKeyHead(r) == pc[r] = "keyWait" /\ Head(keyLine[<<Host[r], KeyOf[r]>>]) = r

LEMMA ChainTypes ==
  ASSUME LockTypes, NEW r \in Run
  PROVE  /\ Host[r] \in Server
         /\ line[Host[r]] \in Seq(Run)
         /\ KeyOf[r] # NoKey => /\ KeyOf[r] \in Key
                                /\ <<Host[r], KeyOf[r]>> \in Server \X Key
                                /\ keyLine[<<Host[r], KeyOf[r]>>] \in Seq(Run)
<1>1. Host[r] \in Server /\ (KeyOf[r] # NoKey => KeyOf[r] \in Key)
  BY QueueConstants
<1> QED
  BY <1>1 DEF LockTypes

LEMMA LineSteps ==
  ASSUME NEW l \in Seq(Run), NEW q \in Run, NEW p, LineOK(q, p, l)
  PROVE  /\ \A r \in Run : LineOK(q, p, Append(l, r))
         /\ l # <<>> /\ Head(l) # q => LineOK(q, p, Tail(l))
         /\ LineOK(q, "wait", Append(l, q))
<1>1. ASSUME NEW r \in Run PROVE LineOK(q, p, Append(l, r))
  BY <1>1, AppendFacts, OccursFacts DEF LineOK
<1>2. ASSUME l # <<>>, Head(l) # q PROVE LineOK(q, p, Tail(l))
  BY <1>2, TailFacts DEF LineOK
<1>3. LineOK(q, "wait", Append(l, q))
  BY AppendFacts DEF LineOK, Exclusive
<1> QED
  BY <1>1, <1>2, <1>3

LEMMA KeySteps ==
  ASSUME NEW l \in Seq(Run), NEW q \in Run, NEW p, KeyOK(q, p, l)
  PROVE  /\ \A r \in Run : KeyOK(q, p, Append(l, r))
         /\ l # <<>> /\ Head(l) # q => KeyOK(q, p, Tail(l))
         /\ KeyOf[q] # NoKey => KeyOK(q, "keyWait", Append(l, q))
<1>1. ASSUME NEW r \in Run PROVE KeyOK(q, p, Append(l, r))
  BY <1>1, AppendFacts, OccursFacts DEF KeyOK
<1>2. ASSUME l # <<>>, Head(l) # q PROVE KeyOK(q, p, Tail(l))
  BY <1>2, TailFacts DEF KeyOK
<1>3. ASSUME KeyOf[q] # NoKey PROVE KeyOK(q, "keyWait", Append(l, q))
  BY <1>3, AppendFacts DEF KeyOK, InLine, Exclusive
<1> QED
  BY <1>1, <1>2, <1>3

\* A launch arrives without a key.
LEMMA JoinLocks ==
  ASSUME LockTypes, LocksOK, NEW r \in Run, Await(r, "wait"), Join(r),
         UNCHANGED keyLine, KeyOf[r] = NoKey \/ AtKeyHead(r)
  PROVE  LockTypes' /\ LocksOK'
<1>1. line' = [line EXCEPT ![Host[r]] = Append(line[Host[r]], r)]
  BY DEF Join
<1>2. LockTypes'
  BY <1>1, ChainTypes, AppendFacts DEF LockTypes, Await, Waiting
<1>3. ASSUME NEW q \in Run
      PROVE  /\ LineOK(q, pc'[q], line'[Host[q]])
             /\ KeyOK(q, pc'[q], keyLine'[<<Host[q], KeyOf[q]>>])
  <2>1. CASE q # r
    <3>1. pc'[q] = pc[q] /\ keyLine' = keyLine
      BY <2>1 DEF Await, LockTypes
    <3>2. line'[Host[q]] \in {line[Host[q]], Append(line[Host[q]], r)}
      BY <1>1, ChainTypes DEF LockTypes
    <3> QED
      BY <3>1, <3>2, ChainTypes, LineSteps DEF LocksOK
  <2>2. CASE q = r
    <3>1. pc'[r] = "wait" /\ keyLine' = keyLine
      BY DEF Await, LockTypes
    <3>2. line'[Host[r]] = Append(line[Host[r]], r)
      BY <1>1, ChainTypes DEF LockTypes
    <3>3. KeyOK(r, "wait", keyLine[<<Host[r], KeyOf[r]>>])
      BY DEF LocksOK, KeyOK, AtKeyHead
    <3> QED
      BY <2>2, <3>1, <3>2, <3>3, ChainTypes, LineSteps DEF LocksOK
  <2> QED
    BY <2>1, <2>2
<1> QED
  BY <1>2, <1>3 DEF LocksOK

\* A launch arrives with a key.
LEMMA JoinKeyLocks ==
  ASSUME LockTypes, LocksOK, NEW r \in Run, Await(r, "keyWait"), JoinKey(r),
         UNCHANGED line, KeyOf[r] # NoKey
  PROVE  LockTypes' /\ LocksOK'
<1> DEFINE k == <<Host[r], KeyOf[r]>>
<1>1. keyLine' = [keyLine EXCEPT ![k] = Append(keyLine[k], r)]
  BY DEF JoinKey
<1>2. LockTypes'
  BY <1>1, ChainTypes, AppendFacts DEF LockTypes, Await, Waiting
<1>3. ASSUME NEW q \in Run
      PROVE  /\ LineOK(q, pc'[q], line'[Host[q]])
             /\ KeyOK(q, pc'[q], keyLine'[<<Host[q], KeyOf[q]>>])
  <2>1. CASE q # r
    <3>1. pc'[q] = pc[q] /\ line' = line
      BY <2>1 DEF Await, LockTypes
    <3>2. KeyOf[q] # NoKey => keyLine'[<<Host[q], KeyOf[q]>>] \in
             {keyLine[<<Host[q], KeyOf[q]>>], Append(keyLine[<<Host[q], KeyOf[q]>>], r)}
      BY <1>1, ChainTypes DEF LockTypes
    <3>3. KeyOf[q] = NoKey => KeyOK(q, pc[q], keyLine'[<<Host[q], KeyOf[q]>>])
      BY DEF LocksOK, KeyOK
    <3> QED
      BY <3>1, <3>2, <3>3, ChainTypes, KeySteps DEF LocksOK
  <2>2. CASE q = r
    <3>1. pc'[r] = "keyWait"
      BY DEF Await, LockTypes
    <3>2. keyLine'[<<Host[r], KeyOf[r]>>] = Append(keyLine[<<Host[r], KeyOf[r]>>], r)
      BY <1>1, ChainTypes DEF LockTypes
    <3>3. LineOK(r, "keyWait", line'[Host[r]])
      BY DEF LineOK, InLine, Exclusive
    <3> QED
      BY <2>2, <3>1, <3>2, <3>3, ChainTypes, KeySteps DEF LocksOK
  <2> QED
    BY <2>1, <2>2
<1> QED
  BY <1>2, <1>3 DEF LocksOK

\* A launch goes on under the locks.
LEMMA ContinueLocks ==
  ASSUME LockTypes, LocksOK, NEW r \in Run, NEW label \in Exclusive, AtHead(r),
         Await(r, label), UNCHANGED <<line, keyLine>>
  PROVE  LockTypes' /\ LocksOK'
<1>1. LockTypes'
  BY DEF LockTypes, Await
<1>2. ASSUME NEW q \in Run
      PROVE  LineOK(q, pc'[q], line[Host[q]]) /\ KeyOK(q, pc'[q], keyLine[<<Host[q], KeyOf[q]>>])
  <2>1. CASE q # r
    BY <2>1 DEF LocksOK, Await, LockTypes
  <2>2. CASE q = r
    <3>1. pc'[r] = label /\ label \in InLine /\ label # "keyWait"
      BY DEF Await, LockTypes, InLine, Exclusive
    <3> QED
      BY <2>2, <3>1 DEF LocksOK, LineOK, KeyOK, AtHead
  <2> QED
    BY <2>1, <2>2
<1> QED
  BY <1>1, <1>2 DEF LocksOK

\* A launch that leaves the chain of its key is done.
LEMMA LeaveKeyLocks ==
  ASSUME LockTypes, LocksOK, NEW r \in Run, AtHead(r) \/ AtKeyHead(r),
         Await(r, "done"), LeaveKey(r)
  PROVE  /\ keyLine' \in [Server \X Key -> Seq(Run)]
         /\ pc' \in [Run -> {"new", "done"} \cup Waiting \cup Exclusive]
         /\ \A q \in Run : KeyOK(q, pc'[q], keyLine'[<<Host[q], KeyOf[q]>>])
<1> DEFINE k == <<Host[r], KeyOf[r]>>
<1>1. KeyOf[r] # NoKey => /\ keyLine[k] # <<>>
                          /\ Head(keyLine[k]) = r
                          /\ Tail(keyLine[k]) \in Seq(Run)
  BY ChainTypes, OccursFacts DEF LocksOK, KeyOK, AtHead, AtKeyHead
<1>2. IF KeyOf[r] = NoKey THEN keyLine' = keyLine
      ELSE keyLine' = [keyLine EXCEPT ![k] = Tail(keyLine[k])]
  BY DEF LeaveKey
<1>3. keyLine' \in [Server \X Key -> Seq(Run)]
  BY <1>1, <1>2, ChainTypes DEF LockTypes
<1>4. pc' \in [Run -> {"new", "done"} \cup Waiting \cup Exclusive]
  BY DEF Await, LockTypes
<1>5. ASSUME NEW q \in Run
      PROVE  KeyOK(q, pc'[q], keyLine'[<<Host[q], KeyOf[q]>>])
  <2>1. CASE q = r
    <3>1. pc'[r] = "done"
      BY DEF Await, LockTypes
    <3> QED
      BY <2>1, <3>1 DEF KeyOK, InLine, Exclusive
  <2>2. CASE q # r /\ KeyOf[q] = NoKey
    BY <2>2 DEF LocksOK, KeyOK, Await, LockTypes
  <2>3. CASE q # r /\ KeyOf[q] # NoKey
    <3> DEFINE l == keyLine[<<Host[q], KeyOf[q]>>]
    <3>1. pc'[q] = pc[q] /\ KeyOK(q, pc[q], l)
      BY <2>3 DEF Await, LockTypes, LocksOK
    <3>2. \/ keyLine'[<<Host[q], KeyOf[q]>>] = l
          \/ /\ keyLine'[<<Host[q], KeyOf[q]>>] = Tail(l)
             /\ l # <<>> /\ Head(l) = r
      BY <1>1, <1>2, <2>3, ChainTypes DEF LockTypes
    <3> QED
      BY <2>3, <3>1, <3>2, ChainTypes, KeySteps
  <2> QED
    BY <2>1, <2>2, <2>3
<1> QED
  BY <1>3, <1>4, <1>5

\* A launch is answered.
LEMMA AnswerLocks ==
  ASSUME LockTypes, LocksOK, NEW r \in Run, AtHead(r), Answer(r)
  PROVE  LockTypes' /\ LocksOK'
<1> DEFINE s == Host[r]
<1>1. Await(r, "done") /\ LeaveKey(r)
  BY DEF Answer
<1>2. line' = [line EXCEPT ![s] = Tail(line[s])]
  BY DEF Answer
<1>3. line[s] # <<>> /\ Head(line[s]) = r /\ Tail(line[s]) \in Seq(Run)
  BY ChainTypes, OccursFacts DEF LocksOK, LineOK, AtHead
<1>4. LockTypes'
  BY <1>1, <1>2, <1>3, LeaveKeyLocks, ChainTypes DEF LockTypes
<1>5. ASSUME NEW q \in Run
      PROVE  LineOK(q, pc'[q], line'[Host[q]])
  <2>1. CASE q = r
    <3>1. pc'[r] = "done"
      BY <1>1 DEF Await, LockTypes
    <3> QED
      BY <2>1, <3>1 DEF LineOK, InLine, Exclusive
  <2>2. CASE q # r
    <3> DEFINE l == line[Host[q]]
    <3>1. pc'[q] = pc[q] /\ LineOK(q, pc[q], l)
      BY <1>1, <2>2 DEF Await, LockTypes, LocksOK
    <3>2. \/ line'[Host[q]] = l
          \/ line'[Host[q]] = Tail(l) /\ l # <<>> /\ Head(l) = r
      BY <1>2, <1>3, ChainTypes DEF LockTypes
    <3> QED
      BY <2>2, <3>1, <3>2, ChainTypes, LineSteps
  <2> QED
    BY <2>1, <2>2
<1> QED
  BY <1>1, <1>4, <1>5, LeaveKeyLocks DEF LocksOK

\* A launch finds the run of its key, or the search for it fails.
LEMMA DuplicateLocks ==
  ASSUME LockTypes, LocksOK, NEW r \in Run, AtKeyHead(r), Await(r, "done"),
         LeaveKey(r), UNCHANGED line
  PROVE  LockTypes' /\ LocksOK'
<1>1. ASSUME NEW q \in Run
      PROVE  LineOK(q, pc'[q], line[Host[q]])
  BY DEF Await, LockTypes, LocksOK, LineOK, InLine, Exclusive
<1> QED
  BY <1>1, LeaveKeyLocks DEF LocksOK, LockTypes
-----------------------------------------------------------------------------
(* What a step does to the rows. *)

\* The rows in S may be inserted; no row disappears.
RowMove(S) ==
  /\ RowTypes'
  /\ \A q \in Run : status[q] # "absent" => status'[q] # "absent"
  /\ \A q \in Run \ S : status[q] = "absent" => status'[q] = "absent"
  /\ waited \subseteq waited'
  /\ Pending' \subseteq waited'
  /\ InStatus(Terminal)' \subseteq ended'

LEMMA KeptRows ==
  ASSUME TypeInv, UNCHANGED rowVars, NEW S
  PROVE  RowMove(S)
BY DEF TypeInv, RowTypes, RowsOK, RowMove, rowVars, Pending, InStatus

LEMMA ClosedRows ==
  ASSUME TypeInv, NEW x \in Present, NEW t \in Terminal, Close(x, t), NEW S
  PROVE  RowMove(S)
<1>1. /\ status' = [status EXCEPT ![x] = t]
      /\ ended' = ended \cup {x}
      /\ jobs' \in [Run -> JobStates]
      /\ UNCHANGED <<born, now, waited>>
  BY DEF Close, Wrote, TypeInv, RowTypes, JobStates
<1>2. RowTypes'
  BY <1>1 DEF TypeInv, RowTypes, Present
<1>3. \A q \in Run : status'[q] = IF q = x THEN t ELSE status[q]
  BY <1>1 DEF TypeInv, RowTypes
<1>4. t # "absent" /\ t # "PENDING"
  BY DEF Terminal
<1> QED
  BY <1>1, <1>2, <1>3, <1>4 DEF RowMove, TypeInv, RowsOK, Pending, InStatus, Present

LEMMA InsertedRows ==
  ASSUME TypeInv, NEW r \in Run, NEW s \in Live, status[r] = "absent", Insert(r, s)
  PROVE  /\ RowMove({r})
         /\ status' = [status EXCEPT ![r] = s]
         /\ now' = now + 1
         /\ born' = [born EXCEPT ![r] = now']
         /\ waited' = IF s = "PENDING" THEN waited \cup {r} ELSE waited
         /\ ended' = ended
<1>1. /\ status' = [status EXCEPT ![r] = s]
      /\ now' = now + 1
      /\ born' = [born EXCEPT ![r] = now']
      /\ waited' = IF s = "PENDING" THEN waited \cup {r} ELSE waited
      /\ UNCHANGED <<ended, jobs>>
  BY DEF Insert, Wrote
<1>2. RowTypes'
  BY <1>1 DEF TypeInv, RowTypes
<1>3. \A q \in Run : status'[q] = IF q = r THEN s ELSE status[q]
  BY <1>1 DEF TypeInv, RowTypes
<1>4. s # "absent" /\ s \notin Terminal
  BY DEF Live, Terminal
<1> QED
  BY <1>1, <1>2, <1>3, <1>4 DEF RowMove, TypeInv, RowsOK, Pending, InStatus

LEMMA JobRows ==
  ASSUME TypeInv, NEW r, NameStep(r) \/ StartJobs(r), NEW S
  PROVE  RowMove(S)
<1>1. jobs' \in [Run -> JobStates]
  BY DEF NameStep, StartJobs, TypeInv, RowTypes, JobStates
<1>2. UNCHANGED <<status, born, now, ended, waited>>
  BY DEF NameStep, StartJobs
<1> QED
  BY <1>1, <1>2 DEF TypeInv, RowTypes, RowsOK, RowMove, Pending, InStatus

LEMMA ActivatedRows ==
  ASSUME TypeInv, NEW a \in Activator, Activate(a), NEW S
  PROVE  /\ RowMove(S)
         /\ picked[a] \in Run
         /\ status' = [status EXCEPT ![picked[a]] = "RUNNING"]
<1>1. /\ status' = [status EXCEPT ![picked[a]] = "RUNNING"]
      /\ UNCHANGED <<born, now, ended, waited, jobs>>
  BY DEF Activate, Wrote
<1>2. picked[a] \in Present
  BY DEF Activate, TypeInv, RowsOK, HandRows, Holding
<1>3. RowTypes'
  BY <1>1, <1>2 DEF TypeInv, RowTypes, Live, Present
<1>4. \A q \in Run : status'[q] = IF q = picked[a] THEN "RUNNING" ELSE status[q]
  BY <1>1 DEF TypeInv, RowTypes
<1>5. "RUNNING" \notin Terminal
  BY DEF Terminal
<1> QED
  BY <1>1, <1>2, <1>3, <1>4, <1>5 DEF RowMove, TypeInv, RowsOK, Pending, InStatus, Present

LEMMA MovedPresent ==
  ASSUME NEW S, RowMove(S)
  PROVE  Present \subseteq Present'
BY DEF RowMove, Present
-----------------------------------------------------------------------------
(* Launches. *)

\* The locals of r, after a step of r.
Locals(r) ==
  /\ \E c \in Conflict : plan' = [plan EXCEPT ![r] = c]
  /\ \E v \in Run \cup {NoRun} : victim' = [victim EXCEPT ![r] = v]

LEMMA KeptLocals ==
  ASSUME TypeInv, NEW r \in Run, UNCHANGED plan,
         victim' = victim \/ victim' = [victim EXCEPT ![r] = NoRun]
  PROVE  Locals(r)
<1>1. plan' = [plan EXCEPT ![r] = plan[r]] /\ plan[r] \in Conflict
  BY DEF TypeInv, LaunchTypes
<1>2. victim[r] \in Run \cup {NoRun} /\ (victim' = victim => victim' = [victim EXCEPT ![r] = victim[r]])
  BY DEF TypeInv, LaunchTypes
<1> QED
  BY <1>1, <1>2 DEF Locals

LEMMA LaunchStep ==
  ASSUME TypeInv, NEW r \in Run, NEW l, LockTypes', LocksOK', RowMove({r}),
         Await(r, l), Locals(r), LaunchRows(r)',
         UNCHANGED <<handVars, policy, cancelling, aged>>, upsets' \in Nat
  PROVE  TypeInv'
<1>1. LaunchTypes'
  BY DEF Locals, TypeInv, LaunchTypes
<1>2. HandTypes' /\ WorldTypes'
  BY DEF TypeInv, HandTypes, WorldTypes, handVars
<1>3. Present \subseteq Present'
  BY MovedPresent
<1>4. ASSUME NEW q \in Run PROVE LaunchRows(q)'
  <2>1. CASE q = r
    BY <2>1
  <2>2. CASE q # r
    <3>1. pc'[q] = pc[q] /\ plan'[q] = plan[q] /\ victim'[q] = victim[q]
      BY <2>2 DEF Await, Locals, TypeInv, LaunchTypes, LockTypes
    <3>2. LaunchRows(q) /\ (status[q] = "absent" => status'[q] = "absent")
      BY <2>2 DEF TypeInv, RowsOK, RowMove
    <3> QED
      BY <1>3, <3>1, <3>2 DEF LaunchRows
  <2> QED
    BY <2>1, <2>2
<1>5. ASSUME NEW a \in Activator PROVE HandRows(a)'
  <2>1. HandRows(a) /\ act' = act /\ picked' = picked /\ todo' = todo
    BY DEF TypeInv, RowsOK, handVars
  <2> QED
    BY <1>3, <2>1 DEF HandRows, RowMove
<1>6. RowsOK'
  BY <1>3, <1>4, <1>5 DEF RowsOK, TypeInv, RowMove
<1> QED
  BY <1>1, <1>2, <1>6 DEF TypeInv, RowMove

LEMMA ArriveInv ==
  ASSUME TypeInv, NEW r \in Run, Arrive(r)
  PROVE  TypeInv'
<1>1. LockTypes' /\ LocksOK'
  BY JoinLocks, JoinKeyLocks DEF Arrive, TypeInv
<1>2. RowMove({r})
  BY KeptRows DEF Arrive
<1>3. policy \in Conflict /\ victim' = [victim EXCEPT ![r] = victim[r]]
      /\ victim[r] \in Run \cup {NoRun}
  BY DEF Arrive, TypeInv, WorldTypes, LaunchTypes
<1>4. Locals(r)
  BY <1>3 DEF Arrive, Locals
<1>5. PICK l \in {"wait", "keyWait"} : Await(r, l)
  BY DEF Arrive
<1>6. LaunchRows(r)'
  BY <1>5 DEF LaunchRows, Arrive, Await, TypeInv, LockTypes, RowsOK, Fresh, rowVars
<1> QED
  BY <1>1, <1>2, <1>4, <1>5, <1>6, LaunchStep DEF Arrive, TypeInv, WorldTypes

LEMMA FindExistingInv ==
  ASSUME TypeInv, NEW r \in Run, FindExisting(r) \/ FindExistingFails(r)
  PROVE  TypeInv'
<1>1. AtKeyHead(r)
  BY DEF FindExisting, FindExistingFails, AtKeyHead
<1>2. LockTypes' /\ LocksOK'
  BY <1>1, JoinLocks, DuplicateLocks DEF FindExisting, FindExistingFails, TypeInv
<1>3. RowMove({r})
  BY KeptRows DEF FindExisting, FindExistingFails
<1>4. Locals(r)
  BY KeptLocals DEF FindExisting, FindExistingFails
<1>5. PICK l \in {"wait", "done"} : Await(r, l)
  BY DEF FindExisting, FindExistingFails
<1>6. LaunchRows(r)'
  BY <1>1, <1>5 DEF LaunchRows, FindExisting, FindExistingFails, AtKeyHead, Await,
                    TypeInv, LockTypes, RowsOK, Fresh, rowVars
<1>7. upsets' \in Nat
  BY DEF FindExisting, FindExistingFails, Upset, TypeInv, WorldTypes
<1> QED
  BY <1>2, <1>3, <1>4, <1>5, <1>6, <1>7, LaunchStep
     DEF FindExisting, FindExistingFails

\* Inside the lock.
LEMMA ExclusiveHead ==
  ASSUME TypeInv, NEW r \in Run, pc[r] \in Exclusive
  PROVE  AtHead(r)
BY DEF TypeInv, LocksOK, LineOK, AtHead, InLine

\* A launch that is answered keeps its row, if it has one.
LEMMA AnswerStep ==
  ASSUME TypeInv, NEW r \in Run, AtHead(r), Answer(r), RowMove({r}),
         UNCHANGED <<handVars, policy, cancelling, aged>>, upsets' \in Nat
  PROVE  TypeInv'
<1>1. LockTypes' /\ LocksOK'
  BY AnswerLocks DEF TypeInv
<1>2. Locals(r) /\ Await(r, "done")
  BY KeptLocals DEF Answer
<1>3. LaunchRows(r)'
  BY <1>2 DEF Await, TypeInv, LockTypes, LaunchRows, Fresh
<1> QED
  BY <1>1, <1>2, <1>3, LaunchStep

LEMMA ContinueStep ==
  ASSUME TypeInv, NEW r \in Run, AtHead(r), NEW label \in Exclusive,
         Continue(r, label), RowMove({r}), LaunchRows(r)',
         UNCHANGED <<handVars, policy, cancelling, aged>>, upsets' \in Nat
  PROVE  TypeInv'
<1>1. LockTypes' /\ LocksOK'
  BY ContinueLocks DEF TypeInv, Continue
<1>2. Locals(r) /\ Await(r, label)
  BY KeptLocals DEF Continue
<1> QED
  BY <1>1, <1>2, LaunchStep

LEMMA CheckInv ==
  ASSUME TypeInv, NEW r \in Run, CheckConcurrency(r)
  PROVE  TypeInv'
<1>1. AtHead(r) /\ RowMove({r}) /\ upsets' \in Nat
  BY KeptRows DEF CheckConcurrency, AtHead, InLine, TypeInv, WorldTypes
<1>2. CASE Answer(r)
  BY <1>1, <1>2, AnswerStep DEF CheckConcurrency
<1>3. ASSUME NEW label \in {"create", "byTrigger", "byKey", "oldest"},
             Continue(r, label), label = "oldest" => plan[r] = "cancel_running"
      PROVE  TypeInv'
  <2>1. LaunchRows(r)'
    BY <1>3 DEF CheckConcurrency, Continue, Await, TypeInv, LockTypes, RowsOK,
                LaunchRows, Fresh, rowVars
  <2> QED
    BY <1>1, <1>3, <2>1, ContinueStep DEF CheckConcurrency, Exclusive
<1> QED
  BY <1>2, <1>3 DEF CheckConcurrency

LEMMA FindOldestRunningInv ==
  ASSUME TypeInv, NEW r \in Run, FindOldestRunning(r)
  PROVE  TypeInv'
<1>1. AtHead(r) /\ RowMove({r}) /\ upsets' \in Nat
  BY ExclusiveHead, KeptRows DEF FindOldestRunning, Exclusive, TypeInv, WorldTypes
<1>2. CASE Running = {}
  BY <1>1, <1>2, AnswerStep DEF FindOldestRunning
<1>3. CASE Running # {}
  <2>1. /\ victim' = [victim EXCEPT ![r] = Oldest(Running)]
        /\ Await(r, "cancelLoad")
        /\ UNCHANGED <<line, keyLine, plan>>
    BY <1>3 DEF FindOldestRunning
  <2>2. Oldest(Running) \in Running
    BY <1>3, OldestFacts DEF TypeInv, Running, InStatus
  <2>3. Oldest(Running) \in Present /\ Oldest(Running) \in Run
    BY <2>2 DEF Running, InStatus, Present
  <2>4. LockTypes' /\ LocksOK'
    BY <1>1, <2>1, ContinueLocks DEF TypeInv, Exclusive
  <2>5. Locals(r)
    BY <2>1, <2>3 DEF Locals, TypeInv, LaunchTypes
  <2>6. LaunchRows(r)'
    BY <2>1, <2>3 DEF FindOldestRunning, Await, TypeInv, LockTypes, LaunchTypes, RowsOK,
                LaunchRows, Fresh, rowVars, Present
  <2> QED
    BY <1>1, <2>1, <2>4, <2>5, <2>6, LaunchStep DEF FindOldestRunning
<1> QED
  BY <1>2, <1>3

\* The statements that only read and go on, or are answered.
LEMMA ReadInv ==
  ASSUME TypeInv, NEW r \in Run,
         LoadVictim(r) \/ LoadVictimFails(r) \/ FindQueuedByKey(r) \/ FindQueuedByTrigger(r)
  PROVE  TypeInv'
<1>1. pc[r] \in Exclusive /\ pc[r] \in Fresh
  BY DEF LoadVictim, LoadVictimFails, FindQueuedByKey, FindQueuedByTrigger, Exclusive, Fresh
<1>2. AtHead(r) /\ RowMove({r}) /\ upsets' \in Nat
  BY <1>1, ExclusiveHead, KeptRows
     DEF LoadVictim, LoadVictimFails, FindQueuedByKey, FindQueuedByTrigger, Upset, TypeInv, WorldTypes
<1>3. CASE Answer(r)
  BY <1>2, <1>3, AnswerStep
     DEF LoadVictim, LoadVictimFails, FindQueuedByKey, FindQueuedByTrigger
<1>4. ASSUME NEW label \in {"create", "cancelWrite", "byTrigger", "queue"},
             Continue(r, label), label = "cancelWrite" => pc[r] = "cancelLoad"
      PROVE  TypeInv'
  <2>1. LaunchRows(r) /\ status' = status /\ victim' = victim /\ plan' = plan
    BY <1>4 DEF TypeInv, RowsOK, LoadVictim, LoadVictimFails, FindQueuedByKey,
                FindQueuedByTrigger, rowVars, Continue
  <2>2. pc'[r] = label
    BY <1>4 DEF Continue, Await, TypeInv, LockTypes
  <2>3. LaunchRows(r)'
    BY <1>1, <1>4, <2>1, <2>2 DEF LaunchRows, Present
  <2> QED
    BY <1>2, <1>4, <2>3, ContinueStep
       DEF LoadVictim, LoadVictimFails, FindQueuedByKey, FindQueuedByTrigger, Exclusive
<1> QED
  BY <1>3, <1>4 DEF LoadVictim, LoadVictimFails, FindQueuedByKey, FindQueuedByTrigger

LEMMA CancelVictimInv ==
  ASSUME TypeInv, NEW r \in Run, CancelVictim(r)
  PROVE  TypeInv'
<1>1. victim[r] \in Present /\ status[r] = "absent" /\ "CANCELLED" \in Terminal
  BY DEF CancelVictim, TypeInv, RowsOK, LaunchRows, Fresh, Terminal
<1>2. RowMove({})
  BY <1>1, ClosedRows DEF CancelVictim
<1>3. LaunchRows(r)'
  BY <1>1, <1>2 DEF CancelVictim, Continue, Await, TypeInv, LockTypes, LaunchRows, RowMove
<1>4. RowMove({r})
  BY <1>2 DEF RowMove
<1> QED
  BY <1>3, <1>4, ExclusiveHead, ContinueStep DEF CancelVictim, Exclusive, TypeInv, WorldTypes

LEMMA CreateRunInv ==
  ASSUME TypeInv, NEW r \in Run, CreateRun(r)
  PROVE  TypeInv'
<1>1. RowMove({r})
  BY InsertedRows DEF CreateRun, TypeInv, RowsOK, LaunchRows, Fresh, Live
<1>2. LaunchRows(r)'
  BY DEF CreateRun, Continue, Await, TypeInv, LockTypes, LaunchRows, Fresh
<1> QED
  BY <1>1, <1>2, ExclusiveHead, ContinueStep DEF CreateRun, Exclusive, TypeInv, WorldTypes

LEMMA NameFirstStepInv ==
  ASSUME TypeInv, NEW r \in Run, NameFirstStep(r)
  PROVE  TypeInv'
<1>1. RowMove({r})
  BY JobRows DEF NameFirstStep
<1>2. LaunchRows(r)'
  BY DEF NameFirstStep, Continue, Await, TypeInv, LockTypes, LaunchRows, Fresh
<1> QED
  BY <1>1, <1>2, ExclusiveHead, ContinueStep DEF NameFirstStep, Exclusive, TypeInv, WorldTypes

LEMMA LastStatementInv ==
  ASSUME TypeInv, NEW r \in Run, StartRun(r) \/ CreateQueuedRun(r) \/ LaunchFails(r)
  PROVE  TypeInv'
<1>1. AtHead(r)
  BY ExclusiveHead DEF StartRun, CreateQueuedRun, LaunchFails, Exclusive, AtHead, InLine
<1>2. RowMove({r})
  BY JobRows, InsertedRows, KeptRows
     DEF StartRun, CreateQueuedRun, LaunchFails, TypeInv, RowsOK, LaunchRows, Fresh, Live
<1> QED
  BY <1>1, <1>2, AnswerStep DEF StartRun, CreateQueuedRun, LaunchFails, Upset, TypeInv, WorldTypes

LEMMA LaunchInv ==
  ASSUME TypeInv, NEW r \in Run,
         \/ Arrive(r) \/ Launch(r)
         \/ FindExistingFails(r) \/ LoadVictimFails(r) \/ LaunchFails(r)
  PROVE  TypeInv'
BY ArriveInv, FindExistingInv, CheckInv, FindOldestRunningInv, ReadInv,
   CancelVictimInv, CreateRunInv, NameFirstStepInv, LastStatementInv DEF Launch
-----------------------------------------------------------------------------
(* Activations and the world. *)

\* Only a moved.
OnlyHand(a) ==
  \A b \in Activator \ {a} :
    /\ act'[b] = act[b] /\ picked'[b] = picked[b]
    /\ b \in Server => todo'[b] = todo[b]

LEMMA HandStep ==
  ASSUME TypeInv, NEW a \in Activator, RowMove({}), HandTypes', OnlyHand(a),
         HandRows(a)', UNCHANGED <<launchVars, policy, cancelling, aged>>,
         upsets' \in Nat
  PROVE  TypeInv'
<1>1. LockTypes' /\ LocksOK' /\ LaunchTypes' /\ WorldTypes'
  BY DEF TypeInv, LockTypes, LocksOK, LaunchTypes, WorldTypes, launchVars, LineOK, KeyOK
<1>2. Present \subseteq Present'
  BY MovedPresent
<1>3. ASSUME NEW q \in Run PROVE LaunchRows(q)'
  BY <1>2 DEF LaunchRows, TypeInv, RowsOK, launchVars, RowMove
<1>4. ASSUME NEW b \in Activator PROVE HandRows(b)'
  <2>1. CASE b = a
    BY <2>1
  <2>2. CASE b # a
    <3>1. HandRows(b) /\ waited \subseteq waited'
      BY DEF TypeInv, RowsOK, RowMove
    <3>2. /\ act'[b] = act[b] /\ picked'[b] = picked[b]
          /\ b \in Server => todo'[b] = todo[b]
      BY <2>2 DEF OnlyHand
    <3> QED
      BY <1>2, <3>1, <3>2 DEF HandRows
  <2> QED
    BY <2>1, <2>2
<1> QED
  BY <1>1, <1>2, <1>3, <1>4 DEF TypeInv, RowsOK, RowMove

LEMMA RestFacts ==
  ASSUME TypeInv, NEW a \in Activator, Rest(a)
  PROVE  HandTypes' /\ OnlyHand(a) /\ HandRows(a)'
<1>1. HandTypes'
  BY DEF Rest, Turn, TypeInv, HandTypes, Turns
<1>2. OnlyHand(a)
  BY DEF Rest, Turn, TypeInv, HandTypes, OnlyHand
<1>3. act'[a] = "idle" /\ (a \in Server => todo'[a] = {})
  BY DEF Rest, Turn, TypeInv, HandTypes
<1> QED
  BY <1>1, <1>2, <1>3 DEF HandRows, Holding

LEMMA ProceedFacts ==
  ASSUME TypeInv, NEW a \in Activator, NEW label \in Turns, Proceed(a, label),
         RowMove({}), label # "activate",
         label \in Holding => picked[a] \in Present
  PROVE  HandTypes' /\ OnlyHand(a) /\ HandRows(a)'
<1>1. HandTypes' /\ OnlyHand(a)
  BY DEF Proceed, Turn, TypeInv, HandTypes, OnlyHand
<1>2. act'[a] = label /\ picked' = picked /\ todo' = todo
  BY DEF Proceed, Turn, TypeInv, HandTypes
<1>3. Present \subseteq Present' /\ HandRows(a)
  BY MovedPresent DEF TypeInv, RowsOK
<1> QED
  BY <1>1, <1>2, <1>3 DEF HandRows

LEMMA ActivatorTypes ==
  Hand \subseteq Activator /\ Server \subseteq Activator
BY DEF Activator

LEMMA EndRunInv ==
  ASSUME TypeInv, NEW h \in Hand, NEW r \in Run, EndRun(h, r)
  PROVE  TypeInv'
<1>1. RowMove({}) /\ h \in Activator
  BY KeptRows, ActivatorTypes DEF EndRun
<1>2. PICK l \in {"complete", "fail"} : act' = [act EXCEPT ![h] = l]
  BY DEF EndRun, Turn
<1>3. picked' = [picked EXCEPT ![h] = r] /\ UNCHANGED <<rowVars, todo>>
  BY DEF EndRun
<1>4. HandTypes' /\ OnlyHand(h)
  BY <1>1, <1>2, <1>3 DEF TypeInv, HandTypes, OnlyHand, Turns
<1>5. act'[h] # "activate" /\ picked'[h] = r /\ h \notin Server
  BY <1>1, <1>2, <1>3, QueueConstants DEF TypeInv, HandTypes
<1>6. r \in Present'
  BY <1>3 DEF EndRun, rowVars, Present
<1>7. HandRows(h)'
  BY <1>5, <1>6 DEF HandRows
<1> QED
  BY <1>1, <1>4, <1>7, HandStep DEF EndRun, TypeInv, WorldTypes

LEMMA WriteInv ==
  ASSUME TypeInv, NEW a \in Activator,
         \/ a \in Hand /\ WriteEnd(a)
         \/ a \in Server /\ CancelUnactivatable(a)
  PROVE  TypeInv'
<1>1. picked[a] \in Present
  BY DEF WriteEnd, CancelUnactivatable, TypeInv, RowsOK, HandRows, Holding
<1>2. PICK t \in Terminal : Close(picked[a], t)
  BY DEF WriteEnd, CancelUnactivatable, Terminal
<1>3. RowMove({})
  BY <1>1, <1>2, ClosedRows
<1>4. PICK l \in {"policy", "cancel"} : Proceed(a, l)
  BY DEF WriteEnd, CancelUnactivatable
<1>5. HandTypes' /\ OnlyHand(a) /\ HandRows(a)'
  BY <1>3, <1>4, ProceedFacts DEF Turns, Holding
<1> QED
  BY <1>3, <1>5, HandStep DEF WriteEnd, CancelUnactivatable, TypeInv, WorldTypes

LEMMA SweepInv ==
  ASSUME TypeInv, NEW s \in Server, Sweep(s)
  PROVE  TypeInv'
<1>1. RowMove({}) /\ s \in Activator
  BY KeptRows, ActivatorTypes DEF Sweep
<1>2. /\ todo' = [todo EXCEPT ![s] = Pending]
      /\ act' = [act EXCEPT ![s] = "owner"]
      /\ UNCHANGED <<rowVars, picked>>
  BY DEF Sweep, Turn
<1>3. Pending \subseteq Run /\ Pending \subseteq Present'
  BY <1>2 DEF Pending, InStatus, Present, rowVars
<1>4. HandTypes' /\ OnlyHand(s) /\ HandRows(s)'
  BY <1>1, <1>2, <1>3 DEF TypeInv, HandTypes, OnlyHand, Turns, HandRows, Holding
<1> QED
  BY <1>1, <1>4, HandStep DEF Sweep, TypeInv, WorldTypes

LEMMA FindOwnerInv ==
  ASSUME TypeInv, NEW s \in Server, FindOwner(s)
  PROVE  TypeInv'
<1>1. RowMove({}) /\ s \in Activator
  BY KeptRows, ActivatorTypes DEF FindOwner
<1>2. HandTypes' /\ OnlyHand(s) /\ HandRows(s)'
  BY <1>1, RestFacts, ProceedFacts DEF FindOwner, Turns, Holding
<1> QED
  BY <1>1, <1>2, HandStep DEF FindOwner, TypeInv, WorldTypes

LEMMA ReadPolicyInv ==
  ASSUME TypeInv, NEW a \in Activator, ReadPolicy(a)
  PROVE  TypeInv'
<1>1. RowMove({}) /\ UNCHANGED rowVars
  BY KeptRows DEF ReadPolicy
<1>2. CASE Rest(a) \/ Proceed(a, "pick")
  <2>1. HandTypes' /\ OnlyHand(a) /\ HandRows(a)'
    BY <1>1, <1>2, RestFacts, ProceedFacts DEF Turns, Holding
  <2> QED
    BY <1>1, <2>1, HandStep DEF ReadPolicy, TypeInv, WorldTypes
<1>3. CASE a \in Server /\ Turn(a, "cancel") /\ UNCHANGED picked
           /\ todo' = [todo EXCEPT ![a] = @ \cap aged]
  <2>1. HandTypes' /\ OnlyHand(a)
    BY <1>3 DEF TypeInv, HandTypes, OnlyHand, Turn, Turns
  <2>2. act'[a] = "cancel" /\ todo'[a] \subseteq todo[a]
    BY <1>3 DEF TypeInv, HandTypes, Turn
  <2>3. HandRows(a)'
    BY <1>1, <1>3, <2>2, MovedPresent DEF HandRows, Holding, TypeInv, RowsOK
  <2> QED
    BY <1>1, <2>1, <2>3, HandStep DEF ReadPolicy, TypeInv, WorldTypes
<1> QED
  BY <1>2, <1>3 DEF ReadPolicy, Activator

LEMMA PickOldestInv ==
  ASSUME TypeInv, NEW a \in Activator, PickOldest(a)
  PROVE  TypeInv'
<1>1. RowMove({}) /\ UNCHANGED rowVars
  BY KeptRows DEF PickOldest
<1>2. CASE Pending = {}
  <2>1. HandTypes' /\ OnlyHand(a) /\ HandRows(a)'
    BY <1>2, RestFacts DEF PickOldest
  <2> QED
    BY <1>1, <2>1, HandStep DEF PickOldest, TypeInv, WorldTypes
<1>3. CASE Pending # {}
  <2>1. Oldest(Pending) \in Pending
    BY <1>3, OldestFacts DEF TypeInv, Pending, InStatus
  <2>2. Oldest(Pending) \in Run /\ Oldest(Pending) \in Present' /\ Oldest(Pending) \in waited'
    BY <1>1, <2>1 DEF Pending, InStatus, Present, TypeInv, RowsOK, rowVars
  <2>3. /\ picked' = [picked EXCEPT ![a] = Oldest(Pending)]
        /\ act' = [act EXCEPT ![a] = "activate"]
        /\ todo' = todo
    BY <1>3 DEF PickOldest, Turn
  <2>4. HandTypes' /\ OnlyHand(a)
    BY <2>2, <2>3 DEF TypeInv, HandTypes, OnlyHand, Turns
  <2>5. picked'[a] = Oldest(Pending) /\ todo' = todo
    BY <2>3 DEF TypeInv, HandTypes
  <2>6. HandRows(a)'
    BY <1>1, <2>2, <2>5, MovedPresent DEF HandRows, TypeInv, RowsOK
  <2> QED
    BY <1>1, <2>4, <2>6, HandStep DEF PickOldest, TypeInv, WorldTypes
<1> QED
  BY <1>2, <1>3

\* The three writes of an activation.
LEMMA ActivationInv ==
  ASSUME TypeInv, NEW a \in Activator, Activate(a) \/ NameFirst(a) \/ EnqueueFirst(a)
  PROVE  TypeInv'
<1>1. RowMove({})
  BY ActivatedRows, JobRows DEF NameFirst, EnqueueFirst
<1>2. picked[a] \in Present
  BY DEF Activate, NameFirst, EnqueueFirst, TypeInv, RowsOK, HandRows, Holding
<1>3. HandTypes' /\ OnlyHand(a) /\ HandRows(a)'
  BY <1>1, <1>2, RestFacts, ProceedFacts DEF Activate, NameFirst, EnqueueFirst, Turns
<1> QED
  BY <1>1, <1>3, HandStep DEF Activate, NameFirst, EnqueueFirst, TypeInv, WorldTypes

LEMMA CheckUnactivatableInv ==
  ASSUME TypeInv, NEW s \in Server, CheckUnactivatable(s)
  PROVE  TypeInv'
<1>1. RowMove({}) /\ UNCHANGED rowVars /\ s \in Activator
  BY KeptRows, ActivatorTypes DEF CheckUnactivatable
<1>2. CASE Rest(s)
  <2>1. HandTypes' /\ OnlyHand(s) /\ HandRows(s)'
    BY <1>1, <1>2, RestFacts
  <2> QED
    BY <1>1, <2>1, HandStep DEF CheckUnactivatable, TypeInv, WorldTypes
<1>3. ASSUME NEW r \in todo[s], todo' = [todo EXCEPT ![s] = @ \ {r}],
             \/ /\ Turn(s, "cancelWrite")
                /\ picked' = [picked EXCEPT ![s] = r]
             \/ UNCHANGED <<act, picked>>
      PROVE  TypeInv'
  <2>1. r \in Run /\ r \in Present' /\ act[s] = "cancel" /\ todo[s] \subseteq Present'
    BY <1>1 DEF CheckUnactivatable, TypeInv, HandTypes, RowsOK, HandRows, Present, rowVars
  <2>2. HandTypes' /\ OnlyHand(s)
    BY <1>1, <1>3, <2>1 DEF TypeInv, HandTypes, OnlyHand, Turn, Turns
  <2>3. todo'[s] \subseteq todo[s]
    BY <1>3 DEF TypeInv, HandTypes
  <2>4. \/ act'[s] = "cancelWrite" /\ picked'[s] = r
        \/ act'[s] = "cancel"
    BY <1>1, <1>3, <2>1 DEF TypeInv, HandTypes, Turn
  <2>5. HandRows(s)'
    BY <2>1, <2>3, <2>4 DEF HandRows, Holding
  <2> QED
    BY <1>1, <2>2, <2>5, HandStep DEF CheckUnactivatable, TypeInv, WorldTypes
<1> QED
  BY <1>2, <1>3 DEF CheckUnactivatable

LEMMA ActivationFailsInv ==
  ASSUME TypeInv, NEW a \in Activator, ActivationFails(a)
  PROVE  TypeInv'
<1>1. RowMove({})
  BY KeptRows DEF ActivationFails
<1>2. HandTypes' /\ OnlyHand(a) /\ HandRows(a)'
  BY RestFacts DEF ActivationFails
<1> QED
  BY <1>1, <1>2, HandStep DEF ActivationFails, Upset, TypeInv, WorldTypes

LEMMA HandInv ==
  ASSUME TypeInv,
         \/ \E h \in Hand : WriteEnd(h) \/ \E r \in Run : EndRun(h, r)
         \/ \E a \in Activator : Activation(a) \/ ActivationFails(a)
         \/ \E s \in Server : Reconcile(s)
  PROVE  TypeInv'
BY EndRunInv, WriteInv, SweepInv, FindOwnerInv, ReadPolicyInv, PickOldestInv,
   ActivationInv, CheckUnactivatableInv, ActivationFailsInv, ActivatorTypes
   DEF Activation, Reconcile

\* Policy edits, cancellations and the passing of time.
LEMMA WorldInv ==
  ASSUME TypeInv,
         \/ EditPolicy
         \/ \E r \in Run : RequestCancel(r) \/ CancelRun(r) \/ Age(r)
  PROVE  TypeInv'
<1>1. RowMove({})
  <2>1. ASSUME NEW r \in Run, CancelRun(r) PROVE RowMove({})
    BY <2>1, ClosedRows DEF CancelRun, TypeInv, RowsOK, Terminal
  <2> QED
    BY <2>1, KeptRows DEF EditPolicy, RequestCancel, Age
<1>2. UNCHANGED <<launchVars, handVars>>
  BY DEF EditPolicy, RequestCancel, CancelRun, Age
<1>3. LockTypes' /\ LocksOK' /\ LaunchTypes' /\ HandTypes'
  BY <1>2 DEF TypeInv, LockTypes, LocksOK, LaunchTypes, HandTypes, launchVars, handVars,
              LineOK, KeyOK
<1>4. WorldTypes'
  BY DEF EditPolicy, RequestCancel, CancelRun, Age, Upset, TypeInv, WorldTypes
<1>5. Present \subseteq Present'
  BY <1>1, MovedPresent
<1>6. cancelling' \subseteq Present'
  <2>1. \A r \in Run : status[r] \in Live => r \in Present
    BY DEF Live, Present
  <2> QED
    BY <1>5, <2>1 DEF EditPolicy, RequestCancel, CancelRun, Age, TypeInv, RowsOK
<1>7. ASSUME NEW q \in Run PROVE LaunchRows(q)'
  BY <1>1, <1>2, <1>5 DEF LaunchRows, TypeInv, RowsOK, launchVars, RowMove
<1>8. ASSUME NEW b \in Activator PROVE HandRows(b)'
  <2>1. HandRows(b) /\ act' = act /\ picked' = picked /\ todo' = todo
    BY <1>2 DEF TypeInv, RowsOK, handVars
  <2> QED
    BY <1>1, <1>5, <2>1 DEF HandRows, RowMove
<1> QED
  BY <1>1, <1>3, <1>4, <1>6, <1>7, <1>8 DEF TypeInv, RowsOK, RowMove

LEMMA RestartInv ==
  ASSUME TypeInv, NEW s \in Server, Restart(s)
  PROVE  TypeInv'
<1>1. RowMove({}) /\ UNCHANGED rowVars
  BY KeptRows DEF Restart
<1>2. \A q \in Run : IF Host[q] = s
                     THEN pc'[q] \in {"new", "done"}
                     ELSE /\ pc'[q] = pc[q] /\ victim'[q] = victim[q]
                          /\ line'[Host[q]] = line[Host[q]]
  BY QueueConstants DEF Restart, TypeInv, LockTypes
<1>3. LockTypes'
  BY DEF Restart, TypeInv, LockTypes
<1>4. ASSUME NEW q \in Run
      PROVE  /\ LineOK(q, pc'[q], line'[Host[q]])
             /\ KeyOK(q, pc'[q], keyLine'[<<Host[q], KeyOf[q]>>])
  <2>1. CASE Host[q] = s
    BY <1>2, <2>1 DEF LineOK, KeyOK, InLine, Exclusive
  <2>2. CASE Host[q] # s
    <3>1. KeyOf[q] # NoKey => keyLine'[<<Host[q], KeyOf[q]>>] = keyLine[<<Host[q], KeyOf[q]>>]
      BY <2>2, ChainTypes DEF Restart, TypeInv
    <3> QED
      BY <1>2, <2>2, <3>1 DEF TypeInv, LocksOK, LineOK, KeyOK
  <2> QED
    BY <2>1, <2>2
<1>5. LaunchTypes' /\ WorldTypes'
  BY DEF Restart, Upset, TypeInv, LaunchTypes, WorldTypes
<1>6. HandTypes'
  BY DEF Restart, TypeInv, HandTypes, Turns
<1>7. ASSUME NEW q \in Run PROVE LaunchRows(q)'
  <2>1. LaunchRows(q) /\ status' = status /\ plan' = plan
    BY DEF TypeInv, RowsOK, Restart, rowVars
  <2> QED
    BY <1>2, <2>1 DEF LaunchRows, Present, Fresh, Restart, TypeInv, LockTypes
<1>8. ASSUME NEW a \in Activator PROVE HandRows(a)'
  <2>1. HandRows(a) /\ status' = status /\ waited' = waited
    BY DEF TypeInv, RowsOK, Restart, rowVars
  <2>2. \/ act'[a] = "idle"
        \/ act'[a] = act[a] /\ picked'[a] = picked[a]
    BY DEF Restart
  <2>3. a \in Server => todo'[a] \in {todo[a], {}}
    BY DEF Restart, TypeInv, HandTypes
  <2> QED
    BY <2>1, <2>2, <2>3 DEF HandRows, Present, Holding
<1>9. cancelling' \subseteq Present'
  BY <1>1 DEF Restart, TypeInv, RowsOK, Present, rowVars
<1> QED
  BY <1>1, <1>3, <1>4, <1>5, <1>6, <1>7, <1>8, <1>9 DEF TypeInv, RowsOK, RowMove, LocksOK
-----------------------------------------------------------------------------
(* Types. *)

LEMMA InitInv == Init => TypeInv
<1> SUFFICES ASSUME Init PROVE TypeInv
  OBVIOUS
<1>1. policy \in Conflict
  BY QueueConstants DEF Init
<1>2. LockTypes /\ RowTypes /\ LaunchTypes /\ HandTypes /\ WorldTypes
  BY <1>1 DEF Init, LockTypes, RowTypes, LaunchTypes, HandTypes, WorldTypes, JobStates, Turns
<1>3. LocksOK
  BY DEF Init, LocksOK, LineOK, KeyOK, InLine, Exclusive
<1>4. RowsOK
  BY ActivatorTypes DEF Init, RowsOK, LaunchRows, HandRows, Holding, Pending, InStatus, Terminal
<1> QED
  BY <1>2, <1>3, <1>4 DEF TypeInv

LEMMA StutterInv == TypeInv /\ UNCHANGED vars => TypeInv'
<1> SUFFICES ASSUME TypeInv, UNCHANGED vars PROVE TypeInv'
  OBVIOUS
<1>1. UNCHANGED <<rowVars, launchVars, handVars>> /\ UNCHANGED <<policy, cancelling, aged, upsets>>
  BY DEF vars
<1>2. LockTypes' /\ LaunchTypes' /\ HandTypes' /\ WorldTypes' /\ LocksOK'
  BY <1>1 DEF TypeInv, LockTypes, LaunchTypes, HandTypes, WorldTypes, LocksOK,
              LineOK, KeyOK, launchVars, handVars
<1>3. RowMove({})
  BY <1>1, KeptRows
<1>4. RowsOK'
  BY <1>1 DEF TypeInv, RowsOK, LaunchRows, HandRows, Present, Pending, InStatus,
              rowVars, launchVars, handVars
<1> QED
  BY <1>2, <1>3, <1>4 DEF TypeInv, RowMove

LEMMA NextInv == TypeInv /\ [Next]_vars => TypeInv'
<1>1. TypeInv /\ Next => TypeInv'
  BY LaunchInv, HandInv, WorldInv, RestartInv DEF Next
<1> QED
  BY <1>1, StutterInv

\* The types, the places of the launches in the chains of the two locks and what is known
\* of the rows that are held hold together in every reachable state.
THEOREM InvariantHolds == Spec => []TypeInv
BY InitInv, NextInv, PTL DEF Spec

\* Every reachable state is well typed; a launch is in the chains of the locks that it
\* waits for and at the head of those it holds, and nobody holds a row that was
\* not inserted.
THEOREM TypeCorrect == Spec => []TypeOK
<1>1. TypeInv => TypeOK
  BY DEF TypeInv, LockTypes, RowTypes, LaunchTypes, HandTypes, WorldTypes, TypeOK, Turns
<1> QED
  BY <1>1, InvariantHolds, PTL
=============================================================================
