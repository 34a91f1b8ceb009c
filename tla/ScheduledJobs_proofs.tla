------------------------- MODULE ScheduledJobs_proofs -------------------------
(***************************************************************************)
(* The scheduled job for every set of pollers, requests and schedules and  *)
(* every bound on time and faults: its types, that an occurrence starts    *)
(* one workflow at most, that only faults lose occurrences, and what the   *)
(* claim of a due occurrence may do.                                       *)
(***************************************************************************)
EXTENDS ScheduledJobs, FiniteSetTheorems, SequenceTheorems, TLAPS

-----------------------------------------------------------------------------
(* Schedule expressions                                                    *)

LEMMA DivMod ==
  ASSUME NEW e \in Nat, NEW k \in Nat \ {0}
  PROVE  /\ e \div k \in Nat
         /\ e = k * (e \div k) + (e % k)
         /\ e % k \in 0 .. (k - 1)
OBVIOUS

LEMMA NextMultiple ==
  ASSUME NEW e \in Nat, NEW k \in Nat \ {0}
  PROVE  /\ ((e \div k) + 1) * k \in Nat
         /\ ((e \div k) + 1) * k > e
         /\ ((e \div k) + 1) * k <= e + k
<1>1. PICK q \in Nat, r \in 0 .. (k - 1) : q = e \div k /\ e = k * q + r
  BY DivMod
<1>2. (q + 1) * k = k * q + k /\ k * q \in Nat
  OBVIOUS
<1> QED BY <1>1, <1>2

LEMMA MultipleModulo ==
  ASSUME NEW k \in Nat \ {0}, NEW x \in Nat
  PROVE  (x * k) % k = 0
OBVIOUS

\* An interval moves past the tick by one interval at most and stays in step
\* with its earlier runs, however many of them were missed.
THEOREM IntervalSkips ==
  ASSUME NEW s \in Schedule, s.type = "interval",
         NEW t \in Nat, NEW last \in 1 .. t
  PROVE  /\ RunAfter(s, t, last) \in Nat
         /\ RunAfter(s, t, last) > t
         /\ RunAfter(s, t, last) <= t + s.value
         /\ (RunAfter(s, t, last) - last) % s.value = 0
<1> DEFINE k == s.value
<1>0. k \in Nat \ {0}
  BY DEF Schedule
<1>1. CASE last >= t
  <2>1. last = t /\ RunAfter(s, t, last) = last + k
    BY <1>1 DEF RunAfter
  <2>2. (last + k) - last = 1 * k
    BY <1>0
  <2>3. (1 * k) % k = 0
    BY <1>0, MultipleModulo
  <2> HIDE DEF k
  <2> QED BY <1>0, <2>1, <2>2, <2>3 DEF k
<1>2. CASE last < t
  <2> DEFINE e == t - last
             x == (e \div k) + 1
  <2>1. RunAfter(s, t, last) = last + x * k
    BY <1>2 DEF RunAfter
  <2>2. e \in Nat /\ x \in Nat
    <3>1. e \in Nat
      BY <1>2
    <3> HIDE DEF e, k
    <3>2. e \div k \in Nat
      BY <1>0, <3>1, DivMod
    <3> QED BY <3>1, <3>2
  <2>3. x * k \in Nat /\ x * k > e /\ x * k <= e + k
    BY <1>0, <2>2, NextMultiple
  <2>4. (x * k) % k = 0
    BY <1>0, <2>2, MultipleModulo
  <2>5. (last + x * k) - last = x * k
    BY <2>3
  <2> HIDE DEF k, x
  <2> QED BY <1>0, <1>2, <2>1, <2>3, <2>4, <2>5 DEF k
<1> QED BY <1>1, <1>2

LEMMA RunTypes ==
  ASSUME NEW s \in Schedule, NEW t \in Nat
  PROVE  /\ InitialRun(s, t) \in Nat
         /\ \A last \in 1 .. t : RunAfter(s, t, last) \in Nat
<1>1. s.type \in {"one_time", "interval", "cron"} /\ s.value \in Nat \ {0}
  BY DEF Schedule
<1>2. \A u \in Nat : CronAfter(s.value, u) \in Nat
  BY <1>1, NextMultiple DEF CronAfter
<1>3. InitialRun(s, t) \in Nat
  BY <1>1, <1>2 DEF InitialRun
<1>4. ASSUME NEW last \in 1 .. t PROVE RunAfter(s, t, last) \in Nat
  <2>1. CASE s.type = "interval"
    BY <2>1, IntervalSkips
  <2>2. CASE s.type = "one_time"
    BY <2>2 DEF RunAfter
  <2>3. CASE s.type = "cron"
    BY <2>3, <1>2 DEF RunAfter
  <2> QED BY <1>1, <2>1, <2>2, <2>3
<1> QED BY <1>3, <1>4

-----------------------------------------------------------------------------
(* Types                                                                   *)

LocalState == [pc : Pcs, due : Nat, at : Nat, job : Job \cup {Absent}]
Busy == {"create", "mark", "start", "link", "skip", "fail"}

\* What a process at a label holds.
LocalSound(p, l, t) ==
    /\ l.at <= t
    /\ l.pc = "claim" => /\ p \in Pollers /\ l.job \in Job
                         /\ l.due # 0 /\ l.due <= l.at
    /\ l.pc \in Busy => l.due \in Due
    /\ l.pc \in {"update", "resume"} => l.job \in Job

TypeInv ==
    /\ TypeOK
    /\ now \in 1 .. MaxTime
    /\ \A p \in Proc : LocalSound(p, proc[p], now)

LEMMA IdleTypes ==
  /\ Idle \in LocalState /\ Idle.at = 0 /\ Idle.pc = "idle"
  /\ \A p \in Proc, t \in Nat : Done(p) \in LocalState /\ LocalSound(p, Done(p), t)
  /\ \A p \in Proc : Done(p).pc \in {"idle", "over"}
BY DEF Idle, Local, LocalState, Pcs, Done, LocalSound, Busy

LEMMA ActiveType ==
  ASSUME NEW s \in Schedules, NEW t \in Nat
  PROVE  Active(s, t) \in Job
BY RunTypes, SchedulesAssumption DEF Active, Job

LEMMA InitTypeInv ==
  ASSUME Init
  PROVE  TypeInv
<1>1. job \in Job
  <2>1. PICK s \in Schedules, status \in {"active", "paused"} :
          job = [Active(s, 0) EXCEPT !.status = status]
    BY DEF Init
  <2> QED BY <2>1, ActiveType DEF Job
<1>2. proc \in [Proc -> LocalState] /\ \A p \in Proc : LocalSound(p, proc[p], now)
  BY IdleTypes DEF Init, LocalSound, Busy
<1>3. NoRow \in [status : {"none", "triggered", "running", "skipped"} \cup End,
                 linked : BOOLEAN]
  BY DEF NoRow
<1> QED
  BY <1>1, <1>2, <1>3, SchedulesAssumption DEF Init, TypeInv, TypeOK, LocalState

LEMMA LocalBecomes ==
  ASSUME TypeInv, NEW p \in Proc, NEW l \in LocalState, LocalSound(p, l, now),
         proc' = [proc EXCEPT ![p] = l]
  PROVE  /\ proc' \in [Proc -> LocalState]
         /\ \A q \in Proc : LocalSound(q, proc'[q], now)
         /\ proc'[p] = l /\ \A q \in Proc \ {p} : proc'[q] = proc[q]
BY DEF TypeInv, TypeOK, LocalState

LEMMA LocalFields ==
  ASSUME TypeInv, NEW p \in Proc
  PROVE  /\ proc[p] \in LocalState /\ LocalSound(p, proc[p], now)
         /\ proc[p].pc \in Pcs /\ proc[p].at \in Nat /\ proc[p].due \in Nat
BY DEF TypeInv, TypeOK, LocalState

LEMMA GotoLocalState ==
  ASSUME TypeInv, NEW p \in Proc, NEW pc \in Busy, proc[p].pc \in Busy, Goto(p, pc)
  PROVE  \E l \in LocalState : /\ l.pc = pc /\ l.due = proc[p].due /\ LocalSound(p, l, now)
                          /\ proc' = [proc EXCEPT ![p] = l]
<1> DEFINE l == [proc[p] EXCEPT !.pc = pc]
<1>1. l \in LocalState /\ LocalSound(p, l, now) /\ l.pc = pc /\ l.due = proc[p].due
  BY LocalFields DEF LocalState, LocalSound, Busy, Pcs
<1>2. proc' = [proc EXCEPT ![p] = l]
  BY DEF Goto
<1> QED BY <1>1, <1>2

LEMMA HoldLocalState ==
  ASSUME TypeInv, NEW p \in Proc, NEW d \in Due, Hold(p, d)
  PROVE  \E l \in LocalState : /\ l.pc = "create" /\ l.due = d /\ LocalSound(p, l, now)
                          /\ proc' = [proc EXCEPT ![p] = l]
<1> DEFINE l == Local("create", d, 0, Absent)
<1>0. d \in Nat /\ 0 \in 0 .. now /\ "create" \in Pcs \ {"claim"}
  BY DEF Due, Pcs, TypeInv, TypeOK
<1>1. l \in LocalState
  BY <1>0 DEF Local, LocalState
<1>3. LocalSound(p, l, now)
  BY <1>0 DEF Local, LocalSound
<1>2. l.pc = "create" /\ l.due = d
  BY DEF Local
<1> QED BY <1>1, <1>2, <1>3 DEF Hold

-----------------------------------------------------------------------------
(* The types of what each action sets                                      *)

LEMMA ClockTypes ==
  ASSUME TypeInv, Clock
  PROVE  TypeInv'
<1>1. now' \in 1 .. MaxTime /\ now' > now
  BY SchedulesAssumption DEF Clock, TypeInv, TypeOK
<1>2. \A p \in Proc : LocalSound(p, proc[p], now')
  BY <1>1, LocalFields DEF LocalSound, TypeInv, TypeOK
<1> QED
  BY <1>1, <1>2 DEF Clock, TypeInv, TypeOK, table, workflows

LEMMA TickLocalState ==
  ASSUME TypeInv, NEW p \in Proc, Tick(p)
  PROVE  \E l \in LocalState : /\ l.pc = "find" /\ LocalSound(p, l, now)
                          /\ proc' = [proc EXCEPT ![p] = l]
<1> DEFINE l == Local("find", 0, now, Absent)
<1>1. l \in LocalState /\ LocalSound(p, l, now) /\ l.pc = "find"
  BY DEF Busy, Pcs, TypeInv, TypeOK, Local, LocalState, LocalSound
<1> QED BY <1>1 DEF Tick

LEMMA FindLocalState ==
  ASSUME TypeInv, NEW p \in Pollers, FindDueJobs(p)
  PROVE  \E l \in LocalState : /\ l.pc \in {"claim", "idle", "over"} /\ LocalSound(p, l, now)
                          /\ proc' = [proc EXCEPT ![p] = l]
<1>0. p \in Proc
  BY DEF Proc
<1>1. CASE IsDue(proc[p].at)
  <2> DEFINE l == Local("claim", job.next, proc[p].at, job)
  <2>1. job \in Job /\ job.next # 0 /\ job.next <= proc[p].at
    BY <1>1 DEF IsDue, TypeInv, TypeOK, Absent, Job
  <2>2. l \in LocalState /\ LocalSound(p, l, now) /\ l.pc = "claim"
    BY <1>0, <2>1, LocalFields DEF Local, LocalState, LocalSound, Busy, Pcs, Job
  <2>3. proc' = [proc EXCEPT ![p] = l]
    BY <1>1 DEF FindDueJobs
  <2> QED BY <2>2, <2>3
<1>2. CASE ~IsDue(proc[p].at)
  BY <1>0, <1>2, IdleTypes DEF FindDueJobs, Leave, TypeInv, TypeOK
<1> QED BY <1>1, <1>2

LEMMA AskLocalState ==
  ASSUME TypeInv, NEW p \in Proc, NEW pc \in {"update", "pause", "resume", "delete"},
         NEW r \in Job, Ask(p, pc, r)
  PROVE  \E l \in LocalState : /\ l.pc = pc /\ LocalSound(p, l, now)
                          /\ proc' = [proc EXCEPT ![p] = l]
<1> DEFINE l == Local(pc, 0, 0, r)
<1>1. l \in LocalState /\ LocalSound(p, l, now) /\ l.pc = pc
  BY DEF Busy, Pcs, TypeInv, TypeOK, Local, LocalState, LocalSound
<1> QED BY <1>1 DEF Ask

LEMMA PresentJob ==
  ASSUME TypeInv, Present
  PROVE  job \in Job /\ job.schedule \in Schedules
BY DEF TypeInv, TypeOK, Present, Absent, Job

\* The requests that read the job: only their local state changes.
LEMMA AskingLocalState ==
  ASSUME TypeInv, NEW p \in Requests,
         AskUpdate(p) \/ AskPause(p) \/ AskResume(p) \/ AskDelete(p)
  PROVE  /\ UNCHANGED <<now, table, workflows, faults>>
         /\ At(p, "idle")
         /\ \E l \in LocalState : /\ l.pc \in {"update", "pause", "resume", "delete"}
                             /\ LocalSound(p, l, now)
                             /\ proc' = [proc EXCEPT ![p] = l]
<1>0. p \in Proc /\ now \in Nat
  BY DEF Proc, TypeInv, TypeOK
<1>1. PICK pc \in {"update", "pause", "resume", "delete"}, r \in Job : Ask(p, pc, r)
  <2>1. CASE AskUpdate(p)
    <3>1. CASE Ask(p, "update", job)
      BY <3>1, PresentJob DEF Ask
    <3>2. ASSUME NEW s \in Schedules,
                 Ask(p, "update", IF job.status = "active" THEN Active(s, now)
                                  ELSE [job EXCEPT !.schedule = s])
          PROVE  \E r \in Job : Ask(p, "update", r)
      <4>1. job \in Job
        BY <3>2, PresentJob DEF Ask
      <4>2. [job EXCEPT !.schedule = s] \in Job /\ Active(s, now) \in Job
        BY <4>1, <1>0, ActiveType DEF Job
      <4> QED BY <3>2, <4>2
    <3> QED BY <2>1, <3>1, <3>2 DEF AskUpdate
  <2>2. CASE AskPause(p)
    BY <2>2, PresentJob DEF AskPause, Ask
  <2>3. CASE AskResume(p)
    BY <2>3, <1>0, PresentJob, ActiveType DEF AskResume
  <2>4. CASE AskDelete(p)
    BY <2>4, PresentJob DEF AskDelete, Ask
  <2> QED BY <2>1, <2>2, <2>3, <2>4
<1> QED
  BY <1>0, <1>1, AskLocalState DEF Ask

\* A step of a process that leaves the clock alone.
LEMMA LocalStep ==
  ASSUME TypeInv, NEW p \in Proc, NEW l \in LocalState, LocalSound(p, l, now),
         proc' = [proc EXCEPT ![p] = l], UNCHANGED now,
         /\ job' \in Job \cup {Absent}
         /\ runs' \in [Due -> [status : {"none", "triggered", "running", "skipped"} \cup End,
                              linked : BOOLEAN]]
         /\ started' \in [Due -> Nat] /\ claimed' \subseteq Due
         /\ wf' \in [Due -> {"none", "queued", "active"} \cup End]
         /\ missed' \subseteq Due
         /\ events' \in [Due -> Seq(End \cup {"running"})]
         /\ faults' \in 0 .. MaxFaults
  PROVE  TypeInv'
<1>1. /\ proc' \in [Proc -> LocalState]
      /\ \A q \in Proc : LocalSound(q, proc'[q], now)
  BY LocalBecomes
<1> QED BY <1>1 DEF TypeInv, TypeOK, LocalState

LEMMA LeaveLocalState ==
  ASSUME TypeInv, NEW p \in Proc, Leave(p)
  PROVE  \E l \in LocalState : /\ l.pc \in {"idle", "over"} /\ LocalSound(p, l, now)
                               /\ proc' = [proc EXCEPT ![p] = l]
BY IdleTypes DEF Leave, TypeInv, TypeOK

LEMMA ClaimTypes ==
  ASSUME TypeInv, NEW p \in Pollers, AdvanceNextRunIfDue(p)
  PROVE  TypeInv'
<1>0. p \in Proc /\ proc[p].due \in 1 .. proc[p].at /\ proc[p].at \in 1 .. MaxTime
      /\ proc[p].due \in Due /\ proc[p].job \in Job
  <2>1. p \in Proc
    BY DEF Proc
  <2>2. /\ proc[p].job \in Job /\ proc[p].due # 0 /\ proc[p].due <= proc[p].at
        /\ proc[p].at <= now /\ proc[p].at \in Nat /\ proc[p].due \in Nat
    BY <2>1, LocalFields DEF AdvanceNextRunIfDue, At, LocalSound
  <2>3. now \in 1 .. MaxTime /\ MaxTime \in Nat
    BY SchedulesAssumption DEF TypeInv
  <2> QED BY <2>1, <2>2, <2>3 DEF Due
<1>1. CASE StillDue(p)
  <2>1. PICK l \in LocalState : LocalSound(p, l, now) /\ proc' = [proc EXCEPT ![p] = l]
    BY <1>0, <1>1, HoldLocalState DEF AdvanceNextRunIfDue
  <2>2. job \in Job
    BY <1>1 DEF StillDue, TypeInv, TypeOK, Absent, Job
  <2>3. RunAfter(proc[p].job.schedule, proc[p].at, proc[p].due) \in Nat
    <3>1. proc[p].job.schedule \in Schedule
      BY <1>0, SchedulesAssumption DEF Job
    <3>2. proc[p].at \in Nat
      BY <1>0, SchedulesAssumption
    <3> QED BY <1>0, <3>1, <3>2, RunTypes
  <2>4. job' \in Job
    BY <1>1, <2>2, <2>3 DEF AdvanceNextRunIfDue, Job
  <2>5. claimed' \subseteq Due
    BY <1>0, <1>1 DEF AdvanceNextRunIfDue, TypeInv, TypeOK
  <2> QED
    BY <1>0, <2>1, <2>4, <2>5, LocalStep DEF AdvanceNextRunIfDue, workflows, TypeInv, TypeOK
<1>2. CASE ~StillDue(p)
  <2>1. PICK l \in LocalState : LocalSound(p, l, now) /\ proc' = [proc EXCEPT ![p] = l]
    BY <1>0, <1>2, LeaveLocalState DEF AdvanceNextRunIfDue
  <2> QED
    BY <1>0, <1>2, <2>1, LocalStep DEF AdvanceNextRunIfDue, workflows, TypeInv, TypeOK
<1> QED BY <1>1, <1>2

LEMMA SetStatusTypes ==
  ASSUME TypeInv, NEW d \in Due,
         NEW s \in {"triggered", "running", "skipped"} \cup End, SetStatus(d, s)
  PROVE  runs' \in [Due -> [status : {"none", "triggered", "running", "skipped"} \cup End,
                            linked : BOOLEAN]]
BY DEF SetStatus, TypeInv, TypeOK

LEMMA DispatchTypes ==
  ASSUME TypeInv, NEW p \in Proc, Dispatch(p) \/ LinkFails(p)
  PROVE  TypeInv'
<1> USE DEF table, workflows
<1>0. proc[p].pc \in Busy /\ proc[p].due \in Due
  <2>1. proc[p].pc \in Busy
    BY DEF Dispatch, LinkFails, CreateRun, MarkRunning, StartWorkflow, LinkRun,
           MarkRunEnded, At, Busy
  <2> QED BY <2>1, LocalFields DEF LocalSound
<1>1. CASE CreateRun(p)
  <2>1. PICK l \in LocalState : LocalSound(p, l, now) /\ proc' = [proc EXCEPT ![p] = l]
    BY <1>0, <1>1, GotoLocalState, LeaveLocalState DEF CreateRun, Busy
  <2>2. runs' \in [Due -> [status : {"none", "triggered", "running", "skipped"} \cup End,
                           linked : BOOLEAN]]
    <3> DEFINE Rows == [status : {"none", "triggered", "running", "skipped"} \cup End,
                        linked : BOOLEAN]
               new == [NoRow EXCEPT !.status = "triggered"]
    <3>1. runs \in [Due -> Rows] /\ new \in Rows
      BY DEF NoRow, TypeInv, TypeOK
    <3>2. runs' = runs \/ runs' = [runs EXCEPT ![proc[p].due] = new]
      BY <1>1 DEF CreateRun
    <3> HIDE DEF Rows, new
    <3>3. runs' \in [Due -> Rows]
      BY <3>1, <3>2
    <3> QED BY <3>3 DEF Rows
  <2> QED BY <1>1, <2>1, <2>2, LocalStep DEF CreateRun, TypeInv, TypeOK
<1>2. CASE MarkRunning(p)
  <2>1. PICK l \in LocalState : LocalSound(p, l, now) /\ proc' = [proc EXCEPT ![p] = l]
    BY <1>0, <1>2, GotoLocalState DEF MarkRunning, Busy
  <2> QED BY <1>0, <1>2, <2>1, SetStatusTypes, LocalStep DEF MarkRunning, TypeInv, TypeOK
<1>3. CASE StartWorkflow(p)
  <2>1. PICK l \in LocalState : LocalSound(p, l, now) /\ proc' = [proc EXCEPT ![p] = l]
    <3>1. \E pc \in Busy : Goto(p, pc)
      BY <1>3 DEF StartWorkflow, Busy
    <3> QED BY <1>0, <3>1, GotoLocalState
  <2>2. /\ started' \in [Due -> Nat]
        /\ wf' \in [Due -> {"none", "queued", "active"} \cup End]
        /\ events' \in [Due -> Seq(End \cup {"running"})]
        /\ UNCHANGED missed
    <3>1. Append(events[proc[p].due], "running") \in Seq(End \cup {"running"})
      BY <1>0 DEF TypeInv, TypeOK
    <3>2. CASE UNCHANGED workflows
      BY <3>2 DEF TypeInv, TypeOK
    <3>3. CASE ~UNCHANGED workflows
      <4>1. PICK s \in {"active", "queued"} :
              /\ wf' = [wf EXCEPT ![proc[p].due] = s]
              /\ events' = [events EXCEPT ![proc[p].due] =
                              IF s = "active" THEN Append(@, "running") ELSE @]
        BY <1>3, <3>3 DEF StartWorkflow, Launches
      <4>2. /\ started' = [started EXCEPT ![proc[p].due] = @ + 1]
            /\ UNCHANGED missed
        BY <1>3, <3>3 DEF StartWorkflow
      <4> QED BY <1>0, <3>1, <4>1, <4>2 DEF TypeInv, TypeOK
    <3> QED BY <3>2, <3>3
  <2> QED BY <1>3, <2>1, <2>2, LocalStep DEF StartWorkflow, TypeInv, TypeOK
<1>4. CASE LinkRun(p)
  <2>1. PICK l \in LocalState : LocalSound(p, l, now) /\ proc' = [proc EXCEPT ![p] = l]
    BY <1>4, LeaveLocalState DEF LinkRun
  <2>2. runs' \in [Due -> [status : {"none", "triggered", "running", "skipped"} \cup End,
                           linked : BOOLEAN]]
    BY <1>0, <1>4 DEF LinkRun, TypeInv, TypeOK
  <2> QED BY <1>4, <2>1, <2>2, LocalStep DEF LinkRun, TypeInv, TypeOK
<1>5. CASE MarkRunEnded(p)
  <2>1. PICK l \in LocalState : LocalSound(p, l, now) /\ proc' = [proc EXCEPT ![p] = l]
    BY <1>5, LeaveLocalState DEF MarkRunEnded
  <2>2. \E s \in {"skipped"} \cup End : SetStatus(proc[p].due, s)
    BY <1>5 DEF MarkRunEnded, End
  <2> QED BY <1>0, <1>5, <2>1, <2>2, SetStatusTypes, LocalStep DEF MarkRunEnded, TypeInv, TypeOK
<1>6. CASE LinkFails(p)
  <2>1. PICK l \in LocalState : LocalSound(p, l, now) /\ proc' = [proc EXCEPT ![p] = l]
    BY <1>0, <1>6, GotoLocalState DEF LinkFails, Busy
  <2>2. faults' \in 0 .. MaxFaults
    BY <1>6, SchedulesAssumption DEF LinkFails, TypeInv, TypeOK
  <2> QED BY <1>6, <2>1, <2>2, LocalStep DEF LinkFails, TypeInv, TypeOK
<1> QED BY <1>1, <1>2, <1>3, <1>4, <1>5, <1>6 DEF Dispatch

LEMMA SaveTypes ==
  ASSUME TypeInv, NEW p \in Requests, SaveJob(p)
  PROVE  TypeInv'
<1>0. p \in Proc
  BY DEF Proc
<1>1. PICK l \in LocalState : LocalSound(p, l, now) /\ proc' = [proc EXCEPT ![p] = l]
  BY <1>0, LeaveLocalState DEF SaveJob
<1>2. job' \in Job \cup {Absent}
  <2>1. CASE ~Present
    BY <2>1 DEF SaveJob, TypeInv, TypeOK
  <2>2. CASE Present
    <3>1. job \in Job /\ job' = Patched(p)
      BY <2>2, PresentJob DEF SaveJob
    <3>2. proc[p].pc \in {"update", "resume"} => proc[p].job \in Job
      BY <1>0, LocalFields DEF LocalSound
    <3>3. CASE At(p, "update")
      <4>1. Patched(p) = [job EXCEPT !.schedule = proc[p].job.schedule,
                                     !.next = proc[p].job.next]
        BY <3>3 DEF Patched, At
      <4> QED BY <3>1, <3>2, <3>3, <4>1 DEF At, Job
    <3>4. CASE At(p, "pause")
      BY <3>1, <3>4 DEF At, Patched, Job
    <3>5. CASE At(p, "resume")
      <4>1. Patched(p) = [job EXCEPT !.status = "active", !.next = proc[p].job.next]
        BY <3>5 DEF Patched, At
      <4> QED BY <3>1, <3>2, <3>5, <4>1 DEF At, Job
    <3>6. CASE At(p, "delete")
      BY <3>1, <3>6 DEF At, Patched
    <3> QED BY <3>3, <3>4, <3>5, <3>6 DEF SaveJob, At
  <2> QED BY <2>1, <2>2
<1> QED BY <1>0, <1>1, <1>2, LocalStep DEF SaveJob, workflows, TypeInv, TypeOK

LEMMA WorkflowTypes ==
  ASSUME TypeInv, NEW d \in Due,
         WorkflowReports(d) \/ WorkflowEnds(d) \/ ApplyUpdate(d)
  PROVE  TypeInv'
<1> USE DEF table, workflows
<1>0. events[d] \in Seq(End \cup {"running"})
  BY DEF TypeInv, TypeOK
<1>1. CASE WorkflowReports(d)
  <2>1. <<"running">> \in Seq(End \cup {"running"})
    OBVIOUS
  <2> QED BY <1>1, <2>1 DEF WorkflowReports, TypeInv, TypeOK
<1>2. CASE WorkflowEnds(d)
  <2>1. PICK s \in End : /\ wf' = [wf EXCEPT ![d] = s]
                         /\ events' = [events EXCEPT ![d] = Append(@, s)]
    BY <1>2 DEF WorkflowEnds
  <2>2. Append(events[d], s) \in Seq(End \cup {"running"})
    BY <1>0
  <2> QED BY <1>2, <2>1, <2>2 DEF WorkflowEnds, TypeInv, TypeOK
<1>3. CASE ApplyUpdate(d)
  <2>1. /\ Head(events[d]) \in End \cup {"running"}
        /\ Tail(events[d]) \in Seq(End \cup {"running"})
    BY <1>0, <1>3 DEF ApplyUpdate
  <2>2. runs' \in [Due -> [status : {"none", "triggered", "running", "skipped"} \cup End,
                           linked : BOOLEAN]]
    BY <1>3, <2>1, SetStatusTypes DEF ApplyUpdate, TypeInv, TypeOK
  <2>3. missed' \subseteq Due /\ events' \in [Due -> Seq(End \cup {"running"})]
    BY <1>3, <2>1 DEF ApplyUpdate, TypeInv, TypeOK
  <2> QED BY <1>3, <2>2, <2>3 DEF ApplyUpdate, TypeInv, TypeOK
<1> QED BY <1>1, <1>2, <1>3

LEMMA FaultTypes ==
  ASSUME TypeInv, NEW p \in Proc, Fault(p)
  PROVE  TypeInv'
<1>1. PICK l \in LocalState : LocalSound(p, l, now) /\ proc' = [proc EXCEPT ![p] = l]
  BY LeaveLocalState DEF Fault
<1>2. faults' \in 0 .. MaxFaults
  BY SchedulesAssumption DEF Fault, TypeInv, TypeOK
<1> QED BY <1>1, <1>2, LocalStep DEF Fault, table, workflows, TypeInv, TypeOK

LEMMA NextTypeInv ==
  ASSUME TypeInv, [Next]_vars
  PROVE  TypeInv'
<1>0. Pollers \subseteq Proc /\ Requests \subseteq Proc /\ Reported \subseteq Due
  BY SchedulesAssumption DEF Proc, Due
<1>1. ASSUME NEW p \in Pollers, Tick(p) \/ FindDueJobs(p) PROVE TypeInv'
  <2>1. PICK l \in LocalState : LocalSound(p, l, now) /\ proc' = [proc EXCEPT ![p] = l]
    BY <1>0, <1>1, TickLocalState, FindLocalState
  <2> QED
    BY <1>0, <1>1, <2>1, LocalStep DEF Tick, FindDueJobs, table, workflows, TypeInv, TypeOK
<1>2. ASSUME NEW p \in Requests,
             AskUpdate(p) \/ AskPause(p) \/ AskResume(p) \/ AskDelete(p)
      PROVE  TypeInv'
  <2>1. /\ UNCHANGED <<now, table, workflows, faults>>
        /\ \E l \in LocalState : LocalSound(p, l, now) /\ proc' = [proc EXCEPT ![p] = l]
    BY <1>2, AskingLocalState
  <2> QED BY <1>0, <2>1, LocalStep DEF table, workflows, TypeInv, TypeOK
<1>3. ASSUME NEW p \in Requests, RunNow(p) PROVE TypeInv'
  <2>1. now \in Due
    BY DEF Due, TypeInv
  <2>2. PICK l \in LocalState : LocalSound(p, l, now) /\ proc' = [proc EXCEPT ![p] = l]
    BY <1>0, <1>3, <2>1, HoldLocalState DEF RunNow
  <2> QED BY <1>0, <1>3, <2>2, LocalStep DEF RunNow, table, workflows, TypeInv, TypeOK
<1>4. CASE UNCHANGED vars
  BY <1>4 DEF vars, TypeInv, TypeOK
<1> QED
  BY <1>0, <1>1, <1>2, <1>3, <1>4, ClockTypes, ClaimTypes, DispatchTypes, SaveTypes,
     WorkflowTypes, FaultTypes DEF Next, PollStep, RequestStep

LEMMA TypeInvHolds == Spec => []TypeInv
<1>1. Init => TypeInv
  BY InitTypeInv
<1>2. TypeInv /\ [Next]_vars => TypeInv'
  BY NextTypeInv
<1> QED BY <1>1, <1>2, PTL DEF Spec

\* Every reachable state is well typed: an occurrence that is claimed lies
\* between 1 and the clock, next_run_at is never negative.
THEOREM TypeCorrect == Spec => []TypeOK
<1>1. TypeInv => TypeOK
  BY DEF TypeInv
<1> QED BY <1>1, TypeInvHolds, PTL

-----------------------------------------------------------------------------
(* What a claim may do                                                     *)

\* Only a claim that finds the row as it was read takes a poller to create.
LEMMA OnlyClaims ==
  ASSUME TypeInv, [Next]_vars, NEW p \in Pollers, Claims(p)
  PROVE  AdvanceNextRunIfDue(p) /\ StillDue(p)
<1>0. /\ p \in Proc /\ proc[p].pc = "claim" /\ proc'[p].pc = "create"
      /\ proc \in [Proc -> LocalState]
  BY DEF Claims, At, Proc, TypeInv, TypeOK, LocalState
<1>1. ASSUME NEW q \in Proc, NEW l \in LocalState, q # p,
             proc' = [proc EXCEPT ![q] = l]
      PROVE  FALSE
  BY <1>0, <1>1
<1>2. ASSUME \/ Clock \/ UNCHANGED vars
             \/ \E d \in Due : WorkflowReports(d) \/ WorkflowEnds(d) \/ ApplyUpdate(d)
      PROVE  FALSE
  BY <1>0, <1>2 DEF Clock, vars, WorkflowReports, WorkflowEnds, ApplyUpdate
<1>3. ASSUME NEW q \in Proc \ {p}, proc'[p] = proc[p] PROVE FALSE
  BY <1>0, <1>3
<1>4. ASSUME NEW q \in Pollers, PollStep(q) PROVE q = p
  BY <1>0, <1>4 DEF PollStep, Tick, FindDueJobs, AdvanceNextRunIfDue, Dispatch, CreateRun,
     MarkRunning, StartWorkflow, LinkRun, MarkRunEnded, Goto, Leave, Hold, Proc
<1>5. ASSUME NEW q \in Requests, RequestStep(q) \/ Dispatch(q) PROVE FALSE
  <2>1. q # p /\ q \in Proc
    BY SchedulesAssumption DEF Proc
  <2> QED
    BY <1>0, <1>5, <2>1 DEF RequestStep, AskUpdate, AskPause, AskResume, AskDelete, Ask,
       RunNow, SaveJob, Dispatch, CreateRun, MarkRunning, StartWorkflow, LinkRun,
       MarkRunEnded, Goto, Leave, Hold
<1>6. ASSUME NEW q \in Proc, LinkFails(q) \/ Fault(q) PROVE FALSE
  BY <1>0, <1>6, IdleTypes DEF LinkFails, Fault, Goto, Leave, At
<1>7. PollStep(p)
  <2>1. Reported \subseteq Due
    BY SchedulesAssumption DEF Due
  <2>2. Next \/ UNCHANGED vars
    OBVIOUS
  <2>3. CASE \E q \in Pollers : PollStep(q)
    BY <1>4, <2>3
  <2>4. CASE \E q \in Requests : RequestStep(q) \/ Dispatch(q)
    BY <1>5, <2>4
  <2>5. CASE \E q \in Proc : LinkFails(q) \/ Fault(q)
    BY <1>6, <2>5
  <2>6. CASE \E d \in Reported : WorkflowReports(d) \/ WorkflowEnds(d)
    BY <1>2, <2>1, <2>6
  <2> QED BY <2>2, <2>3, <2>4, <2>5, <2>6, <1>2 DEF Next
<1>8. AdvanceNextRunIfDue(p)
  BY <1>0, <1>7 DEF PollStep, Tick, FindDueJobs, Dispatch, CreateRun, MarkRunning,
     StartWorkflow, LinkRun, MarkRunEnded, At
<1>9. StillDue(p)
  BY <1>0, <1>8, IdleTypes DEF AdvanceNextRunIfDue, Leave
<1> QED BY <1>8, <1>9

\* The claim of an interval job skips the runs it has missed, for every
\* interval and every delay of the tick.
THEOREM SkipsMissedHolds == Spec => SkipsMissed
<1> DEFINE Skips(p) ==
      LET every == proc[p].job.schedule.value IN
      (Claims(p) /\ proc[p].job.schedule.type = "interval") =>
        /\ job'.next > proc[p].at
        /\ job'.next <= proc[p].at + every
        /\ (job'.next - proc[p].due) % every = 0
<1>1. ASSUME TypeInv, [Next]_vars, NEW p \in Pollers PROVE Skips(p)
  <2> SUFFICES ASSUME Claims(p), proc[p].job.schedule.type = "interval"
               PROVE  /\ job'.next > proc[p].at
                      /\ job'.next <= proc[p].at + proc[p].job.schedule.value
                      /\ (job'.next - proc[p].due) % proc[p].job.schedule.value = 0
    OBVIOUS
  <2>1. AdvanceNextRunIfDue(p) /\ StillDue(p)
    BY <1>1, OnlyClaims
  <2>2. /\ p \in Proc /\ proc[p].at \in Nat /\ proc[p].due \in 1 .. proc[p].at
        /\ proc[p].job.schedule \in Schedule
    <3>1. p \in Proc
      BY DEF Proc
    <3>2. /\ proc[p].job \in Job /\ proc[p].due # 0 /\ proc[p].due <= proc[p].at
          /\ proc[p].at \in Nat /\ proc[p].due \in Nat
      BY <1>1, <2>1, <3>1, LocalFields DEF AdvanceNextRunIfDue, At, LocalSound
    <3> QED BY <3>1, <3>2, SchedulesAssumption DEF Job
  <2>3. job \in Job
    BY <1>1, <2>1 DEF StillDue, TypeInv, TypeOK, Absent, Job
  <2>4. job'.next = RunAfter(proc[p].job.schedule, proc[p].at, proc[p].due)
    BY <2>1, <2>3 DEF AdvanceNextRunIfDue, Job
  <2> QED BY <2>2, <2>4, IntervalSkips
<1>2. TypeInv /\ [Next]_vars => [\A p \in Pollers : Skips(p)]_vars
  BY <1>1
<1> QED BY <1>2, TypeInvHolds, PTL DEF Spec, SkipsMissed

-----------------------------------------------------------------------------
(* One workflow per occurrence                                             *)

\* Between the creation of a row and its link or its failure one process
\* holds the row.
Holding == {"mark", "start", "link", "skip", "fail"}

HolderSound(p) ==
    /\ proc[p].pc \in Holding => /\ runs[proc[p].due].status # "none"
                                 /\ ~runs[proc[p].due].linked
    /\ proc[p].pc \in {"mark", "start"} => wf[proc[p].due] = "none"

OneHolder == \A p, q \in Proc :
    (p # q /\ proc[p].pc \in Holding /\ proc[q].pc \in Holding) => proc[p].due # proc[q].due

EventsSound(d) ==
    /\ wf[d] \in {"none", "queued"} => events[d] = << >>
    /\ wf[d] = "active" => events[d] \in {<< >>, <<"running">>}
    /\ wf[d] \in End => events[d] \in {<< >>, <<wf[d]>>, <<"running", wf[d]>>}

RowSound(d) ==
    /\ started[d] = IF wf[d] = "none" THEN 0 ELSE 1
    /\ runs[d].status = "none" => wf[d] = "none" /\ ~runs[d].linked
    /\ (wf[d] \in End /\ events[d] = << >> /\ d \notin missed)
         => runs[d].linked /\ runs[d].status = wf[d]

DispatchInv ==
    /\ \A p \in Proc : HolderSound(p)
    /\ OneHolder
    /\ \A d \in Due : EventsSound(d)
    /\ \A d \in Due : RowSound(d)

LEMMA InitDispatchInv ==
  ASSUME Init
  PROVE  DispatchInv
BY IdleTypes DEF Init, DispatchInv, HolderSound, OneHolder, EventsSound, RowSound, Holding, NoRow, End

\* A process that holds nothing afterwards.
LEMMA HeldByNoOther ==
  ASSUME TypeInv, DispatchInv, NEW p \in Proc, NEW l \in LocalState,
         proc' = [proc EXCEPT ![p] = l], l.pc \notin Holding,
         UNCHANGED workflows,
         \/ UNCHANGED runs
         \/ /\ proc[p].pc \in Holding
            /\ \A d \in Due \ {proc[p].due} : runs'[d] = runs[d]
  PROVE  (\A q \in Proc : HolderSound(q)') /\ OneHolder'
<1>0. /\ proc'[p] = l /\ \A q \in Proc \ {p} : proc'[q] = proc[q]
  BY DEF TypeInv, TypeOK
<1>1. OneHolder'
  BY <1>0 DEF OneHolder, DispatchInv
<1>2. ASSUME NEW q \in Proc PROVE HolderSound(q)'
  <2>1. CASE q = p
    BY <1>0, <2>1 DEF HolderSound, Holding
  <2>2. CASE q # p
    <3>1. HolderSound(q) /\ proc'[q] = proc[q]
      BY <1>0, <2>2 DEF DispatchInv
    <3>2. CASE proc[q].pc \in Holding
      <4>1. proc[q].due \in Due
        BY <3>2, LocalFields DEF LocalSound, Busy, Holding
      <4>2. proc[p].pc \in Holding => proc[p].due # proc[q].due
        BY <2>2, <3>2 DEF DispatchInv, OneHolder
      <4>3. runs'[proc[q].due] = runs[proc[q].due]
        BY <4>1, <4>2
      <4> QED BY <3>1, <4>3 DEF HolderSound, workflows
    <3>3. CASE proc[q].pc \notin Holding
      BY <3>1, <3>3 DEF HolderSound, Holding
    <3> QED BY <3>2, <3>3
  <2> QED BY <2>1, <2>2
<1> QED BY <1>1, <1>2

\* Steps that leave rows and workflows alone and give no process a row.
LEMMA QuietDispatch ==
  ASSUME TypeInv, DispatchInv, NEW p \in Proc, NEW l \in LocalState,
         proc' = [proc EXCEPT ![p] = l], l.pc \notin Holding, UNCHANGED <<runs, workflows>>
  PROVE  DispatchInv'
<1>1. (\A q \in Proc : HolderSound(q)') /\ OneHolder'
  BY HeldByNoOther
<1> QED BY <1>1 DEF DispatchInv, EventsSound, RowSound, workflows

\* A holder goes on with the row it holds.
LEMMA HolderGoesOn ==
  ASSUME TypeInv, DispatchInv, NEW p \in Proc, NEW l \in LocalState,
         proc' = [proc EXCEPT ![p] = l], proc[p].pc \in Holding, l.due = proc[p].due,
         \A d \in Due \ {l.due} : runs'[d] = runs[d] /\ wf'[d] = wf[d],
         runs'[l.due].status # "none" /\ ~runs'[l.due].linked,
         l.pc \in {"mark", "start"} => wf'[l.due] = "none"
  PROVE  (\A q \in Proc : HolderSound(q)') /\ OneHolder'
<1>0. /\ proc'[p] = l /\ \A q \in Proc \ {p} : proc'[q] = proc[q]
  BY DEF TypeInv, TypeOK
<1>1. OneHolder'
  BY <1>0 DEF OneHolder, DispatchInv
<1>2. ASSUME NEW q \in Proc PROVE HolderSound(q)'
  <2>1. CASE q = p
    BY <1>0, <2>1 DEF HolderSound
  <2>2. CASE q # p
    <3>1. HolderSound(q) /\ proc'[q] = proc[q]
      BY <1>0, <2>2 DEF DispatchInv
    <3>2. CASE proc[q].pc \in Holding
      <4>1. proc[q].due \in Due /\ proc[q].due # l.due
        BY <2>2, <3>2, LocalFields DEF LocalSound, Busy, Holding, DispatchInv, OneHolder
      <4> QED BY <3>1, <4>1 DEF HolderSound
    <3>3. CASE proc[q].pc \notin Holding
      BY <3>1, <3>3 DEF HolderSound, Holding
    <3> QED BY <3>2, <3>3
  <2> QED BY <2>1, <2>2
<1> QED BY <1>1, <1>2

LEMMA CreateDispatch ==
  ASSUME TypeInv, DispatchInv, NEW p \in Proc, CreateRun(p)
  PROVE  DispatchInv'
<1>0. proc[p].pc = "create" /\ proc[p].due \in Due
  BY LocalFields DEF CreateRun, At, LocalSound, Busy
<1>1. CASE ~FreeKey(proc[p].due)
  <2>1. PICK l \in LocalState : l.pc \in {"idle", "over"} /\ proc' = [proc EXCEPT ![p] = l]
    BY <1>1, LeaveLocalState DEF CreateRun
  <2> QED BY <1>1, <2>1, QuietDispatch DEF CreateRun, Holding
<1>2. CASE FreeKey(proc[p].due)
  <2> DEFINE d == proc[p].due
  <2>0. d \in Due /\ runs[d].status = "none"
    BY <1>0, <1>2 DEF FreeKey
  <2>1. PICK l \in LocalState : /\ l.pc = "mark" /\ l.due = d
                                /\ proc' = [proc EXCEPT ![p] = l]
    BY <1>0, <1>2, GotoLocalState DEF CreateRun, Busy
  <2>2. /\ runs' = [runs EXCEPT ![d] = [NoRow EXCEPT !.status = "triggered"]]
        /\ UNCHANGED workflows
    BY <1>2 DEF CreateRun
  <2>3. /\ proc'[p] = l /\ \A q \in Proc \ {p} : proc'[q] = proc[q]
        /\ runs'[d].status = "triggered" /\ ~runs'[d].linked
        /\ \A e \in Due \ {d} : runs'[e] = runs[e]
    BY <2>0, <2>1, <2>2 DEF TypeInv, TypeOK, NoRow
  <2>4. ASSUME NEW q \in Proc, proc[q].pc \in Holding
        PROVE  proc[q].due \in Due /\ proc[q].due # d
    BY <2>0, <2>4, LocalFields DEF LocalSound, Busy, Holding, DispatchInv, HolderSound
  <2>5. wf[d] = "none" /\ RowSound(d)
    BY <2>0 DEF DispatchInv, RowSound
  <2> HIDE DEF d
  <2>6. OneHolder'
    BY <2>1, <2>3, <2>4 DEF OneHolder, DispatchInv
  <2>7. ASSUME NEW q \in Proc PROVE HolderSound(q)'
    <3>1. CASE q = p
      BY <2>1, <2>2, <2>3, <2>5, <3>1 DEF HolderSound, workflows
    <3>2. CASE q # p
      <4>1. proc'[q] = proc[q] /\ HolderSound(q)
        BY <2>3, <3>2 DEF DispatchInv
      <4>2. CASE proc[q].pc \in Holding
        BY <2>2, <2>3, <2>4, <4>1, <4>2 DEF HolderSound, workflows
      <4>3. CASE proc[q].pc \notin Holding
        BY <4>1, <4>3 DEF HolderSound, Holding
      <4> QED BY <4>2, <4>3
    <3> QED BY <3>1, <3>2
  <2>8. ASSUME NEW e \in Due PROVE RowSound(e)'
    <3>1. RowSound(e)
      BY DEF DispatchInv
    <3>2. CASE e = d
      BY <2>2, <2>3, <2>5, <3>2 DEF RowSound, workflows, End
    <3>3. CASE e # d
      BY <2>2, <2>3, <3>1, <3>3 DEF RowSound, workflows
    <3> QED BY <3>2, <3>3
  <2> QED BY <2>2, <2>6, <2>7, <2>8 DEF DispatchInv, EventsSound, workflows
<1> QED BY <1>1, <1>2

LEMMA StartDispatch ==
  ASSUME TypeInv, DispatchInv, NEW p \in Proc, StartWorkflow(p)
  PROVE  DispatchInv'
<1> DEFINE d == proc[p].due
<1>0. /\ proc[p].pc = "start" /\ proc[p].pc \in Holding /\ d \in Due
      /\ wf[d] = "none" /\ runs[d].status # "none" /\ ~runs[d].linked
  BY LocalFields DEF StartWorkflow, At, LocalSound, Busy, Holding, DispatchInv, HolderSound
<1>1. PICK pc \in {"link", "skip", "fail"} :
        /\ Goto(p, pc)
        /\ pc # "link" => UNCHANGED workflows
        /\ pc = "link" => \E s \in {"active", "queued"} :
             /\ wf' = [wf EXCEPT ![d] = s]
             /\ events' = [events EXCEPT ![d] = IF s = "active" THEN Append(@, "running") ELSE @]
             /\ started' = [started EXCEPT ![d] = @ + 1]
             /\ UNCHANGED missed
  BY DEF StartWorkflow, Launches
<1>2. PICK l \in LocalState : /\ l.pc = pc /\ l.due = d
                              /\ proc' = [proc EXCEPT ![p] = l]
  BY <1>0, <1>1, GotoLocalState DEF Busy
<1>3. UNCHANGED runs
  BY DEF StartWorkflow, table
<1>4. EventsSound(d) /\ RowSound(d) /\ events[d] = << >> /\ started[d] = 0
  BY <1>0 DEF DispatchInv, EventsSound, RowSound
<1> HIDE DEF d
<1>5. CASE pc # "link"
  <2>1. UNCHANGED workflows
    BY <1>1, <1>5
  <2>2. (\A q \in Proc : HolderSound(q)') /\ OneHolder'
    BY <1>0, <1>2, <1>3, <1>5, <2>1, HolderGoesOn DEF d, workflows
  <2> QED BY <1>3, <2>1, <2>2 DEF DispatchInv, EventsSound, RowSound, workflows
<1>6. CASE pc = "link"
  <2>1. PICK s \in {"active", "queued"} :
          /\ wf' = [wf EXCEPT ![d] = s]
          /\ events' = [events EXCEPT ![d] = IF s = "active" THEN Append(@, "running") ELSE @]
          /\ started' = [started EXCEPT ![d] = @ + 1]
          /\ UNCHANGED missed
    BY <1>1, <1>6
  <2>2. /\ wf'[d] = s /\ started'[d] = 1
        /\ events'[d] = IF s = "active" THEN <<"running">> ELSE << >>
        /\ \A e \in Due \ {d} : wf'[e] = wf[e] /\ events'[e] = events[e] /\ started'[e] = started[e]
    BY <1>0, <1>4, <2>1 DEF TypeInv, TypeOK
  <2>3. (\A q \in Proc : HolderSound(q)') /\ OneHolder'
    BY <1>0, <1>2, <1>3, <1>6, <2>2, HolderGoesOn DEF d
  <2>4. ASSUME NEW e \in Due PROVE EventsSound(e)' /\ RowSound(e)'
    <3>1. CASE e = d
      BY <1>0, <1>3, <2>2, <3>1 DEF EventsSound, RowSound, End
    <3>2. CASE e # d
      <4>1. EventsSound(e) /\ RowSound(e)
        BY DEF DispatchInv
      <4>2. /\ wf'[e] = wf[e] /\ events'[e] = events[e] /\ started'[e] = started[e]
            /\ runs'[e] = runs[e] /\ missed' = missed
        BY <1>3, <2>1, <2>2, <3>2
      <4> QED BY <4>1, <4>2 DEF EventsSound, RowSound
    <3> QED BY <3>1, <3>2
  <2> QED BY <2>3, <2>4 DEF DispatchInv
<1> QED BY <1>5, <1>6

\* The holder's updates of its row, the last of which lets go of it.
LEMMA HolderDispatch ==
  ASSUME TypeInv, DispatchInv, NEW p \in Proc,
         MarkRunning(p) \/ LinkRun(p) \/ MarkRunEnded(p) \/ LinkFails(p)
  PROVE  DispatchInv'
<1> DEFINE d == proc[p].due
<1>0. /\ proc[p].pc \in Holding /\ d \in Due
      /\ runs[d].status # "none" /\ ~runs[d].linked
      /\ UNCHANGED workflows
  <2>1. proc[p].pc \in Holding /\ UNCHANGED workflows
    BY DEF MarkRunning, LinkRun, MarkRunEnded, LinkFails, At, Holding
  <2> QED BY <2>1, LocalFields DEF LocalSound, Busy, Holding, DispatchInv, HolderSound
<1>1. RowSound(d)
  BY <1>0 DEF DispatchInv
<1>2. ASSUME \A e \in Due \ {d} : runs'[e] = runs[e],
             runs'[d].status # "none",
             wf[d] \in End /\ events[d] = << >> => d \in missed
      PROVE  \A e \in Due : EventsSound(e)' /\ RowSound(e)'
  <2> SUFFICES ASSUME NEW e \in Due PROVE EventsSound(e)' /\ RowSound(e)'
    OBVIOUS
  <2>1. EventsSound(e) /\ RowSound(e)
    BY DEF DispatchInv
  <2>2. CASE e = d
    BY <1>0, <1>1, <1>2, <2>1, <2>2 DEF EventsSound, RowSound, workflows
  <2>3. CASE e # d
    BY <1>0, <1>2, <2>1, <2>3 DEF EventsSound, RowSound, workflows
  <2> QED BY <2>2, <2>3
<1>3. wf[d] \in End /\ events[d] = << >> => d \in missed
  BY <1>0, <1>1 DEF RowSound
<1>4. runs \in [Due -> [status : {"none", "triggered", "running", "skipped"} \cup End,
                        linked : BOOLEAN]]
  BY DEF TypeInv, TypeOK
<1>5. CASE MarkRunning(p)
  <2>1. PICK l \in LocalState : /\ l.pc = "start" /\ l.due = d
                                /\ proc' = [proc EXCEPT ![p] = l]
    BY <1>5, GotoLocalState, LocalFields DEF MarkRunning, At, Busy
  <2>2. /\ \A e \in Due \ {d} : runs'[e] = runs[e]
        /\ runs'[d].status # "none" /\ ~runs'[d].linked
    BY <1>0, <1>4, <1>5 DEF MarkRunning, SetStatus
  <2>3. wf[d] = "none"
    BY <1>5 DEF MarkRunning, At, DispatchInv, HolderSound
  <2>4. (\A q \in Proc : HolderSound(q)') /\ OneHolder'
    BY <1>0, <2>1, <2>2, <2>3, HolderGoesOn DEF workflows
  <2> QED BY <1>2, <1>3, <2>2, <2>4 DEF DispatchInv
<1>6. CASE LinkFails(p)
  <2>1. PICK l \in LocalState : /\ l.pc = "fail" /\ l.due = d
                                /\ proc' = [proc EXCEPT ![p] = l]
    BY <1>6, GotoLocalState, LocalFields DEF LinkFails, At, Busy
  <2>2. UNCHANGED runs
    BY <1>6 DEF LinkFails, table
  <2>3. (\A q \in Proc : HolderSound(q)') /\ OneHolder'
    BY <1>0, <2>1, <2>2, HolderGoesOn DEF workflows
  <2> QED BY <1>0, <1>2, <1>3, <2>2, <2>3 DEF DispatchInv
<1>7. CASE LinkRun(p) \/ MarkRunEnded(p)
  <2>1. PICK l \in LocalState : l.pc \in {"idle", "over"} /\ proc' = [proc EXCEPT ![p] = l]
    BY <1>7, LeaveLocalState DEF LinkRun, MarkRunEnded
  <2>2. \A e \in Due \ {d} : runs'[e] = runs[e]
    BY <1>0, <1>4, <1>7 DEF LinkRun, MarkRunEnded, SetStatus
  <2>3. runs'[d].status # "none"
    BY <1>0, <1>4, <1>7 DEF LinkRun, MarkRunEnded, SetStatus
  <2>4. (\A q \in Proc : HolderSound(q)') /\ OneHolder'
    BY <1>0, <2>1, <2>2, HeldByNoOther DEF Holding
  <2> QED BY <1>2, <1>3, <2>2, <2>3, <2>4 DEF DispatchInv
<1> QED BY <1>5, <1>6, <1>7

LEMMA AppendTwo ==
  ASSUME NEW S, NEW a \in S, NEW b \in S
  PROVE  Append(<<a>>, b) = <<a, b>>
<1>1. <<a>> \in Seq(S) /\ <<a, b>> \in Seq(S) /\ Append(<<a>>, b) \in Seq(S)
  OBVIOUS
<1>2. Len(Append(<<a>>, b)) = 2 /\ Len(<<a, b>>) = 2
  OBVIOUS
<1>3. Append(<<a>>, b)[1] = a /\ Append(<<a>>, b)[2] = b
  OBVIOUS
<1>4. \A i \in 1 .. 2 : Append(<<a>>, b)[i] = <<a, b>>[i]
  BY <1>3
<1> QED BY <1>1, <1>2, <1>4, SeqEqual

LEMMA WorkflowDispatch ==
  ASSUME TypeInv, DispatchInv, NEW d \in Due,
         WorkflowReports(d) \/ WorkflowEnds(d) \/ ApplyUpdate(d)
  PROVE  DispatchInv'
<1>0. /\ UNCHANGED <<started, proc>> /\ EventsSound(d) /\ RowSound(d)
      /\ events \in [Due -> Seq(End \cup {"running"})]
      /\ wf \in [Due -> {"none", "queued", "active"} \cup End]
      /\ runs \in [Due -> [status : {"none", "triggered", "running", "skipped"} \cup End,
                          linked : BOOLEAN]]
  BY DEF WorkflowReports, WorkflowEnds, ApplyUpdate, DispatchInv, TypeInv, TypeOK
<1>1. ASSUME \A e \in Due \ {d} :
               /\ wf'[e] = wf[e] /\ events'[e] = events[e] /\ runs'[e] = runs[e]
               /\ e \in missed' <=> e \in missed,
             EventsSound(d)', RowSound(d)',
             runs'[d].status = "none" => runs[d].status = "none",
             runs'[d].linked = runs[d].linked,
             wf[d] = "none" => wf'[d] = "none"
      PROVE  DispatchInv'
  <2>1. ASSUME NEW e \in Due PROVE EventsSound(e)' /\ RowSound(e)'
    <3>1. EventsSound(e) /\ RowSound(e)
      BY DEF DispatchInv
    <3>2. CASE e = d
      BY <1>1, <3>2
    <3>3. CASE e # d
      <4>1. e \in Due \ {d}
        BY <3>3
      <4>2. /\ wf'[e] = wf[e] /\ events'[e] = events[e] /\ runs'[e] = runs[e]
            /\ e \in missed' <=> e \in missed
        BY <1>1, <4>1
      <4>3. started' = started
        BY <1>0
      <4> QED BY <3>1, <4>2, <4>3 DEF EventsSound, RowSound
    <3> QED BY <3>2, <3>3
  <2>2. ASSUME NEW q \in Proc PROVE HolderSound(q)'
    <3>1. HolderSound(q) /\ (proc[q].pc \in Holding => proc[q].due \in Due)
      BY LocalFields DEF DispatchInv, LocalSound, Busy, Holding
    <3>2. proc'[q] = proc[q]
      BY <1>0
    <3>3. CASE proc[q].pc \notin Holding
      BY <3>2, <3>3 DEF HolderSound, Holding
    <3>4. CASE proc[q].pc \in Holding /\ proc[q].due = d
      BY <1>1, <3>1, <3>2, <3>4 DEF HolderSound
    <3>5. CASE proc[q].pc \in Holding /\ proc[q].due # d
      <4>1. proc[q].due \in Due \ {d}
        BY <3>1, <3>5
      <4>2. wf'[proc[q].due] = wf[proc[q].due] /\ runs'[proc[q].due] = runs[proc[q].due]
        BY <1>1, <4>1
      <4> QED BY <3>1, <3>2, <4>2 DEF HolderSound
    <3> QED BY <3>3, <3>4, <3>5
  <2> QED BY <1>0, <2>1, <2>2 DEF DispatchInv, OneHolder
<1>2. CASE WorkflowReports(d)
  <2>1. /\ wf[d] = "active" /\ events'[d] = <<"running">> /\ UNCHANGED <<wf, runs, missed>>
        /\ \A e \in Due \ {d} : events'[e] = events[e]
    BY <1>0, <1>2 DEF WorkflowReports, table
  <2>2. EventsSound(d)' /\ RowSound(d)'
    BY <1>0, <2>1 DEF EventsSound, RowSound, End
  <2> QED BY <1>1, <2>1, <2>2
<1>3. CASE WorkflowEnds(d)
  <2>1. PICK s \in End : /\ wf[d] \in {"active", "queued"}
                         /\ wf' = [wf EXCEPT ![d] = s]
                         /\ events' = [events EXCEPT ![d] = Append(@, s)]
    BY <1>3 DEF WorkflowEnds
  <2>2. /\ wf'[d] = s /\ events'[d] = Append(events[d], s) /\ UNCHANGED <<runs, missed>>
        /\ \A e \in Due \ {d} : wf'[e] = wf[e] /\ events'[e] = events[e]
    BY <1>0, <1>3, <2>1 DEF WorkflowEnds, table
  <2>3. events[d] \in {<< >>, <<"running">>} /\ s \notin {"none", "queued", "active"}
    BY <1>0, <2>1 DEF EventsSound, End
  <2>4. events'[d] \in {<<s>>, <<"running", s>>}
    <3>1. Append(<< >>, s) = <<s>>
      OBVIOUS
    <3>2. "running" \in {"running", s} /\ s \in {"running", s}
      OBVIOUS
    <3>3. Append(<<"running">>, s) = <<"running", s>>
      BY <3>2, AppendTwo
    <3> QED BY <2>2, <2>3, <3>1, <3>3
  <2>5. EventsSound(d)' /\ RowSound(d)'
    BY <1>0, <2>1, <2>2, <2>3, <2>4 DEF EventsSound, RowSound
  <2> QED BY <1>1, <2>1, <2>2, <2>5
<1>4. CASE ApplyUpdate(d)
  <2>1. /\ UNCHANGED wf /\ events[d] # << >>
        /\ events'[d] = Tail(events[d])
        /\ \A e \in Due \ {d} : events'[e] = events[e] /\ runs'[e] = runs[e]
        /\ missed' = IF ~runs[d].linked /\ Head(events[d]) \in End THEN missed \cup {d}
                     ELSE missed
    BY <1>0, <1>4 DEF ApplyUpdate, SetStatus
  <2>2. \/ wf[d] = "active" /\ events[d] = <<"running">>
        \/ wf[d] \in End /\ events[d] \in {<<wf[d]>>, <<"running", wf[d]>>}
    BY <1>0, <2>1 DEF EventsSound, End
  <2>3. /\ runs'[d].linked = runs[d].linked
        /\ runs[d].linked => runs'[d].status = Head(events[d])
        /\ ~runs[d].linked => runs'[d] = runs[d]
    BY <1>0, <1>4, <2>2 DEF ApplyUpdate, SetStatus, Subscribes, End
  <2>4. Head(events[d]) \in {"running"} \cup End
    BY <2>2
  <2>5. runs'[d].status = "none" => runs[d].status = "none"
    BY <2>3, <2>4 DEF End
  <2>6. EventsSound(d)'
    <3>1. /\ Tail(<<"running">>) = << >> /\ Tail(<<wf[d]>>) = << >>
          /\ Tail(<<"running", wf[d]>>) = <<wf[d]>>
      OBVIOUS
    <3>2. CASE wf[d] = "active"
      <4>1. wf'[d] = "active" /\ events'[d] = << >>
        BY <2>1, <2>2, <3>1, <3>2 DEF End
      <4> QED BY <4>1 DEF EventsSound, End
    <3>3. CASE wf[d] \in End
      <4>1. wf'[d] \in End /\ events'[d] \in {<< >>, <<wf'[d]>>}
        BY <2>1, <2>2, <3>1, <3>3 DEF End
      <4> QED BY <4>1 DEF EventsSound, End
    <3> QED BY <2>2, <3>2, <3>3
  <2>7. RowSound(d)'
    <3>1. CASE wf[d] \in End /\ events[d] = <<wf[d]>>
      <4>1. Head(events[d]) = wf[d] /\ wf[d] \in End
        BY <3>1
      <4> QED BY <1>0, <2>1, <2>3, <2>5, <4>1 DEF RowSound
    <3>2. CASE wf[d] \in End /\ events[d] = <<"running", wf[d]>>
      <4>1. events'[d] # << >>
        BY <2>1, <3>2
      <4> QED BY <1>0, <2>1, <2>3, <2>5, <4>1 DEF RowSound
    <3>3. CASE wf[d] = "active"
      BY <1>0, <2>1, <2>2, <2>3, <2>5, <3>3 DEF RowSound, End
    <3> QED BY <2>2, <3>1, <3>2, <3>3
  <2> QED BY <1>1, <2>1, <2>3, <2>5, <2>6, <2>7
<1> QED BY <1>2, <1>3, <1>4

LEMMA NextDispatchInv ==
  ASSUME TypeInv, DispatchInv, [Next]_vars
  PROVE  DispatchInv'
<1>0. Pollers \subseteq Proc /\ Requests \subseteq Proc /\ Reported \subseteq Due
  BY SchedulesAssumption DEF Proc, Due
<1>1. ASSUME UNCHANGED <<runs, workflows, proc>> PROVE DispatchInv'
  BY <1>1 DEF DispatchInv, HolderSound, OneHolder, EventsSound, RowSound, workflows
<1>2. CASE Clock \/ UNCHANGED vars
  BY <1>1, <1>2 DEF Clock, vars, table, workflows
<1>3. ASSUME NEW p \in Proc, Dispatch(p) \/ LinkFails(p) PROVE DispatchInv'
  BY <1>3, CreateDispatch, StartDispatch, HolderDispatch DEF Dispatch
<1>4. ASSUME NEW p \in Pollers, Tick(p) \/ FindDueJobs(p) PROVE DispatchInv'
  <2>1. PICK l \in LocalState : /\ l.pc \in {"find", "claim", "idle", "over"}
                                /\ proc' = [proc EXCEPT ![p] = l]
    BY <1>0, <1>4, TickLocalState, FindLocalState
  <2> QED BY <1>0, <1>4, <2>1, QuietDispatch DEF Tick, FindDueJobs, Holding, table, workflows
<1>5. ASSUME NEW p \in Pollers, AdvanceNextRunIfDue(p) PROVE DispatchInv'
  <2>1. proc[p].due \in Due
    <3>1. /\ proc[p].due # 0 /\ proc[p].due <= proc[p].at /\ proc[p].at <= now
          /\ proc[p].at \in Nat /\ proc[p].due \in Nat
      BY <1>0, <1>5, LocalFields DEF AdvanceNextRunIfDue, At, LocalSound
    <3> QED BY <3>1, SchedulesAssumption DEF TypeInv, Due
  <2>2. PICK l \in LocalState : /\ l.pc \in {"create", "idle", "over"}
                                /\ proc' = [proc EXCEPT ![p] = l]
    BY <1>0, <1>5, <2>1, HoldLocalState, LeaveLocalState DEF AdvanceNextRunIfDue
  <2> QED BY <1>0, <1>5, <2>2, QuietDispatch DEF AdvanceNextRunIfDue, Holding
<1>6. ASSUME NEW p \in Requests, RequestStep(p) PROVE DispatchInv'
  <2>1. CASE AskUpdate(p) \/ AskPause(p) \/ AskResume(p) \/ AskDelete(p)
    <3>1. /\ UNCHANGED <<runs, workflows>>
          /\ \E l \in LocalState : /\ l.pc \in {"update", "pause", "resume", "delete"}
                                  /\ proc' = [proc EXCEPT ![p] = l]
      BY <2>1, AskingLocalState DEF table
    <3> QED BY <1>0, <3>1, QuietDispatch DEF Holding
  <2>2. CASE RunNow(p)
    <3>1. now \in Due
      BY DEF Due, TypeInv
    <3>2. PICK l \in LocalState : l.pc = "create" /\ proc' = [proc EXCEPT ![p] = l]
      BY <1>0, <2>2, <3>1, HoldLocalState DEF RunNow
    <3> QED BY <1>0, <2>2, <3>2, QuietDispatch DEF RunNow, Holding, table
  <2>3. CASE SaveJob(p)
    <3>1. PICK l \in LocalState : l.pc \in {"idle", "over"} /\ proc' = [proc EXCEPT ![p] = l]
      BY <1>0, <2>3, LeaveLocalState DEF SaveJob
    <3> QED BY <1>0, <2>3, <3>1, QuietDispatch DEF SaveJob, Holding
  <2> QED BY <1>6, <2>1, <2>2, <2>3 DEF RequestStep
<1>7. ASSUME NEW p \in Proc, Fault(p) PROVE DispatchInv'
  <2>1. PICK l \in LocalState : l.pc \in {"idle", "over"} /\ proc' = [proc EXCEPT ![p] = l]
    BY <1>7, LeaveLocalState DEF Fault
  <2> QED BY <1>7, <2>1, QuietDispatch DEF Fault, Holding, table
<1>8. ASSUME NEW p \in Pollers, PollStep(p) PROVE DispatchInv'
  BY <1>0, <1>3, <1>4, <1>5, <1>8 DEF PollStep
<1>9. ASSUME NEW d \in Due, WorkflowReports(d) \/ WorkflowEnds(d) \/ ApplyUpdate(d)
      PROVE  DispatchInv'
  BY <1>9, WorkflowDispatch
<1> QED
  BY <1>0, <1>2, <1>3, <1>6, <1>7, <1>8, <1>9 DEF Next

LEMMA DispatchInvHolds == Spec => []DispatchInv
<1>1. Init => DispatchInv
  BY InitDispatchInv
<1>2. TypeInv /\ DispatchInv /\ [Next]_vars => DispatchInv'
  BY NextDispatchInv
<1> QED BY <1>1, <1>2, TypeInvHolds, PTL DEF Spec

\* However many pollers overlap, and whatever next_run_at a stale update
\* writes back, an occurrence starts one workflow at most.
THEOREM OneWorkflowHolds == Spec => []OneWorkflowPerOccurrence
<1>1. DispatchInv => OneWorkflowPerOccurrence
  BY DEF DispatchInv, RowSound, OneWorkflowPerOccurrence
<1> QED BY <1>1, DispatchInvHolds, PTL

\* A linked row ends as its workflow did.
THEOREM RowFollowsHolds == Spec => []RowFollows
<1>1. DispatchInv => RowFollows
  BY DEF DispatchInv, RowSound, RowFollows
<1> QED BY <1>1, DispatchInvHolds, PTL

-----------------------------------------------------------------------------
(* What is lost                                                            *)

Held(d) == \E p \in Proc : proc[p].due = d /\ proc[p].pc \in Holding

\* The occurrences that nobody goes on with, whoever may yet try again to
\* create a row that is there: a loss counts when it happens, and once.
Unclaimed(d) == d \in claimed /\ runs[d].status = "none" /\ ~Handled(d)
Abandoned(d) == runs[d].status \in {"triggered", "running"} /\ ~runs[d].linked /\ ~Held(d)
Dropped == {d \in Due : Unclaimed(d) \/ Abandoned(d)}

DroppedInv == Cardinality(Dropped) <= faults

LEMMA FiniteDue == IsFiniteSet(Due)
<1>1. 1 \in Int /\ MaxTime \in Int
  BY SchedulesAssumption
<1>2. IsFiniteSet(1 .. MaxTime)
  BY ONLY <1>1, FS_Interval
<1> QED BY <1>2 DEF Due

LEMMA BusyPcs ==
  /\ Busy = Holding \cup {"create"}
  /\ \A pc \in {"idle", "over", "find", "claim", "update", "pause", "resume", "delete"} : pc \notin Busy
BY DEF Busy, Holding

LEMMA Hands ==
  ASSUME NEW d
  PROVE  /\ Handled(d) <=> \E p \in Proc : proc[p].due = d /\ proc[p].pc \in Busy
         /\ Held(d) => Handled(d)
BY DEF Handled, Held, Busy, Holding

LEMMA HandsLater ==
  ASSUME NEW d
  PROVE  Handled(d)' <=> \E p \in Proc : proc'[p].due = d /\ proc'[p].pc \in Busy
BY DEF Handled, Busy

\* A process takes up an occurrence, or has none.
LEMMA TakesUp ==
  ASSUME TypeInv, NEW p \in Proc, NEW l \in LocalState, proc' = [proc EXCEPT ![p] = l],
         proc[p].pc \notin Busy, UNCHANGED runs,
         claimed' = claimed \/ (claimed' = claimed \cup {l.due} /\ l.pc \in Busy)
  PROVE  Dropped' \subseteq Dropped
<1>0. /\ proc'[p] = l /\ \A q \in Proc \ {p} : proc'[q] = proc[q]
  BY DEF TypeInv, TypeOK
<1>1. ASSUME NEW d \in Due PROVE (Handled(d) => Handled(d)') /\ (Held(d) => Held(d)')
  BY <1>0, Hands, HandsLater, BusyPcs DEF Held
<1>2. ASSUME NEW d \in Due, Unclaimed(d)' PROVE Unclaimed(d)
  BY <1>0, <1>1, <1>2, HandsLater DEF Unclaimed
<1>3. ASSUME NEW d \in Due, Abandoned(d)' PROVE Abandoned(d)
  BY <1>1, <1>3 DEF Abandoned
<1> QED BY <1>2, <1>3 DEF Dropped

\* It goes on with the row of its occurrence.
LEMMA GoesOn ==
  ASSUME TypeInv, NEW p \in Proc, NEW l \in LocalState, proc' = [proc EXCEPT ![p] = l],
         proc[p].pc \in Busy, l.pc \in Holding, l.due = proc[p].due,
         \A d \in Due \ {l.due} : runs'[d] = runs[d], UNCHANGED claimed
  PROVE  Dropped' \subseteq Dropped
<1>0. /\ proc'[p] = l /\ \A q \in Proc \ {p} : proc'[q] = proc[q]
  BY DEF TypeInv, TypeOK
<1>1. ASSUME NEW d \in Due PROVE (Handled(d) => Handled(d)') /\ (Held(d) => Held(d)')
  BY <1>0, Hands, HandsLater, BusyPcs DEF Held
<1>2. Handled(l.due)' /\ Held(l.due)'
  BY <1>0, HandsLater, BusyPcs DEF Held
<1>3. ASSUME NEW d \in Due, Unclaimed(d)' PROVE Unclaimed(d)
  <2>1. d # l.due
    BY <1>2, <1>3 DEF Unclaimed
  <2> QED BY <1>1, <1>3, <2>1 DEF Unclaimed
<1>4. ASSUME NEW d \in Due, Abandoned(d)' PROVE Abandoned(d)
  <2>1. d # l.due
    BY <1>2, <1>4 DEF Abandoned
  <2> QED BY <1>1, <1>4, <2>1 DEF Abandoned
<1> QED BY <1>3, <1>4 DEF Dropped

\* It lets go of its occurrence, whatever it leaves behind.
LEMMA LetsGo ==
  ASSUME TypeInv, NEW p \in Proc, NEW l \in LocalState, proc' = [proc EXCEPT ![p] = l],
         proc[p].pc \in Busy, l.pc \notin Busy,
         \A d \in Due \ {proc[p].due} : runs'[d] = runs[d], UNCHANGED claimed
  PROVE  Dropped' \subseteq Dropped \cup {proc[p].due}
<1>0. /\ proc'[p] = l /\ \A q \in Proc \ {p} : proc'[q] = proc[q]
  BY DEF TypeInv, TypeOK
<1>1. ASSUME NEW d \in Due, d # proc[p].due
      PROVE  (Handled(d) => Handled(d)') /\ (Held(d) => Held(d)')
  BY <1>0, <1>1, Hands, HandsLater DEF Held
<1>2. ASSUME NEW d \in Due, d # proc[p].due, Unclaimed(d)' PROVE Unclaimed(d)
  BY <1>1, <1>2 DEF Unclaimed
<1>3. ASSUME NEW d \in Due, d # proc[p].due, Abandoned(d)' PROVE Abandoned(d)
  BY <1>1, <1>3 DEF Abandoned
<1> QED BY <1>2, <1>3 DEF Dropped

\* The row it leaves has ended, is linked, or is no matter of its own.
LEMMA LetsGoWell ==
  ASSUME TypeInv, NEW p \in Proc, NEW x \in Due, x = proc[p].due, NEW l \in LocalState, proc' = [proc EXCEPT ![p] = l],
         proc[p].pc \in Busy, l.pc \notin Busy,
         \A d \in Due \ {x} : runs'[d] = runs[d], UNCHANGED claimed,
         runs'[x].status # "none",
         \/ runs'[x].linked
         \/ runs'[x].status \notin {"triggered", "running"}
         \/ proc[p].pc = "create" /\ UNCHANGED runs
  PROVE  Dropped' \subseteq Dropped
<1>0. /\ proc'[p] = l /\ \A q \in Proc \ {p} : proc'[q] = proc[q]
  BY DEF TypeInv, TypeOK
<1>1. Dropped' \subseteq Dropped \cup {x}
  BY LetsGo
<1>2. ~Unclaimed(x)'
  BY DEF Unclaimed
<1>3. Abandoned(x)' => Abandoned(x)
  <2>1. CASE runs'[x].linked \/ runs'[x].status \notin {"triggered", "running"}
    BY <2>1 DEF Abandoned
  <2>2. CASE proc[p].pc = "create" /\ UNCHANGED runs
    <3>1. Held(x) => Held(x)'
      BY <1>0, <2>2 DEF Held, Holding
    <3> QED BY <2>2, <3>1 DEF Abandoned
  <2> QED BY <2>1, <2>2
<1> QED BY <1>1, <1>2, <1>3 DEF Dropped

LEMMA SetStatusRuns ==
  ASSUME TypeInv, NEW d \in Due, NEW s, SetStatus(d, s)
  PROVE  /\ runs'[d].status = s /\ runs'[d].linked = runs[d].linked
         /\ \A x \in Due \ {d} : runs'[x] = runs[x]
BY DEF SetStatus, TypeInv, TypeOK

LEMMA DispatchDrops ==
  ASSUME TypeInv, DispatchInv, NEW p \in Proc, Dispatch(p)
  PROVE  Dropped' \subseteq Dropped
<1> DEFINE x == proc[p].due
<1>0. UNCHANGED claimed
  BY DEF Dispatch, CreateRun, MarkRunning, StartWorkflow, LinkRun, MarkRunEnded, table
<1>1. proc[p].pc \in Busy /\ x \in Due
  BY LocalFields DEF Dispatch, CreateRun, MarkRunning, StartWorkflow, LinkRun, MarkRunEnded,
     At, Busy, LocalSound
<1>a. ASSUME Leave(p)
      PROVE  \E l \in LocalState : l.pc \notin Busy /\ proc' = [proc EXCEPT ![p] = l]
  BY <1>a, LeaveLocalState, BusyPcs
<1>b. ASSUME NEW pc \in Holding, Goto(p, pc)
      PROVE  \E l \in LocalState : /\ l.pc \in Holding /\ l.due = x
                                     /\ proc' = [proc EXCEPT ![p] = l]
  BY <1>1, <1>b, GotoLocalState, BusyPcs
<1>2. CASE CreateRun(p)
  <2>1. CASE FreeKey(x)
    <3>1. Goto(p, "mark") /\ \A d \in Due \ {x} : runs'[d] = runs[d]
      BY <1>2, <2>1 DEF CreateRun, TypeInv, TypeOK
    <3> QED BY <1>0, <1>1, <1>b, <3>1, GoesOn DEF Holding
  <2>2. CASE ~FreeKey(x)
    <3>1. Leave(p) /\ UNCHANGED runs /\ proc[p].pc = "create" /\ runs'[x].status # "none"
      BY <1>2, <2>2 DEF CreateRun, FreeKey, At
    <3> QED BY <1>0, <1>1, <1>a, <3>1, LetsGoWell
  <2> QED BY <2>1, <2>2
<1>3. CASE MarkRunning(p)
  <2>1. Goto(p, "start") /\ \A d \in Due \ {x} : runs'[d] = runs[d]
    BY <1>1, <1>3, SetStatusRuns DEF MarkRunning
  <2> QED BY <1>0, <1>1, <1>b, <2>1, GoesOn DEF Holding
<1>4. CASE StartWorkflow(p)
  <2>1. UNCHANGED runs /\ \E pc \in Holding : Goto(p, pc)
    BY <1>4 DEF StartWorkflow, table, Holding
  <2> QED BY <1>0, <1>1, <1>b, <2>1, GoesOn
<1>5. CASE LinkRun(p)
  <2>1. /\ Leave(p) /\ runs' = [runs EXCEPT ![x].linked = TRUE]
        /\ runs[x].status # "none"
    BY <1>5 DEF LinkRun, At, DispatchInv, HolderSound, Holding
  <2>2. /\ runs'[x].linked /\ runs'[x].status = runs[x].status
        /\ \A d \in Due \ {x} : runs'[d] = runs[d]
    BY <1>1, <2>1 DEF TypeInv, TypeOK
  <2> QED BY <1>0, <1>1, <1>a, <2>1, <2>2, LetsGoWell
<1>6. CASE MarkRunEnded(p)
  <2>1. Leave(p) /\ \E s \in {"skipped", "failed"} : SetStatus(x, s)
    BY <1>6 DEF MarkRunEnded
  <2>2. /\ runs'[x].status \in {"skipped", "failed"}
        /\ \A d \in Due \ {x} : runs'[d] = runs[d]
    BY <1>1, <2>1, SetStatusRuns
  <2> QED BY <1>0, <1>1, <1>a, <2>1, <2>2, LetsGoWell
<1> QED BY <1>2, <1>3, <1>4, <1>5, <1>6 DEF Dispatch

\* The listener writes the rows of workflows alone.
LEMMA UpdateDrops ==
  ASSUME TypeInv, NEW d \in Due, ApplyUpdate(d)
  PROVE  Dropped' \subseteq Dropped
<1>0. UNCHANGED <<claimed, proc>>
  BY DEF ApplyUpdate
<1>1. ASSUME NEW x \in Due
      PROVE  runs'[x] = runs[x] \/ (runs'[x].linked /\ runs'[x].status # "none")
  BY SetStatusRuns DEF ApplyUpdate, Subscribes, End
<1>2. ASSUME NEW x \in Due
      PROVE  (Unclaimed(x)' => Unclaimed(x)) /\ (Abandoned(x)' => Abandoned(x))
  <2>1. (Handled(x)' <=> Handled(x)) /\ (Held(x)' <=> Held(x))
    BY <1>0 DEF Handled, Held
  <2> QED BY <1>0, <1>1, <2>1 DEF Unclaimed, Abandoned
<1> QED BY <1>2 DEF Dropped

\* An occurrence is lost by a fault, and a fault loses one at most.
LEMMA NextDrops ==
  ASSUME TypeInv, DispatchInv, [Next]_vars
  PROVE  \/ Dropped' \subseteq Dropped /\ faults' >= faults
         \/ (\E d \in Due : Dropped' \subseteq Dropped \cup {d}) /\ faults' = faults + 1
<1>0. /\ Pollers \subseteq Proc /\ Requests \subseteq Proc /\ Reported \subseteq Due
      /\ faults \in Nat
  BY SchedulesAssumption DEF Proc, Due, TypeInv, TypeOK
<1>1. ASSUME UNCHANGED <<runs, claimed, proc, faults>> PROVE Dropped' \subseteq Dropped /\ faults' >= faults
  BY <1>0, <1>1 DEF Dropped, Unclaimed, Abandoned, Handled, Held
<1>2. CASE Clock \/ UNCHANGED vars
  BY <1>1, <1>2 DEF Clock, vars, table
<1>3. ASSUME NEW p \in Proc, Dispatch(p) PROVE Dropped' \subseteq Dropped /\ faults' >= faults
  <2>1. UNCHANGED faults
    BY <1>3 DEF Dispatch, CreateRun, MarkRunning, StartWorkflow, LinkRun, MarkRunEnded
  <2> QED BY <1>0, <1>3, <2>1, DispatchDrops
<1>4. ASSUME NEW p \in Proc, LinkFails(p) PROVE Dropped' \subseteq Dropped /\ faults' >= faults
  <2>1. /\ proc[p].pc \in Busy /\ Goto(p, "fail") /\ UNCHANGED <<runs, claimed>>
        /\ faults' = faults + 1
    BY <1>4 DEF LinkFails, At, Busy, table
  <2>2. PICK l \in LocalState : l.pc = "fail" /\ l.due = proc[p].due /\ proc' = [proc EXCEPT ![p] = l]
    BY <2>1, GotoLocalState DEF Busy
  <2>3. "fail" \in Holding /\ \A d \in Due : runs'[d] = runs[d]
    BY <2>1 DEF Holding
  <2>4. Dropped' \subseteq Dropped
    BY <2>1, <2>2, <2>3, GoesOn
  <2> QED BY <1>0, <2>1, <2>4
<1>5. ASSUME NEW p \in Pollers, Tick(p) \/ FindDueJobs(p)
      PROVE  Dropped' \subseteq Dropped /\ faults' >= faults
  <2>1. proc[p].pc \notin Busy /\ UNCHANGED <<runs, claimed, faults>>
    BY <1>5, BusyPcs DEF Tick, FindDueJobs, At, table
  <2>2. PICK l \in LocalState : proc' = [proc EXCEPT ![p] = l]
    BY <1>0, <1>5, TickLocalState, FindLocalState
  <2>3. Dropped' \subseteq Dropped
    BY <1>0, <2>1, <2>2, TakesUp
  <2> QED BY <1>0, <2>1, <2>3
<1>6. ASSUME NEW p \in Pollers, AdvanceNextRunIfDue(p)
      PROVE  Dropped' \subseteq Dropped /\ faults' >= faults
  <2>1. proc[p].due \in Due
    <3>1. /\ proc[p].due # 0 /\ proc[p].due <= proc[p].at /\ proc[p].at <= now
          /\ proc[p].at \in Nat /\ proc[p].due \in Nat
      BY <1>0, <1>6, LocalFields DEF AdvanceNextRunIfDue, At, LocalSound
    <3> QED BY <3>1, SchedulesAssumption DEF TypeInv, Due
  <2>2. proc[p].pc \notin Busy /\ UNCHANGED <<runs, faults>>
    BY <1>6, BusyPcs DEF AdvanceNextRunIfDue, At
  <2>3. CASE StillDue(p)
    <3>1. Hold(p, proc[p].due) /\ claimed' = claimed \cup {proc[p].due}
      BY <1>6, <2>3 DEF AdvanceNextRunIfDue
    <3>2. PICK l \in LocalState : /\ l.pc = "create" /\ l.due = proc[p].due
                                   /\ proc' = [proc EXCEPT ![p] = l]
      BY <1>0, <2>1, <3>1, HoldLocalState
    <3>3. Dropped' \subseteq Dropped
      BY <1>0, <2>2, <3>1, <3>2, TakesUp, BusyPcs
    <3> QED BY <1>0, <2>2, <3>3
  <2>4. CASE ~StillDue(p)
    <3>1. Leave(p) /\ UNCHANGED claimed
      BY <1>6, <2>4 DEF AdvanceNextRunIfDue
    <3>2. PICK l \in LocalState : proc' = [proc EXCEPT ![p] = l]
      BY <1>0, <3>1, LeaveLocalState
    <3>3. Dropped' \subseteq Dropped
      BY <1>0, <2>2, <3>1, <3>2, TakesUp
    <3> QED BY <1>0, <2>2, <3>3
  <2> QED BY <2>3, <2>4
<1>7. ASSUME NEW p \in Requests, RequestStep(p)
      PROVE  Dropped' \subseteq Dropped /\ faults' >= faults
  <2>1. CASE AskUpdate(p) \/ AskPause(p) \/ AskResume(p) \/ AskDelete(p)
    <3>1. UNCHANGED <<runs, claimed, faults>> /\ proc[p].pc = "idle"
      BY <2>1, AskingLocalState DEF table, AskUpdate, AskPause, AskResume, AskDelete, Ask, At
    <3>2. PICK l \in LocalState : proc' = [proc EXCEPT ![p] = l]
      BY <2>1, AskingLocalState
    <3>3. Dropped' \subseteq Dropped
      BY <1>0, <3>1, <3>2, TakesUp, BusyPcs
    <3> QED BY <1>0, <3>1, <3>3
  <2>2. CASE RunNow(p)
    <3>1. now \in Due
      BY DEF Due, TypeInv
    <3>2. PICK l \in LocalState : proc' = [proc EXCEPT ![p] = l]
      BY <1>0, <2>2, <3>1, HoldLocalState DEF RunNow
    <3>3. UNCHANGED <<runs, claimed, faults>> /\ proc[p].pc = "idle"
      BY <2>2 DEF RunNow, table, At
    <3>4. Dropped' \subseteq Dropped
      BY <1>0, <3>2, <3>3, TakesUp, BusyPcs
    <3> QED BY <1>0, <3>3, <3>4
  <2>3. CASE SaveJob(p)
    <3>1. PICK l \in LocalState : proc' = [proc EXCEPT ![p] = l]
      BY <1>0, <2>3, LeaveLocalState DEF SaveJob
    <3>2. /\ UNCHANGED <<runs, claimed, faults>>
          /\ proc[p].pc \in {"update", "pause", "resume", "delete"}
      BY <2>3 DEF SaveJob
    <3>3. Dropped' \subseteq Dropped
      BY <1>0, <3>1, <3>2, TakesUp, BusyPcs
    <3> QED BY <1>0, <3>2, <3>3
  <2> QED BY <1>7, <2>1, <2>2, <2>3 DEF RequestStep
<1>8. ASSUME NEW p \in Proc, Fault(p)
      PROVE  \/ Dropped' \subseteq Dropped /\ faults' >= faults
             \/ (\E d \in Due : Dropped' \subseteq Dropped \cup {d}) /\ faults' = faults + 1
  <2>1. PICK l \in LocalState : l.pc \in {"idle", "over"} /\ proc' = [proc EXCEPT ![p] = l]
    BY <1>8, LeaveLocalState DEF Fault
  <2>2. UNCHANGED <<runs, claimed>> /\ faults' = faults + 1
    BY <1>8 DEF Fault, table
  <2>3. CASE proc[p].pc \in Busy
    <3>1. proc[p].due \in Due
      BY <2>3, LocalFields DEF LocalSound
    <3>2. Dropped' \subseteq Dropped \cup {proc[p].due}
      BY <2>1, <2>2, <2>3, LetsGo, BusyPcs
    <3> QED BY <2>2, <3>1, <3>2
  <2>4. CASE proc[p].pc \notin Busy
    <3>1. Dropped' \subseteq Dropped
      BY <2>1, <2>2, <2>4, TakesUp
    <3> QED BY <1>0, <2>2, <3>1
  <2> QED BY <2>3, <2>4
<1>9. ASSUME NEW d \in Due, WorkflowReports(d) \/ WorkflowEnds(d) \/ ApplyUpdate(d)
      PROVE  Dropped' \subseteq Dropped /\ faults' >= faults
  <2>1. CASE WorkflowReports(d) \/ WorkflowEnds(d)
    BY <1>1, <2>1 DEF WorkflowReports, WorkflowEnds, table
  <2>2. CASE ApplyUpdate(d)
    <3>1. Dropped' \subseteq Dropped /\ UNCHANGED faults
      BY <2>2, UpdateDrops DEF ApplyUpdate
    <3> QED BY <1>0, <3>1
  <2> QED BY <1>9, <2>1, <2>2
<1> QED
  BY <1>0, <1>2, <1>3, <1>4, <1>5, <1>6, <1>7, <1>8, <1>9 DEF Next, PollStep

LEMMA DroppedStep ==
  ASSUME TypeInv, DispatchInv, DroppedInv, [Next]_vars
  PROVE  DroppedInv'
<1>0. /\ IsFiniteSet(Due) /\ Dropped \subseteq Due /\ Dropped' \subseteq Due /\ faults \in Nat
  BY FiniteDue, SchedulesAssumption DEF Dropped, TypeInv, TypeOK
<1>1. IsFiniteSet(Dropped) /\ IsFiniteSet(Dropped') /\ Cardinality(Dropped) \in Nat
      /\ Cardinality(Dropped') \in Nat
  BY <1>0, FS_Subset, FS_CardinalityType
<1>2. CASE Dropped' \subseteq Dropped /\ faults' >= faults
  <2>1. Cardinality(Dropped') <= Cardinality(Dropped)
    BY <1>1, <1>2, FS_Subset
  <2>2. faults' \in Nat
    BY NextTypeInv, SchedulesAssumption DEF TypeInv, TypeOK
  <2> QED BY <1>0, <1>1, <1>2, <2>1, <2>2 DEF DroppedInv
<1>3. ASSUME NEW d \in Due, Dropped' \subseteq Dropped \cup {d}, faults' = faults + 1
      PROVE  DroppedInv'
  <2>0. /\ IsFiniteSet(Dropped \cup {d})
        /\ Cardinality(Dropped \cup {d}) \in {Cardinality(Dropped), Cardinality(Dropped) + 1}
    BY <1>1, FS_AddElement
  <2>1. /\ IsFiniteSet(Dropped \cup {d})
        /\ Cardinality(Dropped \cup {d}) <= Cardinality(Dropped) + 1
        /\ Cardinality(Dropped \cup {d}) \in Nat
    BY <1>1, <2>0
  <2>2. Cardinality(Dropped') <= Cardinality(Dropped \cup {d})
    BY <1>3, <2>1, FS_Subset
  <2> QED BY <1>0, <1>1, <1>3, <2>1, <2>2 DEF DroppedInv
<1> QED BY <1>2, <1>3, NextDrops

\* Every occurrence that is claimed but has no row, or whose row stays open
\* without a workflow, is the work of a fault of its own, however the pollers
\* and requests overlap.
THEOREM OnlyFaultsLoseHolds == Spec => []OnlyFaultsLose
<1>1. Init => DroppedInv
  <2> SUFFICES ASSUME Init PROVE DroppedInv
    OBVIOUS
  <2>1. Dropped = {}
    BY DEF Init, Dropped, Unclaimed, Abandoned, NoRow
  <2> QED BY <2>1, FS_EmptySet DEF Init, DroppedInv
<1>2. TypeInv /\ DispatchInv /\ DroppedInv /\ [Next]_vars => DroppedInv'
  BY DroppedStep
<1>3. TypeInv /\ DroppedInv => OnlyFaultsLose
  <2> SUFFICES ASSUME TypeInv, DroppedInv PROVE OnlyFaultsLose
    OBVIOUS
  <2>1. {d \in Due : Lost(d)} \subseteq Dropped
    BY Hands DEF Lost, Dropped, Unclaimed, Abandoned
  <2>2. IsFiniteSet(Dropped) /\ Cardinality(Dropped) \in Nat /\ faults \in Nat
    <3>1. IsFiniteSet(Due) /\ Dropped \subseteq Due /\ faults \in Nat
      BY FiniteDue, SchedulesAssumption DEF Dropped, TypeInv, TypeOK
    <3> QED BY <3>1, FS_Subset, FS_CardinalityType
  <2>3. /\ Cardinality({d \in Due : Lost(d)}) <= Cardinality(Dropped)
        /\ Cardinality({d \in Due : Lost(d)}) \in Nat
    BY <2>1, <2>2, FS_Subset, FS_CardinalityType
  <2> QED BY <2>2, <2>3 DEF OnlyFaultsLose, DroppedInv
<1> QED BY <1>1, <1>2, <1>3, TypeInvHolds, DispatchInvHolds, PTL DEF Spec
=============================================================================
