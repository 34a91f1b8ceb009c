------------------------- MODULE JobAttemptsSafety_proofs -------------------------
(***************************************************************************)
(* The retry budget for every number of executions, retries and restarts.  *)
(***************************************************************************)
EXTENDS JobAttempts_proofs, FiniteSetTheorems

Calling == FailurePcs \cup CompletionPcs
Answering == ListenerPcs \cup Calling

\* What a handler of the engine is called for.
Occasion == Ending \cup {"turn_end", "dispatch"}
Starts == {"claim_lease", "kill", "provision", "start"}
Provisions == {"provisioning", "provisioned"}

\* The agent of the worker's execution has not been started.
Early(l) == \/ l.at \in Starts
            \/ l.at \in ProjectorPcs /\ l.ev \in Provisions

Worker(e) == pub[<<"worker", e>>]

IdleIsRest == \A p \in Publisher : At(p, "idle") => pub[p] = Rest(p[2])

\* A publisher is at work on an execution that exists.
OwnRow == \A p \in Publisher : /\ p[1] \in Role /\ ~At(p, "idle") => row[pub[p].of] # "absent"
                               /\ p[1] # "finalizer" => pub[p].of = p[2]

Unborn == \A e \in Attempt : row[e] = "absent" =>
    /\ agent[e] = "off"
    /\ \A s \in Slot : consumer[s].new # e /\ e \notin consumer[s].prior

\* An execution is handed to one background worker, once.
HandedOver == \A s \in Slot : ConsumerAt(s, "created") =>
    /\ consumer[s].new \in Attempt
    /\ At(<<"worker", consumer[s].new>>, "idle")
    /\ agent[consumer[s].new] = "off"
    /\ \A t \in Slot : ConsumerAt(t, "created") /\ t # s =>
           consumer[t].new # consumer[s].new

EarlyOff == \A e \in Attempt : Early(Worker(e)) => agent[e] = "off"

AnswersEnds == \A p \in Publisher :
    pub[p].at \in Answering => pub[p].ev \in Occasion

\* process() of a BullMQ job waits for the handler it has called.
Called == \A s \in Slot : ~At(<<s, 1>>, "idle") =>
    /\ ConsumerAt(s, "called")
    /\ pub[<<s, 1>>].at \in Calling
    /\ pub[<<s, 1>>].ev = "dispatch"

FinalizerEnded == \A e \in Attempt :
    ~At(<<"finalizer", e>>, "idle") => agent[e] \in {"ok", "bad"}

SavesState == \A p \in Publisher : At(p, "save") => pub[p].to # "absent"

\* Every execution starts once: the part of the invariants that says which
\* publisher is at work on what.
StartInv ==
    /\ IdleIsRest /\ OwnRow /\ Unborn /\ HandedOver
    /\ EarlyOff /\ AnswersEnds /\ Called /\ FinalizerEnded /\ SavesState

-----------------------------------------------------------------------------
(* Steps of one publisher.                                                 *)

\* A local state that p may come to.
Sound(p, l) ==
    \/ l = Rest(p[2])
    \/ /\ l.at # "idle"
       /\ l.of \in Attempt
       /\ p[1] \in Role => row[l.of] # "absent"
       /\ p[1] # "finalizer" => l.of = p[2]
       /\ l.at \in Answering => l.ev \in Occasion
       /\ p[1] \in Slot => l.at \in Calling /\ l.ev = "dispatch"
       /\ l.at = "save" => l.to # "absent"

\* The same, without going back to the start of the agent.
Proper(p, l) == /\ Sound(p, l)
                /\ p[1] = "worker" /\ Early(l) => Early(pub[p])

Moves(p, l) == /\ l \in Local
               /\ pub' = [pub EXCEPT ![p] = l]

SameRows == \A e \in Attempt : row'[e] = "absent" <=> row[e] = "absent"

LEMMA Moved ==
  ASSUME TypeInv, NEW p \in Publisher, NEW l, Moves(p, l)
  PROVE  /\ pub'[p] = l
         /\ \A q \in Publisher : q # p => pub'[q] = pub[q]
         /\ \A q \in Publisher : pub'[q] \in Local
BY DEF TypeInv, TypeOK, Moves

LEMMA Names ==
  ASSUME NEW p \in Publisher
  PROVE  /\ p = <<p[1], p[2]>> /\ p[1] \in Role \cup Slot /\ p[2] \in Attempt
         /\ \A r, e : p = <<r, e>> => p[1] = r /\ p[2] = e
         /\ p[1] \in Slot => p[2] = 1
         /\ Role \cap Slot = {}
BY AttemptsAssumption DEF Publisher, Attempt, Role, Slot

LEMMA RestFacts ==
  ASSUME NEW e \in Attempt
  PROVE  /\ Rest(e).at = "idle" /\ Rest(e).ev = "none" /\ Rest(e).of = e
         /\ Rest(e).to = "absent" /\ Rest(e) \in Local
         /\ ~Early(Rest(e)) /\ "idle" \notin Answering
BY RestType DEF Rest, Early, Starts, ProjectorPcs, Answering, Calling, ListenerPcs, FailurePcs,
                CompletionPcs

LEMMA MoveKeepsLocal ==
  ASSUME TypeInv, StartInv, NEW p \in Publisher, NEW l, Moves(p, l), Sound(p, l), SameRows
  PROVE  IdleIsRest' /\ OwnRow' /\ AnswersEnds' /\ SavesState'
<1>0. /\ pub'[p] = l /\ \A q \in Publisher : q # p => pub'[q] = pub[q]
      /\ p[2] \in Attempt
  BY Moved, Names
<1>1. /\ Rest(p[2]).at = "idle" /\ Rest(p[2]).ev = "none" /\ Rest(p[2]).of = p[2]
      /\ "idle" \notin Answering
  BY <1>0, RestFacts
<1>2. IdleIsRest'
  BY <1>0, <1>1 DEF StartInv, IdleIsRest, Sound, At
<1>3. OwnRow'
  <2> SUFFICES ASSUME NEW q \in Publisher
               PROVE  /\ q[1] \in Role /\ ~At(q, "idle")' => row'[pub'[q].of] # "absent"
                      /\ q[1] # "finalizer" => pub'[q].of = q[2]
    BY DEF OwnRow
  <2>1. CASE q = p
    <3>1. pub'[q] = l
      BY <1>0, <2>1
    <3>2. CASE l = Rest(p[2])
      BY <1>1, <2>1, <3>1, <3>2 DEF At
    <3>3. CASE /\ l.of \in Attempt
               /\ p[1] \in Role => row[l.of] # "absent"
               /\ p[1] # "finalizer" => l.of = p[2]
      BY <2>1, <3>1, <3>3 DEF SameRows
    <3> QED BY <3>2, <3>3 DEF Sound
  <2>2. CASE q # p
    <3>1. pub'[q] = pub[q] /\ pub[q].of \in Attempt
      BY <1>0, <2>2 DEF TypeInv, TypeOK, Local
    <3> QED BY <3>1 DEF StartInv, OwnRow, At, SameRows
  <2> QED BY <2>1, <2>2
<1>4. AnswersEnds'
  BY <1>0, <1>1 DEF StartInv, AnswersEnds, Sound
<1>5. SavesState'
  BY <1>0, <1>1 DEF StartInv, SavesState, Sound, At
<1> QED
  BY <1>2, <1>3, <1>4, <1>5

LEMMA MoveKeeps ==
  ASSUME TypeInv, StartInv, NEW p \in Publisher, NEW l, Moves(p, l), Proper(p, l),
         ~At(p, "idle") \/ p[1] \in {"supervisor", "heartbeat"},
         SameRows, UNCHANGED <<agent, consumer>>
  PROVE  StartInv'
<1>0. /\ pub'[p] = l /\ \A q \in Publisher : q # p => pub'[q] = pub[q]
      /\ p = <<p[1], p[2]>> /\ p[2] \in Attempt
      /\ \A r, e : p = <<r, e>> => p[1] = r /\ p[2] = e
  BY Moved, Names
<1>c. Called'
  <2> SUFFICES ASSUME NEW s \in Slot, ~At(<<s, 1>>, "idle")'
               PROVE  /\ ConsumerAt(s, "called")
                      /\ pub'[<<s, 1>>].at \in Calling /\ pub'[<<s, 1>>].ev = "dispatch"
    BY DEF Called, ConsumerAt
  <2>1. <<s, 1>> \in Publisher
    BY Publishers
  <2>2. CASE <<s, 1>> = p
    <3>1. p[1] = s /\ p[1] \notin {"supervisor", "heartbeat"} /\ Rest(p[2]).at = "idle"
      BY <1>0, <2>2, RestFacts DEF Slot
    <3>2. ConsumerAt(s, "called")
      BY <2>2, <3>1 DEF StartInv, Called
    <3>3. l.at \in Calling /\ l.ev = "dispatch"
      BY <1>0, <2>2, <3>1 DEF Proper, Sound, At
    <3> QED BY <1>0, <2>2, <3>2, <3>3
  <2>3. CASE <<s, 1>> # p
    BY <1>0, <2>1, <2>3 DEF StartInv, Called, At
  <2> QED BY <2>2, <2>3
<1>1. IdleIsRest' /\ OwnRow' /\ AnswersEnds' /\ SavesState'
  BY MoveKeepsLocal DEF Proper
<1>4. Unborn'
  BY DEF StartInv, Unborn, SameRows
<1>5. HandedOver'
  <2> SUFFICES ASSUME NEW s \in Slot, ConsumerAt(s, "created")
               PROVE  At(<<"worker", consumer[s].new>>, "idle")'
    BY DEF StartInv, HandedOver, ConsumerAt
  <2>1. consumer[s].new \in Attempt /\ At(<<"worker", consumer[s].new>>, "idle")
    BY DEF StartInv, HandedOver
  <2>2. <<"worker", consumer[s].new>> \in Publisher
    BY <2>1, Publishers
  <2>3. ASSUME <<"worker", consumer[s].new>> = p PROVE FALSE
    <3>1. p[1] = "worker" /\ At(p, "idle")
      BY <2>1, <2>3
    <3> QED BY <3>1
  <2> QED BY <1>0, <2>1, <2>2, <2>3 DEF At
<1>6. EarlyOff'
  <2> SUFFICES ASSUME NEW e \in Attempt, Early(Worker(e)')
               PROVE  agent[e] = "off"
    BY DEF EarlyOff, Early, Worker
  <2>1. <<"worker", e>> \in Publisher
    BY Publishers
  <2>2. CASE <<"worker", e>> = p
    BY <1>0, <2>1, <2>2 DEF StartInv, EarlyOff, Proper, Worker
  <2>3. CASE <<"worker", e>> # p
    BY <1>0, <2>1, <2>3 DEF StartInv, EarlyOff, Worker
  <2> QED BY <2>2, <2>3
<1>8. FinalizerEnded'
  <2> SUFFICES ASSUME NEW e \in Attempt, ~At(<<"finalizer", e>>, "idle")'
               PROVE  agent[e] \in {"ok", "bad"}
    BY DEF FinalizerEnded
  <2>1. <<"finalizer", e>> \in Publisher
    BY Publishers
  <2>2. ~At(<<"finalizer", e>>, "idle")
    BY <1>0, <2>1 DEF At
  <2> QED BY <2>2 DEF StartInv, FinalizerEnded
<1> QED
  BY <1>1, <1>c, <1>4, <1>5, <1>6, <1>8 DEF StartInv

-----------------------------------------------------------------------------
(* What the parts of a publisher's step do to its local state.             *)

SameEvent(l, k) == l.ev = k.ev /\ l.of = k.of

\* The listener has returned to the publisher.
Heeded(p, l) ==
    \/ p[1] # "worker" /\ ~ListenerFirst /\ l = Rest(p[2])
    \/ /\ SameEvent(l, pub[p])
       /\ \/ ListenerFirst /\ l.at = "project" /\ l.to = pub[p].to
          \/ ~ListenerFirst /\ p[1] = "worker" /\ l.at = Published(p) /\ l.to = "absent"

\* The engine has answered.
Replied(p, l) ==
    \/ pub[p].ev = "turn_end" /\ l.at = "cleanup" /\ SameEvent(l, pub[p]) /\ l.to = pub[p].to
    \/ pub[p].ev = "dispatch" /\ l = Rest(p[2])
    \/ pub[p].ev \notin {"turn_end", "dispatch"} /\ Heeded(p, l)

\* The projector has applied, or refused, a transition.
HalfCompleted(k) == k.ev = "completed" /\ k.to = "completing"
Applied(p, l) ==
    \/ ~HalfCompleted(pub[p]) /\ p[1] # "worker" /\ l = Rest(p[2])
    \/ /\ SameEvent(l, pub[p])
       /\ \/ HalfCompleted(pub[p]) /\ l.at = "project" /\ l.to = "completed"
          \/ /\ ~HalfCompleted(pub[p])
             /\ \/ /\ l.at = "context" /\ l.to = pub[p].to
                   /\ pub[p].ev \in Ending /\ ~ListenerFirst
                \/ l.at = Published(p) /\ p[1] = "worker" /\ l.to = "absent"

LEMMA GotoMoves ==
  ASSUME TypeInv, NEW p \in Publisher, NEW pc \in Pcs, Goto(p, pc)
  PROVE  \E l : Moves(p, l) /\ l.at = pc /\ SameEvent(l, pub[p]) /\ l.to = pub[p].to
                  /\ l.tries = pub[p].tries
<1> DEFINE l == [pub[p] EXCEPT !.at = pc]
<1>1. pub[p] \in Local /\ pub' = [pub EXCEPT ![p] = l]
  BY Carried DEF Goto
<1>2. /\ l \in Local /\ l.at = pc /\ l.ev = pub[p].ev /\ l.of = pub[p].of
      /\ l.to = pub[p].to /\ l.tries = pub[p].tries
  BY <1>1 DEF Local
<1> QED
  BY <1>1, <1>2 DEF Moves, SameEvent

LEMMA PublishMoves ==
  ASSUME TypeInv, NEW p \in Publisher, NEW ev \in Event, NEW e \in Attempt,
         Publish(p, ev, e)
  PROVE  \E l : /\ Moves(p, l)
                /\ l.at = IF ev \in Ending /\ ListenerFirst THEN "context" ELSE "project"
                /\ l.ev = ev /\ l.of = e /\ l.to = Projection(ev) /\ l.tries = 0
<1> DEFINE l == Publishing(pub[p], ev, e)
<1>1. pub[p] \in Local /\ Projection(ev) \in State /\ "context" \in Pcs /\ "project" \in Pcs
  BY Carried, States, Labels DEF ListenerPcs, ProjectorPcs
<1>2. /\ l \in Local
      /\ l.at = IF ev \in Ending /\ ListenerFirst THEN "context" ELSE "project"
      /\ l.ev = ev /\ l.of = e /\ l.to = Projection(ev) /\ l.tries = 0
  BY <1>1 DEF Publishing, Local
<1>3. pub' = [pub EXCEPT ![p] = l]
  BY Carried DEF Publish
<1> QED
  BY <1>2, <1>3 DEF Moves

LEMMA RestingMoves ==
  ASSUME TypeInv, NEW p \in Publisher, pub' = Resting(p)
  PROVE  \E l : /\ Moves(p, l)
                /\ \/ p[1] # "worker" /\ l = Rest(p[2])
                   \/ /\ p[1] = "worker" /\ SameEvent(l, pub[p])
                      /\ l.at = Published(p) /\ l.to = "absent"
<1>1. pub[p] \in Local /\ pub \in [Publisher -> Local] /\ p[2] \in Attempt
  BY Carried, Publishers
<1>2. CASE p[1] # "worker"
  <2>1. Published(p) = "idle"
    BY <1>2 DEF Published
  <2>2. pub' = [pub EXCEPT ![p] = Rest(p[2])]
    BY <2>1 DEF Resting
  <2> QED BY <1>1, <1>2, <2>2, RestFacts DEF Moves
<1>3. CASE p[1] = "worker"
  <2> DEFINE l == [pub[p] EXCEPT !.at = Published(p), !.to = "absent", !.tries = 0]
  <2>1. Published(p) \in {"kill", "start", "release"}
    BY <1>3 DEF Published
  <2>2. Published(p) \in Pcs /\ Published(p) # "idle"
    BY <2>1 DEF Pcs, WorkerPcs
  <2>3. pub' = [pub EXCEPT ![p] = l]
    BY <1>1, <2>2 DEF Resting
  <2>4. l \in Local /\ l.at = Published(p) /\ l.to = "absent" /\ l.ev = pub[p].ev /\ l.of = pub[p].of
    BY <1>1, <2>2, States DEF Local
  <2> QED BY <1>3, <2>3, <2>4 DEF Moves, SameEvent
<1> QED
  BY <1>2, <1>3

LEMMA ListenerDoneMoves ==
  ASSUME TypeInv, NEW p \in Publisher, ListenerDone(p)
  PROVE  \E l : Moves(p, l) /\ Heeded(p, l)
<1>1. CASE ListenerFirst
  <2>1. Goto(p, "project") /\ "project" \in Pcs
    BY <1>1, Labels DEF ListenerDone, ProjectorPcs
  <2> QED BY <1>1, <2>1, GotoMoves DEF Heeded
<1>2. CASE ~ListenerFirst
  <2>1. pub' = Resting(p)
    BY <1>2 DEF ListenerDone
  <2> QED BY <1>2, <2>1, RestingMoves DEF Heeded
<1> QED
  BY <1>1, <1>2

LEMMA AnsweredMoves ==
  ASSUME TypeInv, NEW p \in Publisher, Answered(p)
  PROVE  \E l : Moves(p, l) /\ Replied(p, l)
<1>1. CASE pub[p].ev = "turn_end"
  <2>1. Goto(p, "cleanup") /\ "cleanup" \in Pcs
    BY <1>1, PcsOf DEF Answered
  <2> QED BY <1>1, <2>1, GotoMoves DEF Replied
<1>2. CASE pub[p].ev \notin {"turn_end", "dispatch"}
  <2>1. ListenerDone(p)
    BY <1>2 DEF Answered
  <2> QED BY <1>2, <2>1, ListenerDoneMoves DEF Replied
<1>3. CASE pub[p].ev = "dispatch"
  <2>1. pub' = [pub EXCEPT ![p] = Rest(p[2])]
    BY <1>3 DEF Answered
  <2>2. Moves(p, Rest(p[2]))
    BY <2>1, Names, RestFacts DEF Moves
  <2> QED BY <1>3, <2>2 DEF Replied
<1> QED
  BY <1>1, <1>2, <1>3

LEMMA ProjectedMoves ==
  ASSUME TypeInv, NEW p \in Publisher, Projected(p)
  PROVE  \E l : Moves(p, l) /\ Applied(p, l)
<1>1. pub[p] \in Local
  BY Carried
<1>2. CASE HalfCompleted(pub[p])
  <2> DEFINE l == [pub[p] EXCEPT !.at = "project", !.to = "completed"]
  <2>1. pub' = [pub EXCEPT ![p] = l]
    BY <1>2, Carried DEF Projected, HalfCompleted
  <2>2. l \in Local /\ l.at = "project" /\ l.to = "completed" /\ l.ev = pub[p].ev /\ l.of = pub[p].of
    BY <1>1, States, Labels DEF Local, ProjectorPcs
  <2> QED BY <1>2, <2>1, <2>2 DEF Moves, Applied, SameEvent
<1>3. CASE ~HalfCompleted(pub[p])
  <2>1. ProjectorDone(p)
    BY <1>3 DEF Projected, HalfCompleted
  <2>2. CASE pub[p].ev \in Ending /\ ~ListenerFirst
    <3>1. Goto(p, "context") /\ "context" \in Pcs
      BY <2>1, <2>2, Labels DEF ProjectorDone, ListenerPcs
    <3> QED BY <1>3, <2>2, <3>1, GotoMoves DEF Applied
  <2>3. CASE ~(pub[p].ev \in Ending /\ ~ListenerFirst)
    <3>1. pub' = Resting(p)
      BY <2>1, <2>3 DEF ProjectorDone
    <3> QED BY <1>3, <3>1, RestingMoves DEF Applied
  <2> QED BY <2>2, <2>3
<1> QED
  BY <1>2, <1>3

LEMMA Pcs3 ==
  /\ \A pc \in Answering : /\ pc \in Pcs /\ pc # "idle" /\ pc \notin Starts
                           /\ pc \notin ProjectorPcs /\ pc # "save" /\ pc # "cleanup"
  /\ "project" \in ProjectorPcs /\ "save" \in ProjectorPcs /\ "context" \in Answering
  /\ {"cleanup", "release", "await", "probe", "find", "idle"} \cap (Answering \cup Starts \cup ProjectorPcs) = {}
  /\ {"project", "save"} \cap (Answering \cup Starts) = {}
  /\ Calling \subseteq Answering /\ {"context", "siblings"} \cap Calling = {}
  /\ "turn_end" \in Occasion /\ "dispatch" \in Occasion
  /\ Ending \subseteq Occasion
BY DEF Answering, Calling, Occasion, Ending, ListenerPcs, FailurePcs, CompletionPcs, ProjectorPcs, WorkerPcs, Pcs, Starts

\* Only a publisher of events has subscribers.
LEMMA ProjectorRole ==
  ASSUME TypeInv, StartInv, NEW p \in Publisher, pub[p].at \in ProjectorPcs \cup ListenerPcs
  PROVE  p[1] \notin Slot
<1>1. ~At(p, "idle") /\ pub[p].at \notin Calling
  BY DEF At, Calling, ProjectorPcs, ListenerPcs, FailurePcs, CompletionPcs
<1> QED
  BY <1>1, Names DEF StartInv, Called

\* The subscribers never lead a publisher back to the start of the agent.
LEMMA HeededProper ==
  ASSUME TypeInv, StartInv, NEW p \in Publisher, NEW l \in Local, Heeded(p, l),
         pub[p].at \in Answering, p[1] \notin Slot
  PROVE  Proper(p, l)
<1>1. pub[p].at # "idle" /\ pub[p].of \in Attempt /\ pub[p].ev \in Occasion
      /\ p[1] \in Role
  BY Pcs3, Carried, Names DEF StartInv, AnswersEnds, Local
<1>2. row[pub[p].of] # "absent" /\ (p[1] # "finalizer" => pub[p].of = p[2])
  BY <1>1 DEF StartInv, OwnRow, At
<1>3. pub[p].ev \notin Provisions
  BY <1>1 DEF Provisions, Ending, Occasion
<1>4. CASE SameEvent(l, pub[p]) /\ l.at = "project"
  BY <1>1, <1>2, <1>3, <1>4, Pcs3 DEF Proper, Sound, SameEvent, Early
<1>5. CASE SameEvent(l, pub[p]) /\ p[1] = "worker" /\ l.at = Published(p)
  <2>1. l.at = "release"
    BY <1>3, <1>5 DEF Published, Provisions
  <2> QED BY <1>1, <1>2, <1>5, <2>1, Pcs3 DEF Proper, Sound, SameEvent, Early
<1>9. CASE l = Rest(p[2])
  BY <1>9, Names, RestFacts DEF Proper, Sound
<1> QED
  BY <1>9, <1>4, <1>5 DEF Heeded

LEMMA RepliedProper ==
  ASSUME TypeInv, StartInv, NEW p \in Publisher, NEW l \in Local, Replied(p, l),
         pub[p].at \in Answering
  PROVE  Proper(p, l)
<1>1. pub[p].at # "idle" /\ pub[p].of \in Attempt
  BY Pcs3, Carried DEF Local
<1>2. CASE l = Rest(p[2])
  BY <1>2, Names, RestFacts DEF Proper, Sound
<1>3. CASE p[1] \notin Slot /\ l.at = "cleanup" /\ SameEvent(l, pub[p])
  <2>1. row[pub[p].of] # "absent" /\ (p[1] # "finalizer" => pub[p].of = p[2])
    BY <1>1, <1>3, Names DEF StartInv, OwnRow, At
  <2> QED BY <1>1, <1>3, <2>1, Pcs3 DEF Proper, Sound, SameEvent, Early
<1>4. CASE p[1] \notin Slot /\ Heeded(p, l)
  BY <1>4, HeededProper
<1>5. p[1] \in Slot => pub[p].ev = "dispatch"
  BY <1>1, Names DEF StartInv, Called, At
<1> QED
  BY <1>2, <1>3, <1>4, <1>5 DEF Replied

LEMMA AppliedProper ==
  ASSUME TypeInv, StartInv, NEW p \in Publisher, NEW l \in Local, Applied(p, l),
         pub[p].at \in ProjectorPcs
  PROVE  Proper(p, l)
<1>1. pub[p].at # "idle" /\ pub[p].of \in Attempt /\ p[1] \notin Slot
  BY Pcs3, Carried, ProjectorRole DEF Local
<1>2. row[pub[p].of] # "absent" /\ (p[1] # "finalizer" => pub[p].of = p[2])
  BY <1>1, Names DEF StartInv, OwnRow, At
<1>3. CASE SameEvent(l, pub[p]) /\ l.at = "project" /\ HalfCompleted(pub[p])
  BY <1>1, <1>2, <1>3, Pcs3 DEF Proper, Sound, SameEvent, Early, Provisions, HalfCompleted
<1>4. CASE SameEvent(l, pub[p]) /\ l.at = "context" /\ pub[p].ev \in Ending
  BY <1>1, <1>2, <1>4, Pcs3 DEF Proper, Sound, SameEvent, Early
<1>5. CASE SameEvent(l, pub[p]) /\ p[1] = "worker" /\ l.at = Published(p)
  <2>1. CASE pub[p].ev \in Provisions
    <3>1. Early(pub[p]) /\ l.at \in {"kill", "start"}
      BY <1>5, <2>1 DEF Published, Provisions, Early
    <3> QED BY <1>1, <1>2, <1>5, <3>1, Pcs3 DEF Proper, Sound, SameEvent, Starts
  <2>2. CASE pub[p].ev \notin Provisions
    <3>1. l.at = "release"
      BY <1>5, <2>2 DEF Published, Provisions
    <3> QED BY <1>1, <1>2, <1>5, <3>1, Pcs3 DEF Proper, Sound, SameEvent, Early
  <2> QED BY <2>1, <2>2
<1>9. CASE l = Rest(p[2])
  BY <1>9, Names, RestFacts DEF Proper, Sound
<1> QED
  BY <1>9, <1>3, <1>4, <1>5 DEF Applied

-----------------------------------------------------------------------------
(* Every execution starts once: one lemma per kind of step.                *)

LEMMA GotoKeeps ==
  ASSUME TypeInv, StartInv, NEW p \in Publisher, NEW pc \in Pcs, Goto(p, pc),
         pc # "idle", ~At(p, "idle"),
         pc \in Answering => pub[p].ev \in Occasion,
         p[1] \in Slot => pc \in Calling,
         p[1] = "worker" /\ (pc \in Starts \/ (pc \in ProjectorPcs /\ pub[p].ev \in Provisions))
            => Early(pub[p]),
         pc = "save" => pub[p].to # "absent",
         SameRows, UNCHANGED <<agent, consumer>>
  PROVE  StartInv'
<1>1. PICK l : Moves(p, l) /\ l.at = pc /\ SameEvent(l, pub[p]) /\ l.to = pub[p].to
  BY GotoMoves
<1>2. /\ pub[p].of \in Attempt /\ (p[1] \in Role => row[pub[p].of] # "absent")
      /\ p[1] # "finalizer" => pub[p].of = p[2]
      /\ p[1] \in Slot => pub[p].ev = "dispatch"
  BY Carried, Names DEF StartInv, OwnRow, Called, Local
<1>3. Proper(p, l)
  BY <1>1, <1>2 DEF Proper, Sound, SameEvent, Early
<1> QED
  BY <1>1, <1>3, MoveKeeps

LEMMA AnsweredKeeps ==
  ASSUME TypeInv, StartInv, NEW p \in Publisher, pub[p].at \in Answering,
         \/ Answered(p)
         \/ ListenerDone(p) /\ pub[p].at \in ListenerPcs,
         SameRows, UNCHANGED <<agent, consumer>>
  PROVE  StartInv'
<1>1. PICK l : Moves(p, l) /\ (Replied(p, l) \/ (Heeded(p, l) /\ p[1] \notin Slot))
  BY AnsweredMoves, ListenerDoneMoves, ProjectorRole
<1>2. l \in Local /\ ~At(p, "idle")
  BY <1>1, Pcs3 DEF Moves, At
<1>3. Proper(p, l)
  BY <1>1, <1>2, RepliedProper, HeededProper
<1> QED
  BY <1>1, <1>2, <1>3, MoveKeeps

LEMMA ProjectedKeeps ==
  ASSUME TypeInv, StartInv, NEW p \in Publisher, pub[p].at \in ProjectorPcs,
         Projected(p), SameRows, UNCHANGED <<agent, consumer>>
  PROVE  StartInv'
<1>1. PICK l : Moves(p, l) /\ Applied(p, l)
  BY ProjectedMoves
<1>2. l \in Local /\ ~At(p, "idle")
  BY <1>1, Pcs3 DEF Moves, At
<1>3. Proper(p, l)
  BY <1>1, <1>2, AppliedProper
<1> QED
  BY <1>1, <1>2, <1>3, MoveKeeps

\* A listener or handler of the engine takes its next step.
LEMMA AnswerKeeps ==
  ASSUME TypeInv, StartInv, NEW p \in Publisher, NEW pc \in Answering, Goto(p, pc),
         pub[p].at \in Answering, pc = "siblings" => pub[p].at \in ListenerPcs,
         pc # "context", SameRows, UNCHANGED <<agent, consumer>>
  PROVE  StartInv'
<1>1. pc \in Pcs /\ pc # "idle" /\ pc \notin Starts /\ pc \notin ProjectorPcs /\ pc # "save" /\ ~At(p, "idle")
  BY Pcs3 DEF At
<1>2. pub[p].ev \in Occasion
  BY DEF StartInv, AnswersEnds
<1>3. p[1] \in Slot => pc \in Calling
  BY ProjectorRole DEF Answering, ListenerPcs
<1> QED
  BY <1>1, <1>2, <1>3, GotoKeeps

LEMMA SameRowsStay ==
  ASSUME UNCHANGED row
  PROVE  SameRows
BY DEF SameRows

LEMMA AnsweringPcs ==
  /\ {"context", "siblings", "policy", "set_attempt", "set_marker", "set_step", "add",
      "clear_failed", "fail_run", "close_run", "gate_completion", "claim", "clear_retry"} = Answering
  /\ {"context", "siblings"} = ListenerPcs
BY DEF Answering, Calling, ListenerPcs, FailurePcs, CompletionPcs

LEMMA EdgeFacts ==
  /\ \A s : "absent" \notin Edges(s)
  /\ Edges("absent") = {}
  /\ \A s : "completing" \in Edges(s) => s = "running"
  /\ \A s : "completed" \in Edges(s) => s = "completing"
BY DEF Edges

LEMMA HandleStart ==
  ASSUME TypeInv, StartInv, NEW p \in Publisher, Handle(p)
  PROVE  StartInv'
<1>0. pub[p] \in Local /\ pub \in [Publisher -> Local] /\ pub[p].of \in Attempt
  BY Carried DEF Local
<1>1. CASE ReadContext(p)
  BY <1>1, SameRowsStay, AnsweringPcs, AnswerKeeps, AnsweredKeeps DEF ReadContext, At, world, queue
<1>2. CASE CheckSiblings(p)
  BY <1>2, SameRowsStay, AnsweringPcs, AnswerKeeps, AnsweredKeeps DEF CheckSiblings, At, world, queue
<1>3. CASE GateCompletion(p)
  BY <1>3, SameRowsStay, AnsweringPcs, AnswerKeeps, AnsweredKeeps DEF GateCompletion, At, world, queue
<1>4. CASE ClaimCompletion(p)
  BY <1>4, SameRowsStay, AnsweringPcs, AnswerKeeps, AnsweredKeeps DEF ClaimCompletion, At, world, queue
<1>5. CASE ClearRetryState(p)
  BY <1>5, SameRowsStay, AnsweringPcs, AnsweredKeeps DEF ClearRetryState, At, world, queue
<1>6. CASE DecideRetry(p)
  <2>0. /\ pub[p].at \in Answering /\ ~At(p, "idle") /\ SameRows /\ UNCHANGED <<agent, consumer>>
    BY <1>6, SameRowsStay, AnsweringPcs DEF DecideRetry, At, world, queue
  <2>1. CASE Answered(p)
    BY <2>0, <2>1, AnsweredKeeps
  <2>2. CASE Goto(p, "clear_failed")
    BY <2>0, <2>2, AnsweringPcs, AnswerKeeps
  <2>3. CASE pub' = [pub EXCEPT ![p] = [@ EXCEPT !.at = "set_attempt", !.tries = attempt]]
    <3> DEFINE l == [pub[p] EXCEPT !.at = "set_attempt", !.tries = attempt]
    <3>1. attempt \in Nat
      BY AttemptsAssumption DEF TypeInv, TypeOK
    <3>2. /\ l \in Local /\ l.at = "set_attempt" /\ l.ev = pub[p].ev /\ l.of = pub[p].of
      BY <1>0, <3>1, PcsOf DEF Local
    <3>3. Moves(p, l)
      BY <1>0, <2>3, <3>2 DEF Moves
    <3>4. /\ pub[p].ev \in Occasion /\ (p[1] \in Role => row[pub[p].of] # "absent")
          /\ (p[1] # "finalizer" => pub[p].of = p[2])
          /\ p[1] \in Slot => pub[p].ev = "dispatch"
      BY <2>0, Names DEF StartInv, AnswersEnds, OwnRow, Called
    <3>5. Proper(p, l)
      <4>1. "set_attempt" \in Calling
        BY DEF Calling, FailurePcs
      <4> QED BY <1>0, <3>2, <3>4, <4>1, Pcs3, AnsweringPcs DEF Proper, Sound, Early
    <3> QED BY <2>0, <3>3, <3>5, MoveKeeps
  <2> QED BY <1>6, <2>1, <2>2, <2>3 DEF DecideRetry
<1>7. CASE SetAttempt(p)
  BY <1>7, SameRowsStay, AnsweringPcs, AnswerKeeps DEF SetAttempt, At, world, queue
<1>8. CASE SetMarker(p)
  BY <1>8, SameRowsStay, AnsweringPcs, AnswerKeeps DEF SetMarker, At, world, queue
<1>s. CASE SetStep(p)
  BY <1>s, SameRowsStay, AnsweringPcs, AnswerKeeps DEF SetStep, At, world, queue
<1>9. CASE AddRetry(p)
  BY <1>9, SameRowsStay, AnsweringPcs, AnsweredKeeps DEF AddRetry, At, world
<1>10. CASE ClearFailed(p)
  BY <1>10, SameRowsStay, AnsweringPcs, AnswerKeeps DEF ClearFailed, At, world, queue
<1>11. CASE FailRun(p)
  BY <1>11, SameRowsStay, AnsweringPcs, AnswerKeeps DEF FailRun, At, world, queue
<1>12. CASE CloseRun(p)
  BY <1>12, SameRowsStay, AnsweringPcs, AnsweredKeeps DEF CloseRun, At
<1>13. CASE Project(p)
  <2>0. pub[p].at \in ProjectorPcs /\ ~At(p, "idle") /\ SameRows /\ UNCHANGED <<agent, consumer>>
    BY <1>13, SameRowsStay, Pcs3 DEF Project, At, world, queue
  <2>1. CASE Projected(p)
    BY <2>0, <2>1, ProjectedKeeps
  <2>2. CASE pub[p].to \in Edges(row[pub[p].of]) /\ Goto(p, "save")
    <3>1. pub[p].to # "absent"
      BY <2>2, EdgeFacts
    <3>2. "save" \in Pcs /\ "save" # "idle" /\ "save" \notin Answering /\ "save" \notin Starts
      BY PcsOf, Pcs3
    <3> QED BY <2>0, <2>2, <3>1, <3>2, ProjectorRole, GotoKeeps DEF Early
  <2> QED BY <1>13, <2>1, <2>2 DEF Project
<1>14. CASE Save(p)
  <2>1. pub[p].at \in ProjectorPcs /\ UNCHANGED <<agent, consumer>> /\ ~At(p, "idle")
    BY <1>14, Pcs3 DEF Save, At, world, queue
  <2>2. pub[p].to # "absent" /\ row[pub[p].of] # "absent"
    BY <1>14, <2>1, ProjectorRole, Names DEF Save, StartInv, SavesState, OwnRow
  <2>3. SameRows
    BY <1>0, <1>14, <2>2 DEF Save, SameRows, TypeInv, TypeOK
  <2> QED BY <1>14, <2>1, <2>3, ProjectedKeeps DEF Save
<1> QED
  BY <1>1, <1>2, <1>3, <1>4, <1>5, <1>6, <1>7, <1>8, <1>s, <1>9, <1>10, <1>11, <1>12, <1>13, <1>14
     DEF Handle

LEMMA PublishKeeps ==
  ASSUME TypeInv, StartInv, NEW p \in Publisher, NEW ev \in Event, NEW e \in Attempt,
         Publish(p, ev, e),
         ~At(p, "idle") \/ p[1] \in {"supervisor", "heartbeat"},
         row[e] # "absent", p[1] \in Role, p[1] # "finalizer" => e = p[2],
         p[1] = "worker" /\ ev \in Provisions => Early(pub[p]),
         SameRows, UNCHANGED <<agent, consumer>>
  PROVE  StartInv'
<1>1. PICK l : /\ Moves(p, l)
               /\ l.at = IF ev \in Ending /\ ListenerFirst THEN "context" ELSE "project"
               /\ l.ev = ev /\ l.of = e
  BY PublishMoves
<1>2. l.at \in {"context", "project"} /\ (l.at = "context" => ev \in Ending)
  BY <1>1
<1>3. Proper(p, l)
  BY <1>1, <1>2, Pcs3, Names DEF Proper, Sound, Early
<1> QED
  BY <1>1, <1>3, MoveKeeps

LEMMA RestKeeps ==
  ASSUME TypeInv, StartInv, NEW p \in Publisher, pub' = [pub EXCEPT ![p] = Rest(p[2])],
         ~At(p, "idle"), UNCHANGED <<row, agent, consumer>>
  PROVE  StartInv'
<1>1. Moves(p, Rest(p[2])) /\ Proper(p, Rest(p[2]))
  BY Names, RestFacts DEF Moves, Proper, Sound
<1> QED
  BY <1>1, MoveKeeps, SameRowsStay

\* The agent starts once: nobody has heard of its end.
LEMMA StartAgentStart ==
  ASSUME TypeInv, StartInv, NEW e \in Attempt, StartAgent(e), e \in up
  PROVE  StartInv'
<1> DEFINE p == <<"worker", e>>
<1>0. /\ p \in Publisher /\ p[1] = "worker" /\ p[2] = e /\ p[1] # "finalizer"
      /\ pub[p].at = "start" /\ Goto(p, "await") /\ UNCHANGED <<row, consumer>>
      /\ agent' = [agent EXCEPT ![e] = "working"]
      /\ agent \in [Attempt -> {"off", "working", "ok", "bad"}]
  BY Publishers DEF StartAgent, At, TypeInv, TypeOK, queue
<1>1. PICK l : Moves(p, l) /\ l.at = "await" /\ SameEvent(l, pub[p])
  BY <1>0, PcsOf, GotoMoves
<1>2. pub'[p] = l /\ \A q \in Publisher : q # p => pub'[q] = pub[q]
  BY <1>0, <1>1, Moved
<1>3. pub[p].of = e /\ row[e] # "absent" /\ Early(Worker(e)) /\ agent[e] = "off"
  <2>1. pub[p].of = e /\ row[e] # "absent"
    BY <1>0 DEF StartInv, OwnRow, At, Role
  <2>2. Early(Worker(e))
    BY <1>0 DEF Early, Worker, Starts
  <2> QED BY <2>1, <2>2 DEF StartInv, EarlyOff
<1>4. Sound(p, l)
  BY <1>0, <1>1, <1>3, Pcs3 DEF Sound, SameEvent, Slot
<1>c. Called'
  BY <1>0, <1>2, Publishers DEF StartInv, Called, ConsumerAt, At, Slot
<1>5. IdleIsRest' /\ OwnRow' /\ AnswersEnds' /\ SavesState'
  BY <1>0, <1>1, <1>4, MoveKeepsLocal, SameRowsStay
<1>6. Unborn'
  BY <1>0, <1>3 DEF StartInv, Unborn
<1>7. HandedOver'
  <2> SUFFICES ASSUME NEW s \in Slot, ConsumerAt(s, "created")
               PROVE  /\ At(<<"worker", consumer[s].new>>, "idle")'
                      /\ agent'[consumer[s].new] = "off"
    BY <1>0 DEF StartInv, HandedOver, ConsumerAt
  <2>1. /\ consumer[s].new \in Attempt /\ At(<<"worker", consumer[s].new>>, "idle")
        /\ agent[consumer[s].new] = "off"
    BY DEF StartInv, HandedOver
  <2>2. <<"worker", consumer[s].new>> \in Publisher /\ <<"worker", consumer[s].new>> # p
    BY <1>0, <2>1, Publishers DEF At
  <2> QED BY <1>0, <1>2, <2>1, <2>2 DEF At
<1>8. EarlyOff'
  <2> SUFFICES ASSUME NEW x \in Attempt, Early(Worker(x)')
               PROVE  agent'[x] = "off"
    BY DEF EarlyOff, Early, Worker
  <2>1. CASE x = e
    BY <1>1, <1>2, <2>1, Pcs3 DEF Early, Worker
  <2>2. CASE x # e
    BY <1>0, <1>2, <2>2, Publishers DEF StartInv, EarlyOff, Worker
  <2> QED BY <2>1, <2>2
<1>9. FinalizerEnded'
  <2> SUFFICES ASSUME NEW x \in Attempt, ~At(<<"finalizer", x>>, "idle")'
               PROVE  agent'[x] \in {"ok", "bad"}
    BY DEF FinalizerEnded
  <2>1. <<"finalizer", x>> \in Publisher /\ <<"finalizer", x>> # p
    BY Publishers
  <2>2. agent[x] \in {"ok", "bad"}
    BY <1>2, <2>1 DEF StartInv, FinalizerEnded, At
  <2> QED BY <1>0, <1>3, <2>2
<1> QED
  BY <1>5, <1>c, <1>6, <1>7, <1>8, <1>9 DEF StartInv

LEMMA WorkStart ==
  ASSUME TypeInv, StartInv, NEW e \in Attempt, Work(e)
  PROVE  StartInv'
<1> DEFINE p == <<"worker", e>>
<1>0. /\ p \in Publisher /\ p[1] = "worker" /\ p[2] = e /\ p[1] # "finalizer"
      /\ pub[p] \in Local /\ pub \in [Publisher -> Local]
      /\ {"provisioning", "provisioned", "failed", "completed"} \subseteq Event
      /\ p[1] \in Role /\ p[1] \notin Slot
  BY Carried, Publishers DEF Event, Role, Slot
<1>1. /\ pub[p].of = e
      /\ ~At(p, "idle") => row[e] # "absent"
  BY <1>0 DEF StartInv, OwnRow
<1>2. CASE ClaimLease(e)
  <2>1. ~At(p, "idle") /\ Early(pub[p]) /\ SameRows /\ UNCHANGED <<agent, consumer>>
    BY <1>2, SameRowsStay DEF ClaimLease, At, Early, Starts, world, queue
  <2>2. Publish(p, "provisioning", e) \/ Publish(p, "failed", e)
    BY <1>2 DEF ClaimLease
  <2> QED BY <1>0, <1>1, <2>1, <2>2, PublishKeeps
<1>3. CASE KillStale(e)
  <2>1. ~At(p, "idle") /\ Early(pub[p]) /\ SameRows /\ UNCHANGED <<agent, consumer>>
    BY <1>3, SameRowsStay DEF KillStale, At, Early, Starts, queue
  <2> QED BY <1>0, <1>3, <2>1, PcsOf, Pcs3, GotoKeeps DEF KillStale, Answering, Calling, ListenerPcs, FailurePcs, CompletionPcs
<1>4. CASE Provision(e)
  <2>1. ~At(p, "idle") /\ Early(pub[p]) /\ SameRows /\ UNCHANGED <<agent, consumer>>
    BY <1>4, SameRowsStay DEF Provision, At, Early, Starts, queue
  <2>2. CASE Publish(p, "provisioned", e)
    BY <1>0, <1>1, <2>1, <2>2, PublishKeeps
  <2>3. CASE Goto(p, "cleanup")
    BY <1>0, <2>1, <2>3, PcsOf, Pcs3, GotoKeeps
  <2> QED BY <1>4, <2>2, <2>3 DEF Provision
<1>5. CASE StartAgent(e)
  <2>1. CASE e \in up
    BY <1>5, <2>1, StartAgentStart
  <2>2. CASE e \notin up
    <3>1. ~At(p, "idle") /\ SameRows /\ UNCHANGED <<agent, consumer>> /\ Goto(p, "cleanup")
      BY <1>5, <2>2, SameRowsStay DEF StartAgent, At, queue
    <3> QED BY <1>0, <3>1, PcsOf, Pcs3, GotoKeeps
  <2> QED BY <2>1, <2>2
<1>6. CASE TurnEnds(e)
  <2>1. ~At(p, "idle") /\ SameRows /\ UNCHANGED <<agent, consumer>>
    BY <1>6, SameRowsStay DEF TurnEnds, At, queue, world
  <2>2. CASE pub' = [pub EXCEPT ![p] = [@ EXCEPT !.at = "gate_completion", !.ev = "turn_end"]]
    <3> DEFINE l == [pub[p] EXCEPT !.at = "gate_completion", !.ev = "turn_end"]
    <3>1. l \in Local /\ l.at = "gate_completion" /\ l.ev = "turn_end" /\ l.of = e
      BY <1>0, <1>1, PcsOf DEF Local
    <3>2. Moves(p, l)
      BY <1>0, <2>2, <3>1 DEF Moves
    <3>3. Proper(p, l)
      BY <1>0, <1>1, <2>1, <3>1, Pcs3, AnsweringPcs DEF Proper, Sound, Early
    <3> QED BY <1>0, <2>1, <3>2, <3>3, MoveKeeps
  <2>3. CASE Goto(p, "cleanup")
    BY <1>0, <2>1, <2>3, PcsOf, Pcs3, GotoKeeps
  <2> QED BY <1>6, <2>2, <2>3 DEF TurnEnds
<1>7. CASE Cleanup(e)
  <2>1. ~At(p, "idle") /\ SameRows /\ UNCHANGED <<agent, consumer>>
    BY <1>7, SameRowsStay DEF Cleanup, At, queue
  <2>2. Publish(p, "completed", e) \/ Publish(p, "failed", e)
    BY <1>7 DEF Cleanup
  <2> QED BY <1>0, <1>1, <2>1, <2>2, PublishKeeps DEF Provisions
<1>8. CASE ReleaseLease(e)
  BY <1>0, <1>8, RestKeeps DEF ReleaseLease, At, queue, world
<1> QED
  BY <1>2, <1>3, <1>4, <1>5, <1>6, <1>7, <1>8 DEF Work

LEMMA IdleStart ==
  ASSUME StartInv, UNCHANGED <<pub, row, agent, consumer>>
  PROVE  StartInv'
<1>1. IdleIsRest' /\ OwnRow' /\ AnswersEnds' /\ SavesState'
  BY DEF StartInv, IdleIsRest, OwnRow, AnswersEnds, SavesState, At
<1>2. Unborn' /\ HandedOver'
  BY DEF StartInv, Unborn, HandedOver, ConsumerAt, At
<1>3. EarlyOff' /\ FinalizerEnded' /\ Called'
  BY DEF StartInv, EarlyOff, Early, Worker, FinalizerEnded, Called, ConsumerAt, At
<1> QED
  BY <1>1, <1>2, <1>3 DEF StartInv

\* An agent that works has no report of its end under way.
LEMMA AgentEndsStart ==
  ASSUME TypeInv, StartInv, NEW e \in Attempt, AgentEnds(e)
  PROVE  StartInv'
<1> DEFINE p == <<"finalizer", e>>
<1>0. /\ p \in Publisher /\ p[1] = "finalizer" /\ p[2] = e /\ p[1] \notin Slot
      /\ agent[e] = "working" /\ UNCHANGED <<row, consumer>>
      /\ Goto(p, "find") \/ UNCHANGED pub
      /\ \A s \in Slot : consumer[s].new # e
      /\ agent \in [Attempt -> {"off", "working", "ok", "bad"}]
  BY Publishers DEF AgentEnds, TypeInv, TypeOK, queue, Slot
<1>1. PICK outcome \in {"ok", "bad"} : agent' = [agent EXCEPT ![e] = outcome]
  BY DEF AgentEnds
<1>2. row[e] # "absent" /\ At(p, "idle") /\ ~Early(Worker(e))
  BY <1>0 DEF StartInv, Unborn, FinalizerEnded, EarlyOff
<1>3. pub[p] = Rest(e)
  BY <1>0, <1>2 DEF StartInv, IdleIsRest
<1>4. /\ IdleIsRest' /\ OwnRow' /\ AnswersEnds' /\ SavesState'
      /\ \A q \in Publisher : q # p => pub'[q] = pub[q]
  <2>1. CASE Goto(p, "find")
    <3>1. PICK l : Moves(p, l) /\ l.at = "find" /\ SameEvent(l, pub[p])
      BY <1>0, <2>1, PcsOf, GotoMoves
    <3>2. l.of = e
      BY <1>3, <3>1, RestFacts DEF SameEvent
    <3>3. Sound(p, l)
      BY <1>0, <1>2, <3>1, <3>2, Pcs3 DEF Sound
    <3> QED BY <1>0, <3>1, <3>3, MoveKeepsLocal, SameRowsStay, Moved
  <2>2. CASE UNCHANGED pub
    BY <1>0, <2>2 DEF StartInv, IdleIsRest, OwnRow, AnswersEnds, SavesState, At
  <2> QED BY <1>0, <2>1, <2>2
<1>c. Called'
  BY <1>0, <1>4, Publishers DEF StartInv, Called, ConsumerAt, At, Slot
<1>5. Unborn'
  BY <1>0, <1>1, <1>2 DEF StartInv, Unborn
<1>6. HandedOver'
  <2> SUFFICES ASSUME NEW s \in Slot, ConsumerAt(s, "created")
               PROVE  /\ At(<<"worker", consumer[s].new>>, "idle")'
                      /\ agent'[consumer[s].new] = "off"
    BY <1>0 DEF StartInv, HandedOver, ConsumerAt
  <2>1. /\ consumer[s].new \in Attempt /\ At(<<"worker", consumer[s].new>>, "idle")
        /\ agent[consumer[s].new] = "off"
    BY DEF StartInv, HandedOver
  <2>2. <<"worker", consumer[s].new>> \in Publisher /\ <<"worker", consumer[s].new>> # p
    BY <2>1, Publishers
  <2> QED BY <1>0, <1>1, <1>4, <2>1, <2>2 DEF At
<1>7. EarlyOff'
  <2> SUFFICES ASSUME NEW x \in Attempt, Early(Worker(x)')
               PROVE  agent'[x] = "off"
    BY DEF EarlyOff, Early, Worker
  <2>1. Worker(x)' = Worker(x)
    BY <1>4, Publishers DEF Worker
  <2>2. agent[x] = "off" /\ x # e
    BY <1>2, <2>1 DEF StartInv, EarlyOff
  <2> QED BY <1>0, <1>1, <2>2
<1>8. FinalizerEnded'
  <2> SUFFICES ASSUME NEW x \in Attempt, ~At(<<"finalizer", x>>, "idle")'
               PROVE  agent'[x] \in {"ok", "bad"}
    BY DEF FinalizerEnded
  <2>1. CASE x = e
    BY <1>0, <1>1, <2>1
  <2>2. CASE x # e
    <3>1. <<"finalizer", x>> \in Publisher /\ <<"finalizer", x>> # p
      BY <2>2, Publishers
    <3> QED BY <1>0, <1>1, <1>4, <2>2, <3>1 DEF StartInv, FinalizerEnded, At
  <2> QED BY <2>1, <2>2
<1> QED
  BY <1>4, <1>c, <1>5, <1>6, <1>7, <1>8 DEF StartInv

LEMMA ReportStart ==
  ASSUME TypeInv, StartInv, NEW e \in Attempt,
         \/ FindRunning(e) \/ Sweep(e) \/ Reap(e) \/ Reconcile(e) \/ LeaveAlone(e)
         \/ AgentEnds(e) \/ Heartbeat(e) \/ ContainerDies(e)
  PROVE  StartInv'
<1>0. /\ \A r \in Role : <<r, e>> \in Publisher
      /\ {"heartbeat", "completed", "failed", "reaped"} \subseteq Event
      /\ \A p \in Publisher : pub[p] \in Local
      /\ pub \in [Publisher -> Local]
  BY Carried, Publishers DEF Event, Role
<1>1. CASE FindRunning(e)
  <2> DEFINE p == <<"finalizer", e>>
  <2>1. /\ ~At(p, "idle") /\ p \in Publisher /\ p[1] = "finalizer" /\ p[2] = e
        /\ p[1] \in Role /\ UNCHANGED <<row, agent, consumer>>
    BY <1>1, Publishers DEF FindRunning, At, world, queue, Role
  <2>2. CASE pub' = [pub EXCEPT ![p] = Rest(e)]
    BY <2>1, <2>2, RestKeeps
  <2>3. CASE \E x \in Attempt : /\ row[x] \in {"provisioning", "running"}
                                /\ \E ev \in {"completed", "failed"} : Publish(p, ev, x)
    BY <1>0, <2>1, <2>3, SameRowsStay, PublishKeeps
  <2> QED BY <1>1, <2>2, <2>3 DEF FindRunning
<1>2. CASE Sweep(e)
  <2> DEFINE p == <<"supervisor", e>>
             l == [pub[p] EXCEPT !.at = "probe", !.to = row[e]]
  <2>1. /\ p \in Publisher /\ p[1] = "supervisor" /\ p[2] = e
        /\ pub' = [pub EXCEPT ![p] = l] /\ row[e] # "absent" /\ row[e] \in State
        /\ UNCHANGED <<row, agent, consumer>> /\ pub[p] \in Local
    BY <1>0, <1>2, Publishers DEF Sweep, Live, world, queue, TypeInv, TypeOK
  <2>2. pub[p].of = e
    BY <2>1 DEF StartInv, OwnRow
  <2>3. l \in Local /\ l.at = "probe" /\ l.of = e
    BY <2>1, <2>2, PcsOf DEF Local
  <2>4. Moves(p, l) /\ Proper(p, l)
    BY <2>1, <2>3, Pcs3 DEF Moves, Proper, Sound, Slot
  <2> QED BY <2>1, <2>4, SameRowsStay, MoveKeeps
<1>3. CASE Reap(e) \/ Reconcile(e)
  <2> DEFINE p == <<"supervisor", e>>
  <2>1. /\ p \in Publisher /\ p[1] = "supervisor" /\ p[2] = e /\ ~At(p, "idle")
        /\ UNCHANGED <<row, agent, consumer>> /\ p[1] \in Role
        /\ \E ev \in {"completed", "failed", "reaped"} : Publish(p, ev, e)
    BY <1>3, Publishers DEF Reap, Reconcile, At, world, queue, Role
  <2>2. pub[p].of = e /\ row[e] # "absent"
    BY <2>1 DEF StartInv, OwnRow
  <2> QED BY <1>0, <2>1, <2>2, SameRowsStay, PublishKeeps
<1>4. CASE LeaveAlone(e)
  <2> DEFINE p == <<"supervisor", e>>
  <2>1. ~At(p, "idle") /\ p \in Publisher /\ p[2] = e /\ UNCHANGED <<row, agent, consumer>>
        /\ pub' = [pub EXCEPT ![p] = Rest(e)]
    BY <1>4, Publishers DEF LeaveAlone, At, world, queue
  <2> QED BY <2>1, RestKeeps
<1>5. CASE AgentEnds(e)
  BY <1>5, AgentEndsStart
<1>6. CASE Heartbeat(e)
  <2> DEFINE p == <<"heartbeat", e>>
  <2>1. /\ p \in Publisher /\ p[1] = "heartbeat" /\ p[2] = e
        /\ Publish(p, "heartbeat", e) /\ UNCHANGED <<row, agent, consumer>>
        /\ At(<<"worker", e>>, "await") /\ <<"worker", e>> \in Publisher
        /\ p[1] \in Role
    BY <1>6, Publishers DEF Heartbeat, world, queue, Role
  <2>2. row[e] # "absent"
    BY <2>1 DEF StartInv, OwnRow, At, Role
  <2> QED BY <1>0, <2>1, <2>2, SameRowsStay, PublishKeeps
<1>7. CASE ContainerDies(e)
  BY <1>7, IdleStart DEF ContainerDies, queue
<1> QED
  BY <1>1, <1>2, <1>3, <1>4, <1>5, <1>6, <1>7

\* A worker of the queue goes on with rows that exist.
LEMMA TurnKeeps ==
  ASSUME TypeInv, StartInv, NEW s \in Slot, NEW c, c.at # "created",
         At(<<s, 1>>, "idle"),
         consumer' = [consumer EXCEPT ![s] = c], SameRows, UNCHANGED <<pub, agent>>,
         \A e \in Attempt : row[e] = "absent" => c.new # e /\ e \notin c.prior
  PROVE  StartInv'
<1>0. /\ consumer'[s] = c /\ \A t \in Slot : t # s => consumer'[t] = consumer[t]
      /\ \A p \in Publisher : pub[p].of \in Attempt
  BY DEF TypeInv, TypeOK, Local
<1>1. IdleIsRest' /\ OwnRow' /\ AnswersEnds' /\ SavesState'
  BY <1>0 DEF StartInv, IdleIsRest, OwnRow, AnswersEnds, SavesState, At, SameRows
<1>2. Unborn'
  BY <1>0 DEF StartInv, Unborn, SameRows
<1>3. HandedOver'
  BY <1>0 DEF StartInv, HandedOver, ConsumerAt, At
<1>4. EarlyOff' /\ FinalizerEnded' /\ Called'
  BY <1>0 DEF StartInv, EarlyOff, Early, Worker, FinalizerEnded, Called, ConsumerAt, At
<1> QED
  BY <1>1, <1>2, <1>3, <1>4 DEF StartInv

LEMMA CreateStart ==
  ASSUME TypeInv, StartInv, NEW s \in Slot, CreateExecution(s)
  PROVE  StartInv'
<1>1. PICK e \in Attempt :
        /\ row[e] = "absent" /\ row' = [row EXCEPT ![e] = "pending"]
        /\ consumer' = [consumer EXCEPT ![s] = [@ EXCEPT !.at = "created", !.new = e]]
  BY DEF CreateExecution
<1>2. /\ UNCHANGED <<pub, agent>>
      /\ consumer'[s].at = "created" /\ consumer'[s].new = e
      /\ consumer'[s].prior = consumer[s].prior
      /\ \A t \in Slot : t # s => consumer'[t] = consumer[t]
      /\ \A x \in Attempt : row'[x] = IF x = e THEN "pending" ELSE row[x]
      /\ \A p \in Publisher : pub[p].of \in Attempt
  BY <1>1 DEF CreateExecution, world, TypeInv, TypeOK, Local
<1>c. Called'
  <2>1. At(<<s, 1>>, "idle")
    BY DEF CreateExecution, ConsumerAt, StartInv, Called
  <2> QED BY <1>2, <2>1 DEF StartInv, Called, ConsumerAt, At
<1>3. IdleIsRest' /\ OwnRow' /\ AnswersEnds' /\ SavesState'
  BY <1>2 DEF StartInv, IdleIsRest, OwnRow, AnswersEnds, SavesState, At
<1>4. Unborn'
  <2> SUFFICES ASSUME NEW x \in Attempt, row'[x] = "absent"
               PROVE  /\ agent'[x] = "off"
                      /\ \A t \in Slot : consumer'[t].new # x /\ x \notin consumer'[t].prior
    BY DEF Unborn
  <2>1. x # e /\ row[x] = "absent"
    BY <1>2
  <2> QED BY <1>2, <2>1 DEF StartInv, Unborn
<1>5. HandedOver'
  <2>1. At(<<"worker", e>>, "idle") /\ <<"worker", e>> \in Publisher
    BY <1>1, Publishers DEF StartInv, OwnRow, Role
  <2>2. agent[e] = "off" /\ \A t \in Slot : consumer[t].new # e
    BY <1>1 DEF StartInv, Unborn
  <2> QED BY <1>2, <2>1, <2>2 DEF StartInv, HandedOver, ConsumerAt, At
<1>6. EarlyOff' /\ FinalizerEnded'
  BY <1>2 DEF StartInv, EarlyOff, Early, Worker, FinalizerEnded, At
<1> QED
  BY <1>3, <1>c, <1>4, <1>5, <1>6 DEF StartInv

LEMMA PublishCreatedStart ==
  ASSUME TypeInv, StartInv, NEW s \in Slot, PublishCreated(s)
  PROVE  /\ StartInv' /\ SameRows
         /\ consumer[s].new \in Attempt /\ At(<<"worker", consumer[s].new>>, "idle")
<1> DEFINE e == consumer[s].new
           p == <<"worker", e>>
<1>1. /\ e \in Attempt /\ At(p, "idle") /\ agent[e] = "off"
      /\ \A t \in Slot : ConsumerAt(t, "created") /\ t # s => consumer[t].new # e
  BY DEF PublishCreated, StartInv, HandedOver
<1>2. /\ p \in Publisher /\ p[1] = "worker" /\ p[2] = e
      /\ row' = [row EXCEPT ![e] = "pending"] /\ Goto(p, "claim_lease")
      /\ Turn(s, "ack") /\ UNCHANGED agent
      /\ row[e] # "absent"
  BY <1>1, Publishers DEF PublishCreated, world, StartInv, Unborn
<1>3. PICK l : Moves(p, l) /\ l.at = "claim_lease" /\ SameEvent(l, pub[p])
  BY <1>2, PcsOf, GotoMoves
<1>4. /\ pub'[p] = l /\ \A q \in Publisher : q # p => pub'[q] = pub[q]
      /\ pub[p].of = e
  BY <1>1, <1>2, <1>3, Moved DEF StartInv, OwnRow
<1>5. Sound(p, l)
  BY <1>1, <1>2, <1>3, <1>4, Pcs3 DEF Sound, SameEvent, Starts, Slot
<1>6. SameRows
  BY <1>1, <1>2 DEF SameRows, TypeInv, TypeOK
<1>7. IdleIsRest' /\ OwnRow' /\ AnswersEnds' /\ SavesState'
  BY <1>2, <1>3, <1>5, <1>6, MoveKeepsLocal
<1>8. /\ consumer'[s].at = "ack" /\ consumer'[s].new = e /\ consumer'[s].prior = consumer[s].prior
      /\ \A t \in Slot : t # s => consumer'[t] = consumer[t]
  BY <1>2 DEF Turn, TypeInv, TypeOK
<1>9. Unborn'
  BY <1>2, <1>6, <1>8 DEF StartInv, Unborn, SameRows
<1>c. Called'
  <2>1. At(<<s, 1>>, "idle")
    BY DEF PublishCreated, ConsumerAt, StartInv, Called
  <2>2. \A t \in Slot : <<t, 1>> \in Publisher /\ <<t, 1>> # p
    BY <1>2, Publishers DEF Slot
  <2> QED BY <1>4, <1>8, <2>1, <2>2 DEF StartInv, Called, ConsumerAt, At
<1>10. HandedOver'
  <2> SUFFICES ASSUME NEW t \in Slot, t # s, ConsumerAt(t, "created")
               PROVE  At(<<"worker", consumer[t].new>>, "idle")'
    BY <1>2, <1>8 DEF StartInv, HandedOver, ConsumerAt
  <2>1. consumer[t].new \in Attempt /\ At(<<"worker", consumer[t].new>>, "idle")
    BY DEF StartInv, HandedOver
  <2>2. <<"worker", consumer[t].new>> \in Publisher /\ <<"worker", consumer[t].new>> # p
    BY <1>1, <2>1, Publishers
  <2> QED BY <1>4, <1>8, <2>1, <2>2 DEF At
<1>11. EarlyOff'
  <2> SUFFICES ASSUME NEW x \in Attempt, Early(Worker(x)')
               PROVE  agent[x] = "off"
    BY <1>2 DEF EarlyOff, Early, Worker
  <2>1. CASE x = e
    BY <1>1, <2>1
  <2>2. CASE x # e
    BY <1>4, <2>2, Publishers DEF StartInv, EarlyOff, Worker
  <2> QED BY <2>1, <2>2
<1>12. FinalizerEnded'
  <2> SUFFICES ASSUME NEW x \in Attempt, ~At(<<"finalizer", x>>, "idle")'
               PROVE  agent[x] \in {"ok", "bad"}
    BY <1>2 DEF FinalizerEnded
  <2>1. <<"finalizer", x>> \in Publisher /\ <<"finalizer", x>> # p
    BY Publishers
  <2> QED BY <1>4, <2>1 DEF StartInv, FinalizerEnded, At
<1> QED
  BY <1>1, <1>6, <1>7, <1>9, <1>c, <1>10, <1>11, <1>12 DEF StartInv

\* process() calls a handler of the engine.
LEMMA CallFacts ==
  ASSUME TypeInv, StartInv, NEW s \in Slot, Preflight(s), ~UNCHANGED pub
  PROVE  /\ <<s, 1>> \in Publisher /\ At(<<s, 1>>, "idle")
         /\ consumer'[s] = [consumer[s] EXCEPT !.at = "called"] /\ consumer'[s].at = "called"
         /\ consumer'[s].new = consumer[s].new /\ consumer'[s].prior = consumer[s].prior
         /\ \A t \in Slot : t # s => consumer'[t] = consumer[t]
         /\ \E l : /\ Moves(<<s, 1>>, l) /\ l.at \in {"gate_completion", "policy"}
                   /\ l.ev = "dispatch" /\ l.of = 1
<1> DEFINE p == <<s, 1>>
<1>1. /\ p \in Publisher /\ At(p, "idle") /\ pub[p] \in Local
      /\ pub \in [Publisher -> Local]
  BY Publishers, Carried DEF Preflight, ConsumerAt, StartInv, Called
<1>2. /\ consumer \in [Slot -> Turns] /\ Turn(s, "called")
      /\ \E pc \in {"gate_completion", "policy"} :
            pub' = [pub EXCEPT ![p] = [@ EXCEPT !.at = pc, !.ev = "dispatch"]]
  BY DEF Preflight, TypeInv, TypeOK, Turns
<1>3. PICK pc \in {"gate_completion", "policy"} :
        pub' = [pub EXCEPT ![p] = [pub[p] EXCEPT !.at = pc, !.ev = "dispatch"]]
  BY <1>1, <1>2
<1> DEFINE l == [pub[p] EXCEPT !.at = pc, !.ev = "dispatch"]
<1>4. pub[p].of = 1
  BY <1>1, Names DEF StartInv, OwnRow, Slot
<1>5. l \in Local /\ l.at = pc /\ l.ev = "dispatch" /\ l.of = 1
  BY <1>1, <1>4, PcsOf DEF Local
<1>6. Moves(p, l)
  BY <1>3, <1>5 DEF Moves
<1>7. /\ consumer' = [consumer EXCEPT ![s] = [consumer[s] EXCEPT !.at = "called"]]
      /\ consumer[s] \in Turns
  BY <1>2 DEF Turn
<1>8. /\ consumer'[s] = [consumer[s] EXCEPT !.at = "called"]
      /\ \A t \in Slot : t # s => consumer'[t] = consumer[t]
  BY <1>2, <1>7
<1>9. /\ consumer'[s].at = "called" /\ consumer'[s].new = consumer[s].new
      /\ consumer'[s].prior = consumer[s].prior
  BY <1>7, <1>8 DEF Turns
<1>10. \E k : /\ Moves(p, k) /\ k.at \in {"gate_completion", "policy"}
              /\ k.ev = "dispatch" /\ k.of = 1
  BY <1>5, <1>6
<1> QED
  BY <1>1, <1>8, <1>9, <1>10

LEMMA CallStart ==
  ASSUME TypeInv, StartInv, NEW s \in Slot, Preflight(s), ~UNCHANGED pub
  PROVE  StartInv'
<1> DEFINE p == <<s, 1>>
<1>f. /\ consumer'[s].at = "called" /\ consumer'[s].new = consumer[s].new
      /\ consumer'[s].prior = consumer[s].prior
      /\ \A t \in Slot : t # s => consumer'[t] = consumer[t]
  BY CallFacts
<1>1. PICK l : /\ Moves(p, l) /\ l.at \in {"gate_completion", "policy"}
               /\ l.ev = "dispatch" /\ l.of = 1
  BY CallFacts
<1>2. /\ p \in Publisher /\ p[1] = s /\ p[1] \notin Role /\ p[2] = 1 /\ p[1] # "finalizer"
      /\ UNCHANGED <<row, agent>> /\ 1 \in Attempt
  BY CallFacts, Names DEF Preflight, world, Slot, Role
<1>3. l.at \in Calling /\ l.at # "idle" /\ l.at # "save"
  BY <1>1 DEF Calling, FailurePcs, CompletionPcs
<1>4. Sound(p, l)
  BY <1>1, <1>2, <1>3, Pcs3 DEF Sound
<1>5. /\ IdleIsRest' /\ OwnRow' /\ AnswersEnds' /\ SavesState'
      /\ pub'[p] = l /\ \A q \in Publisher : q # p => pub'[q] = pub[q]
  BY <1>1, <1>2, <1>4, SameRowsStay, MoveKeepsLocal, Moved
<1>6. Unborn'
  BY <1>f, <1>2 DEF StartInv, Unborn
<1>7. HandedOver'
  <2> SUFFICES ASSUME NEW t \in Slot, t # s, ConsumerAt(t, "created")
               PROVE  At(<<"worker", consumer[t].new>>, "idle")'
    BY <1>f, <1>2 DEF StartInv, HandedOver, ConsumerAt
  <2>1. consumer[t].new \in Attempt /\ At(<<"worker", consumer[t].new>>, "idle")
    BY DEF StartInv, HandedOver
  <2>2. <<"worker", consumer[t].new>> \in Publisher /\ <<"worker", consumer[t].new>> # p
    BY <2>1, Publishers DEF Slot
  <2> QED BY <1>f, <1>5, <2>1, <2>2 DEF At
<1>8. EarlyOff' /\ FinalizerEnded'
  <2>1. \A e \in Attempt : /\ <<"worker", e>> \in Publisher /\ <<"worker", e>> # p
                           /\ <<"finalizer", e>> \in Publisher /\ <<"finalizer", e>> # p
    BY Publishers DEF Slot
  <2> QED BY <1>2, <1>5, <2>1 DEF StartInv, EarlyOff, Early, Worker, FinalizerEnded, At
<1>9. Called'
  <2> SUFFICES ASSUME NEW t \in Slot, ~At(<<t, 1>>, "idle")'
               PROVE  /\ consumer'[t].at = "called"
                      /\ pub'[<<t, 1>>].at \in Calling /\ pub'[<<t, 1>>].ev = "dispatch"
    BY DEF Called, ConsumerAt
  <2>1. CASE t = s
    BY <1>f, <1>1, <1>3, <1>5, <2>1
  <2>2. CASE t # s
    <3>1. pub'[<<t, 1>>] = pub[<<t, 1>>]
      BY <1>5, <2>2, Publishers
    <3> QED BY <1>f, <2>2, <3>1 DEF StartInv, Called, ConsumerAt, At
  <2> QED BY <2>1, <2>2
<1> QED
  BY <1>5, <1>6, <1>7, <1>8, <1>9 DEF StartInv

LEMMA ConsumeStart ==
  ASSUME TypeInv, StartInv, NEW s \in Slot, Consume(s)
  PROVE  StartInv'
<1>0. /\ consumer[s].prior \subseteq Attempt /\ consumer[s] \in Turns
      /\ consumer \in [Slot -> Turns]
      /\ \A e \in Attempt : row[e] = "absent" =>
           consumer[s].new # e /\ e \notin consumer[s].prior
  BY DEF StartInv, Unborn, TypeInv, TypeOK, Turns
<1>r. ~ConsumerAt(s, "called") => At(<<s, 1>>, "idle")
  BY DEF StartInv, Called
<1>1. ASSUME NEW pc \in ConsumerPcs, pc # "created", Turn(s, pc), UNCHANGED <<row, pub, agent>>,
             At(<<s, 1>>, "idle")
      PROVE  StartInv'
  <2> DEFINE c == [consumer[s] EXCEPT !.at = pc]
  <2>1. /\ consumer' = [consumer EXCEPT ![s] = c]
        /\ c.at = pc /\ c.new = consumer[s].new /\ c.prior = consumer[s].prior
    BY <1>0, <1>1 DEF Turn, Turns
  <2> QED BY <1>0, <1>1, <2>1, SameRowsStay, TurnKeeps
<1>2. ASSUME NEW x
      PROVE  /\ Without(consumer[s], x).at # "created"
             /\ Without(consumer[s], x).new = 0
             /\ Without(consumer[s], x).prior \subseteq consumer[s].prior
             /\ 0 \notin Attempt
  BY <1>0 DEF Without, Turns, Attempt
<1>3. CASE \/ Take(s) \/ GuardRetry(s) \/ MarkActivated(s) \/ HandlerReturns(s)
           \/ Preflight(s) /\ UNCHANGED pub
  <2>1. \E pc \in {"guard", "preflight", "activate", "ack", "prior", "called"} : Turn(s, pc)
    BY <1>3 DEF Take, GuardRetry, MarkActivated, HandlerReturns, Preflight
  <2>2. UNCHANGED <<row, pub, agent>> /\ At(<<s, 1>>, "idle")
    BY <1>3, <1>r DEF Take, GuardRetry, MarkActivated, HandlerReturns, Preflight, ConsumerAt, world
  <2> QED BY <1>1, <2>1, <2>2 DEF ConsumerPcs
<1>p. CASE Preflight(s) /\ ~UNCHANGED pub
  BY <1>p, CallStart
<1>4. CASE FindPrior(s)
  <2> DEFINE prior == {x \in Attempt : Live(row[x])}
             c == [consumer[s] EXCEPT !.at = IF prior = {} THEN "create" ELSE "cancel", !.prior = prior]
  <2>1. /\ consumer' = [consumer EXCEPT ![s] = c] /\ UNCHANGED <<row, pub, agent>>
        /\ c.at # "created" /\ c.new = consumer[s].new /\ c.prior = prior
    BY <1>0, <1>4 DEF FindPrior, world, Turns
  <2>2. \A e \in Attempt : row[e] = "absent" => e \notin prior
    BY DEF Live
  <2> HIDE DEF c, prior
  <2>3. \A e \in Attempt : row[e] = "absent" => c.new # e /\ e \notin c.prior
    BY <1>0, <2>1, <2>2
  <2>4. SameRows /\ At(<<s, 1>>, "idle")
    BY <1>r, <1>4, <2>1, SameRowsStay DEF FindPrior, ConsumerAt
  <2> QED BY <2>1, <2>3, <2>4, TurnKeeps
<1>5. CASE CancelPrior(s)
  <2>1. PICK x \in consumer[s].prior :
          consumer' = [consumer EXCEPT ![s] =
            IF "cancelled" \in Edges(row[x])
            THEN [@ EXCEPT !.at = "cancel_save", !.new = x] ELSE Without(@, x)]
    BY <1>5 DEF CancelPrior
  <2>2. UNCHANGED <<row, pub, agent>> /\ At(<<s, 1>>, "idle")
    BY <1>r, <1>5 DEF CancelPrior, ConsumerAt, world
  <2>3. CASE "cancelled" \in Edges(row[x])
    <3> DEFINE c == [consumer[s] EXCEPT !.at = "cancel_save", !.new = x]
    <3>1. /\ consumer' = [consumer EXCEPT ![s] = c]
          /\ c.at # "created" /\ c.new = x /\ c.prior = consumer[s].prior
      BY <1>0, <2>1, <2>3 DEF Turns
    <3>2. \A e \in Attempt : row[e] = "absent" => x # e
      BY <1>0
    <3> QED BY <1>0, <2>2, <3>1, <3>2, SameRowsStay, TurnKeeps
  <2>4. CASE ~("cancelled" \in Edges(row[x]))
    <3> DEFINE c == Without(consumer[s], x)
    <3>1. consumer' = [consumer EXCEPT ![s] = c]
      BY <1>0, <2>1, <2>4
    <3>2. c.at # "created" /\ \A e \in Attempt : row[e] = "absent" => c.new # e /\ e \notin c.prior
      BY <1>0, <1>2
    <3> HIDE DEF c
    <3> QED BY <2>2, <3>1, <3>2, SameRowsStay, TurnKeeps
  <2> QED BY <2>3, <2>4
<1>6. CASE SaveCancelled(s)
  <2> DEFINE x == consumer[s].new
  <2>1. /\ consumer' = [consumer EXCEPT ![s] = Without(consumer[s], x)]
        /\ row' = [row EXCEPT ![x] = "cancelled"] /\ UNCHANGED <<pub, agent>>
        /\ At(<<s, 1>>, "idle")
    BY <1>r, <1>0, <1>6 DEF SaveCancelled, ConsumerAt, world
  <2>2. SameRows
    BY <1>0, <2>1 DEF SameRows, TypeInv, TypeOK
  <2>3. /\ Without(consumer[s], x).at # "created"
        /\ \A e \in Attempt : row[e] = "absent" =>
             Without(consumer[s], x).new # e /\ e \notin Without(consumer[s], x).prior
    BY <1>0, <1>2
  <2> QED BY <2>1, <2>2, <2>3, TurnKeeps
<1>7. CASE CreateExecution(s)
  BY <1>7, CreateStart
<1>8. CASE PublishCreated(s)
  BY <1>8, PublishCreatedStart
<1>9. CASE Acknowledge(s)
  <2>1. consumer' = [consumer EXCEPT ![s] = NoJob] /\ UNCHANGED <<row, pub, agent>>
        /\ At(<<s, 1>>, "idle")
    BY <1>r, <1>9 DEF Acknowledge, ConsumerAt, world
  <2>2. NoJob.at # "created" /\ NoJob.new \notin Attempt /\ NoJob.prior = {}
    BY DEF NoJob, Attempt
  <2> QED BY <2>1, <2>2, SameRowsStay, TurnKeeps
<1> QED
  BY <1>3, <1>p, <1>4, <1>5, <1>6, <1>7, <1>8, <1>9 DEF Consume

LEMMA CrashStart ==
  ASSUME TypeInv, StartInv, Crash
  PROVE  StartInv'
<1>1. /\ UNCHANGED <<row, agent>>
      /\ \A p \in Publisher : pub'[p] = Rest(p[2])
      /\ \A s \in Slot : consumer'[s] = NoJob
  BY DEF Crash
<1>2. \A p \in Publisher : /\ pub'[p].at = "idle" /\ pub'[p].of = p[2] /\ ~Early(pub'[p])
                           /\ pub'[p].at \notin Answering
  BY <1>1, Publishers, RestFacts
<1>3. IdleIsRest' /\ OwnRow' /\ AnswersEnds' /\ SavesState'
  BY <1>1, <1>2 DEF IdleIsRest, OwnRow, AnswersEnds, SavesState, At
<1>4. Unborn' /\ HandedOver'
  BY <1>1 DEF StartInv, Unborn, HandedOver, NoJob, ConsumerAt, Attempt
<1>5. EarlyOff' /\ FinalizerEnded' /\ Called'
  BY <1>2, Publishers DEF EarlyOff, FinalizerEnded, Called, Worker, Early, At
<1> QED
  BY <1>3, <1>4, <1>5 DEF StartInv

LEMMA InitStart == Init => StartInv
<1> SUFFICES ASSUME Init PROVE StartInv
  OBVIOUS
<1>1. /\ \A p \in Publisher : pub[p] = Rest(p[2])
      /\ \A s \in Slot : consumer[s] = NoJob
      /\ \A e \in Attempt : row[e] = "absent" /\ agent[e] = "off"
  BY DEF Init
<1>2. \A p \in Publisher : /\ pub[p].at = "idle" /\ pub[p].of = p[2] /\ ~Early(pub[p])
                           /\ pub[p].at \notin Answering
  BY <1>1, Publishers, RestFacts
<1>3. IdleIsRest /\ OwnRow /\ AnswersEnds /\ SavesState
  BY <1>1, <1>2 DEF IdleIsRest, OwnRow, AnswersEnds, SavesState, At
<1>4. Unborn /\ HandedOver
  BY <1>1 DEF Unborn, HandedOver, NoJob, ConsumerAt, Attempt
<1>5. EarlyOff /\ FinalizerEnded /\ Called
  BY <1>2, Publishers DEF EarlyOff, FinalizerEnded, Called, Worker, Early, At
<1> QED
  BY <1>3, <1>4, <1>5 DEF StartInv

LEMMA NextStart ==
  ASSUME TypeInv, StartInv, [Next]_vars
  PROVE  StartInv'
<1>1. ASSUME NEW p \in Publisher, Proceed(p)
      PROVE  StartInv'
  <2>1. p[2] \in Attempt
    BY Publishers
  <2> QED
    BY <1>1, <2>1, HandleStart, WorkStart, ReportStart DEF Proceed
<1>2. ASSUME NEW e \in Attempt,
             \/ Sweep(e) \/ Reap(e) \/ Reconcile(e)
             \/ AgentEnds(e) \/ Heartbeat(e) \/ ContainerDies(e)
      PROVE  StartInv'
  BY <1>2, ReportStart
<1>3. ASSUME NEW s \in Slot, Consume(s)
      PROVE  StartInv'
  BY <1>3, ConsumeStart
<1>4. CASE Crash
  BY <1>4, CrashStart
<1>5. CASE MoveStep \/ CompleteRun \/ Over \/ UNCHANGED vars
  BY <1>5, IdleStart DEF Over, MoveStep, CompleteRun, vars, queue, world
<1> QED
  BY <1>1, <1>2, <1>3, <1>4, <1>5 DEF Next

-----------------------------------------------------------------------------
(* The retry budget.                                                       *)

Created == {e \in Attempt : row[e] # "absent"}
ToCreate == {"preflight", "prior", "cancel", "cancel_save", "create"}

\* A worker of the queue has, or will be given, the first dispatch; it has been
\* told to dispatch the retry.
FirstDue == slot["first"] = "waiting" \/ consumer["first"].at \in ToCreate
RetryDue == consumer["retry"].at \in ToCreate \cup {"activate"}

\* The executions there are, and those nothing but the end of the run prevents.
Dispatches == Cardinality(Created) + (IF FirstDue THEN 1 ELSE 0) + (IF RetryDue THEN 1 ELSE 0)

Restarts == crashes * (MaxRetries + 2)
Halfway == {"set_marker", "set_step", "add"}

\* The run has failed, or will as soon as the handler goes on.
Failing == run # "RUNNING" \/ \E p \in Publisher : At(p, "fail_run")

SlotInv ==
    /\ \A s \in Slot : ConsumerAt(s, "idle") <=> slot[s] # "active"
    /\ consumer["first"].at \notin {"guard", "activate"}

Claimed == \A p \in Publisher : At(p, "clear_retry") => done

\* The counter is ahead of the executions, and so is the counter that a failure
\* handler has read; halfway through the handler it leads by one more.
CounterLeads ==
    /\ Dispatches <= attempt + 1 + Restarts
    /\ \A p \in Publisher : pub[p].at \in Charging => Dispatches <= pub[p].tries + 1 + Restarts
    /\ \A p \in Publisher : pub[p].at \in Halfway => Dispatches <= attempt + Restarts

\* A retry that waits in the queue has been counted.
RetryCounted ==
    slot["retry"] = "waiting" => Dispatches <= meta + Restarts /\ Dispatches <= attempt + Restarts

\* Nor does a failure reported while the retry is tested break this.
GuardCounted ==
    ConsumerAt("retry", "guard") =>
        /\ Dispatches <= attempt + Restarts
        /\ \A p \in Publisher : pub[p].at \in Charging => Dispatches <= pub[p].tries + Restarts
        /\ \A p \in Publisher : pub[p].at \in Halfway => Dispatches < attempt + Restarts

Counted ==
    /\ Dispatches <= MaxRetries + 1 + Restarts
    /\ ConsumerAt("retry", "guard") /\ run = "RUNNING" => Dispatches <= meta + Restarts
    /\ ~Failing => CounterLeads /\ RetryCounted /\ GuardCounted

BudgetInv == ~done => Counted

LEMMA FiniteAttempts == IsFiniteSet(Attempt)
<1>1. 1 \in Int /\ MaxAttempts \in Int
  BY AttemptsAssumption
<1>2. IsFiniteSet(1 .. MaxAttempts)
  BY ONLY <1>1, FS_Interval
<1> QED
  BY <1>2 DEF Attempt

LEMMA Counts ==
  ASSUME TypeInv
  PROVE  /\ Cardinality(Created) \in Nat /\ Dispatches \in Nat /\ Restarts \in Nat
         /\ IsFiniteSet(Created) /\ MaxRetries \in Nat /\ attempt \in Nat /\ meta \in Nat
         /\ attempt <= MaxRetries /\ meta <= MaxRetries
         /\ \A p \in Publisher : pub[p].tries \in Nat /\ pub[p] \in Local
<1>1. MaxRetries \in Nat /\ MaxAttempts \in Nat /\ MaxCrashes \in Nat
  BY AttemptsAssumption
<1>3. IsFiniteSet(Created)
  BY FiniteAttempts, FS_Subset DEF Created
<1>4. Cardinality(Created) \in Nat
  BY <1>3, FS_CardinalityType
<1>5. Dispatches \in Nat
  BY <1>4 DEF Dispatches
<1>6. crashes \in Nat /\ attempt \in 0 .. MaxRetries /\ meta \in 0 .. MaxRetries
  BY <1>1 DEF TypeInv, TypeOK
<1>7. Restarts \in Nat
  BY <1>1, <1>6 DEF Restarts
<1>8. \A p \in Publisher : pub[p].tries \in Nat /\ pub[p] \in Local
  BY Carried DEF Local
<1> QED
  BY <1>1, <1>3, <1>4, <1>5, <1>6, <1>7, <1>8

LEMMA CountsLater ==
  IsFiniteSet(Created') /\ Cardinality(Created') \in Nat /\ Dispatches' \in Nat
<1>2. IsFiniteSet(Created')
  BY FiniteAttempts, FS_Subset DEF Created
<1>3. Cardinality(Created') \in Nat
  BY <1>2, FS_CardinalityType
<1> QED
  BY <1>2, <1>3 DEF Dispatches

\* A step that dispatches nothing, counts nothing and hands out no retry.
LEMMA BudgetStays ==
  ASSUME TypeInv, BudgetInv, Dispatches' <= Dispatches,
         UNCHANGED <<attempt, meta, crashes>>, done => done', Failing => Failing',
         run' = "RUNNING" => run = "RUNNING",
         slot'["retry"] = "waiting" => slot["retry"] = "waiting",
         ConsumerAt("retry", "guard")' => ConsumerAt("retry", "guard"),
         \A p \in Publisher : pub'[p].at \in Charging =>
            /\ pub[p].at \in Charging /\ pub'[p].tries = pub[p].tries
            /\ pub'[p].at \in Halfway => pub[p].at \in Halfway
  PROVE  BudgetInv'
<1>1. Restarts' = Restarts
  BY DEF Restarts
<1>2. /\ Dispatches \in Nat /\ Dispatches' \in Nat /\ Restarts \in Nat /\ MaxRetries \in Nat
      /\ attempt \in Nat /\ meta \in Nat /\ \A p \in Publisher : pub[p].tries \in Nat
  BY Counts, CountsLater
<1> SUFFICES ASSUME ~done' PROVE Counted'
  BY DEF BudgetInv
<1>3. Counted
  BY DEF BudgetInv
<1>4. Halfway \subseteq Charging
  BY DEF Halfway, Charging
<1>5. Dispatches' <= MaxRetries + 1 + Restarts'
  BY <1>1, <1>2, <1>3 DEF Counted
<1>6. ConsumerAt("retry", "guard")' /\ run' = "RUNNING" => Dispatches' <= meta' + Restarts'
  BY <1>1, <1>2, <1>3 DEF Counted
<1>7. ASSUME ~Failing' PROVE CounterLeads' /\ RetryCounted' /\ GuardCounted'
  <2>1. CounterLeads /\ RetryCounted /\ GuardCounted
    BY <1>3, <1>7 DEF Counted
  <2>2. CounterLeads'
    BY <1>1, <1>2, <1>4, <2>1 DEF CounterLeads
  <2>3. RetryCounted'
    BY <1>1, <1>2, <2>1 DEF RetryCounted
  <2>4. GuardCounted'
    BY <1>1, <1>2, <1>4, <2>1 DEF GuardCounted
  <2> QED BY <2>2, <2>3, <2>4
<1> QED
  BY <1>5, <1>6, <1>7 DEF Counted

LEMMA SameDispatches ==
  ASSUME SameRows, UNCHANGED <<slot, consumer>>
  PROVE  Dispatches' = Dispatches
<1>1. Created' = Created
  BY DEF Created, SameRows
<1>2. FirstDue' = FirstDue /\ RetryDue' = RetryDue
  BY DEF FirstDue, RetryDue
<1> QED
  BY <1>1, <1>2 DEF Dispatches

\* A publisher goes on, and does not get to a place where a retry is counted
\* that it was not at.
LEMMA MoveBudget ==
  ASSUME TypeInv, BudgetInv, Claimed, NEW p \in Publisher, NEW l, Moves(p, l),
         l.at \in Charging =>
            /\ pub[p].at \in Charging /\ l.tries = pub[p].tries
            /\ l.at \in Halfway => pub[p].at \in Halfway,
         At(p, "fail_run") => run' # "RUNNING",
         l.at = "clear_retry" => done',
         Dispatches' <= Dispatches, UNCHANGED <<attempt, meta, crashes>>, done => done',
         run' = "RUNNING" => run = "RUNNING",
         slot'["retry"] = "waiting" => slot["retry"] = "waiting",
         ConsumerAt("retry", "guard")' => ConsumerAt("retry", "guard")
  PROVE  BudgetInv' /\ Claimed'
<1>1. /\ pub'[p] = l /\ \A q \in Publisher : q # p => pub'[q] = pub[q]
  BY Moved
<1>2. Failing => Failing'
  BY <1>1 DEF Failing, At
<1>3. Claimed'
  BY <1>1 DEF Claimed, At
<1>4. \A q \in Publisher : pub'[q].at \in Charging =>
            /\ pub[q].at \in Charging /\ pub'[q].tries = pub[q].tries
            /\ pub'[q].at \in Halfway => pub[q].at \in Halfway
  BY <1>1
<1>5. BudgetInv'
  BY <1>2, <1>4, BudgetStays
<1> QED
  BY <1>3, <1>5

LEMMA ElsewherePcs ==
  /\ (Charging \cup {"clear_retry"}) \cap
       {"idle", "find", "probe", "context", "siblings", "policy", "clear_failed", "fail_run",
        "close_run", "gate_completion", "claim", "project", "save", "claim_lease", "kill",
        "provision", "start", "await", "cleanup", "release"} = {}
  /\ Charging = {"set_attempt", "set_marker", "set_step", "add"}
  /\ Halfway = {"set_marker", "set_step", "add"}
BY DEF Charging, Halfway

LEMMA AnswersElsewhere ==
  ASSUME NEW p \in Publisher, NEW l,
         Heeded(p, l) \/ Replied(p, l) \/ Applied(p, l)
  PROVE  l.at \notin Charging /\ l.at # "clear_retry"
<1>1. Published(p) \in {"idle", "kill", "start", "release"}
  BY DEF Published
<1>2. Rest(p[2]).at = "idle"
  BY DEF Rest
<1>3. l.at \in {"idle", "project", "context", "cleanup", "kill", "start", "release"}
  BY <1>1, <1>2 DEF Heeded, Replied, Applied
<1> QED
  BY <1>3, ElsewherePcs

\* A subscriber or handler that returns.
LEMMA ReturnBudget ==
  ASSUME TypeInv, BudgetInv, Claimed, NEW p \in Publisher,
         Answered(p) \/ ListenerDone(p) \/ Projected(p),
         ~At(p, "fail_run"), Dispatches' <= Dispatches,
         UNCHANGED <<run, attempt, meta, crashes, consumer>>, done => done',
         slot'["retry"] = "waiting" => slot["retry"] = "waiting"
  PROVE  BudgetInv' /\ Claimed'
<1>1. PICK l : Moves(p, l) /\ (Heeded(p, l) \/ Replied(p, l) \/ Applied(p, l))
  BY AnsweredMoves, ListenerDoneMoves, ProjectedMoves
<1>2. l.at \notin Charging /\ l.at # "clear_retry"
  BY <1>1, AnswersElsewhere
<1> QED
  BY <1>1, <1>2, MoveBudget DEF ConsumerAt

\* One that goes on.
LEMMA GotoBudget ==
  ASSUME TypeInv, BudgetInv, Claimed, NEW p \in Publisher, NEW pc \in Pcs, Goto(p, pc),
         pc \in Charging =>
            /\ pub[p].at \in Charging /\ (pc \in Halfway => pub[p].at \in Halfway),
         At(p, "fail_run") => run' # "RUNNING",
         pc = "clear_retry" => done',
         Dispatches' <= Dispatches, UNCHANGED <<attempt, meta, crashes, slot>>, done => done',
         run' = "RUNNING" => run = "RUNNING",
         ConsumerAt("retry", "guard")' => ConsumerAt("retry", "guard")
  PROVE  BudgetInv' /\ Claimed'
<1>1. PICK l : Moves(p, l) /\ l.at = pc /\ l.tries = pub[p].tries
  BY GotoMoves
<1> QED
  BY <1>1, MoveBudget

LEMMA PublishBudget ==
  ASSUME TypeInv, BudgetInv, Claimed, NEW p \in Publisher, NEW ev \in Event, NEW e \in Attempt,
         Publish(p, ev, e), ~At(p, "fail_run"),
         UNCHANGED <<row, attempt, run, done, meta, crashes, slot, consumer>>
  PROVE  BudgetInv' /\ Claimed'
<1>1. PICK l : /\ Moves(p, l)
               /\ l.at = IF ev \in Ending /\ ListenerFirst THEN "context" ELSE "project"
  BY PublishMoves
<1>2. l.at \notin Charging /\ l.at # "clear_retry"
  BY <1>1, ElsewherePcs
<1>3. Dispatches' <= Dispatches
  BY SameDispatches, SameRowsStay, Counts
<1> QED
  BY <1>1, <1>2, <1>3, MoveBudget DEF ConsumerAt

LEMMA SaveRows ==
  ASSUME TypeInv, StartInv, NEW p \in Publisher, Save(p)
  PROVE  SameRows
<1>1. pub[p].of \in Attempt /\ pub[p].to # "absent" /\ row[pub[p].of] # "absent"
  <2>1. p[1] \in Role
    BY ProjectorRole, Names DEF Save, At, ProjectorPcs
  <2> QED BY <2>1, Carried DEF Save, At, StartInv, SavesState, OwnRow, Local
<1> QED
  BY <1>1 DEF Save, SameRows, TypeInv, TypeOK

\* A failure of the job is counted before a retry of it is queued.
LEMMA DecideBudget ==
  ASSUME TypeInv, BudgetInv, Claimed, NEW p \in Publisher, DecideRetry(p)
  PROVE  BudgetInv' /\ Claimed'
<1>0. /\ At(p, "policy") /\ ~At(p, "fail_run")
      /\ UNCHANGED <<run, done, attempt, meta, slot, consumer, crashes, row>>
  BY DEF DecideRetry, At, engine, queue, world
<1>1. Dispatches' = Dispatches /\ Dispatches \in Nat
  BY <1>0, SameDispatches, SameRowsStay, Counts
<1>2. CASE Answered(p)
  BY <1>0, <1>1, <1>2, ReturnBudget
<1>3. CASE Goto(p, "clear_failed")
  BY <1>0, <1>1, <1>3, PcsOf, ElsewherePcs, GotoBudget DEF ConsumerAt
<1>4. CASE /\ run = "RUNNING"
           /\ pub' = [pub EXCEPT ![p] = [@ EXCEPT !.at = "set_attempt", !.tries = attempt]]
  <2>1. /\ pub'[p].at = "set_attempt" /\ pub'[p].tries = attempt
        /\ \A q \in Publisher : q # p => pub'[q] = pub[q]
    BY <1>4, Carried DEF Local
  <2>2. Claimed'
    BY <1>0, <2>1 DEF Claimed, At
  <2>3. Restarts' = Restarts /\ Restarts \in Nat /\ attempt \in Nat
    BY <1>0, Counts DEF Restarts
  <2>4. Failing' => Failing
    BY <1>0, <2>1 DEF Failing, At
  <2>5. Failing => Failing'
    BY <1>0, <2>1 DEF Failing, At
  <2>6. ASSUME Counted PROVE Counted'
    <3>1. ASSUME ~Failing' PROVE CounterLeads' /\ RetryCounted' /\ GuardCounted'
      <4>1. CounterLeads /\ RetryCounted /\ GuardCounted
        BY <2>5, <2>6, <3>1 DEF Counted
      <4>2. CounterLeads'
        BY <1>0, <1>1, <2>1, <2>3, <4>1, ElsewherePcs DEF CounterLeads
      <4>3. RetryCounted'
        BY <1>0, <1>1, <2>3, <4>1 DEF RetryCounted
      <4>4. GuardCounted'
        BY <1>0, <1>1, <2>1, <2>3, <4>1, ElsewherePcs DEF GuardCounted, ConsumerAt
      <4> QED BY <4>2, <4>3, <4>4
    <3> QED BY <1>0, <1>1, <2>3, <2>6, <3>1 DEF Counted, ConsumerAt
  <2> QED BY <1>0, <2>2, <2>6 DEF BudgetInv
<1> QED
  BY <1>2, <1>3, <1>4 DEF DecideRetry

LEMMA SetAttemptBudget ==
  ASSUME TypeInv, BudgetInv, Claimed, NEW p \in Publisher, SetAttempt(p)
  PROVE  BudgetInv' /\ Claimed'
<1>0. /\ pub[p].at = "set_attempt" /\ Goto(p, "set_marker") /\ attempt' = pub[p].tries + 1
      /\ UNCHANGED <<run, done, meta, slot, consumer, crashes, row>>
  BY DEF SetAttempt, At, queue, world
<1>1. /\ Dispatches' = Dispatches /\ Dispatches \in Nat /\ Restarts' = Restarts
      /\ Restarts \in Nat /\ attempt \in Nat /\ meta \in Nat
      /\ \A q \in Publisher : pub[q].tries \in Nat
  BY <1>0, SameDispatches, SameRowsStay, Counts DEF Restarts
<1>2. PICK l : Moves(p, l) /\ l.at = "set_marker" /\ l.tries = pub[p].tries
  BY <1>0, PcsOf, GotoMoves
<1>3. /\ pub'[p] = l /\ \A q \in Publisher : q # p => pub'[q] = pub[q]
  BY <1>2, Moved
<1>4. Claimed'
  BY <1>0, <1>2, <1>3 DEF Claimed, At
<1>5. Failing => Failing'
  BY <1>0, <1>2, <1>3 DEF Failing, At
<1>6. ASSUME Counted PROVE Counted'
  <2>1. ASSUME ~Failing' PROVE CounterLeads' /\ RetryCounted' /\ GuardCounted'
    <3>1. CounterLeads /\ RetryCounted /\ GuardCounted
      BY <1>5, <1>6, <2>1 DEF Counted
    <3>2. Dispatches <= pub[p].tries + 1 + Restarts
      BY <1>0, <3>1, ElsewherePcs DEF CounterLeads
    <3>3. CounterLeads'
      BY <1>0, <1>1, <1>2, <1>3, <3>1, <3>2, ElsewherePcs DEF CounterLeads
    <3>4. RetryCounted'
      BY <1>0, <1>1, <3>1, <3>2 DEF RetryCounted
    <3>5. GuardCounted'
      <4>1. ASSUME ConsumerAt("retry", "guard") PROVE Dispatches <= pub[p].tries + Restarts
        BY <1>0, <3>1, <4>1, ElsewherePcs DEF GuardCounted
      <4> QED BY <1>0, <1>1, <1>2, <1>3, <3>1, <4>1, ElsewherePcs DEF GuardCounted, ConsumerAt
    <3> QED BY <3>3, <3>4, <3>5
  <2> QED BY <1>0, <1>1, <1>6, <2>1 DEF Counted, ConsumerAt
<1> QED
  BY <1>0, <1>4, <1>6 DEF BudgetInv

LEMMA AddRetryBudget ==
  ASSUME TypeInv, SlotInv, BudgetInv, Claimed, NEW p \in Publisher, AddRetry(p)
  PROVE  BudgetInv' /\ Claimed' /\ SlotInv'
<1>0. /\ pub[p].at = "add" /\ Answered(p) /\ ~At(p, "fail_run")
      /\ UNCHANGED <<run, done, attempt, consumer, crashes, row>>
  BY DEF AddRetry, At, engine, world
<1>1. CASE slot["retry"] # "empty"
  <2>1. UNCHANGED <<slot, meta>>
    BY <1>1 DEF AddRetry
  <2>2. Dispatches' = Dispatches /\ Dispatches \in Nat
    BY <1>0, <2>1, SameDispatches, SameRowsStay, Counts
  <2> QED BY <1>0, <2>1, <2>2, ReturnBudget DEF SlotInv, ConsumerAt
<1>2. CASE slot["retry"] = "empty"
  <2>1. /\ slot' = [slot EXCEPT !["retry"] = "waiting"] /\ meta' = pub[p].tries + 1
        /\ slot'["retry"] = "waiting" /\ \A s \in Slot : s # "retry" => slot'[s] = slot[s]
        /\ "retry" \in Slot /\ "first" \in Slot
    BY <1>2 DEF AddRetry, TypeInv, TypeOK, Slot
  <2>2. SlotInv' /\ ConsumerAt("retry", "idle")
    BY <1>0, <1>2, <2>1 DEF SlotInv, ConsumerAt
  <2>3. Created' = Created /\ FirstDue' = FirstDue /\ RetryDue' = RetryDue
    BY <1>0, <2>1 DEF Created, FirstDue, RetryDue
  <2>4. /\ Dispatches' = Dispatches /\ Dispatches \in Nat /\ Restarts' = Restarts
        /\ Restarts \in Nat /\ attempt \in Nat /\ meta \in Nat
        /\ \A q \in Publisher : pub[q].tries \in Nat
    BY <1>0, <2>3, Counts DEF Restarts, Dispatches
  <2>5. PICK l : Moves(p, l) /\ l.at \notin Charging /\ l.at # "clear_retry"
    BY <1>0, AnsweredMoves, AnswersElsewhere
  <2>6. /\ pub'[p] = l /\ \A q \in Publisher : q # p => pub'[q] = pub[q]
    BY <2>5, Moved
  <2>7. Claimed' /\ (Failing => Failing')
    BY <1>0, <2>5, <2>6 DEF Claimed, Failing, At
  <2>8. ASSUME Counted PROVE Counted'
    <3>1. ASSUME ~Failing' PROVE CounterLeads' /\ RetryCounted'
      <4>1. CounterLeads /\ RetryCounted
        BY <2>7, <2>8, <3>1 DEF Counted
      <4>2. Dispatches <= pub[p].tries + 1 + Restarts /\ Dispatches <= attempt + Restarts
        BY <1>0, <4>1, ElsewherePcs DEF CounterLeads
      <4>3. CounterLeads'
        BY <1>0, <2>4, <2>5, <2>6, <4>1, ElsewherePcs DEF CounterLeads
      <4> QED BY <1>0, <2>1, <2>4, <4>2, <4>3 DEF RetryCounted
    <3>2. ~ConsumerAt("retry", "guard")'
      BY <1>0, <2>2 DEF ConsumerAt
    <3>3. GuardCounted'
      BY <3>2 DEF GuardCounted
    <3> QED BY <1>0, <2>4, <2>8, <3>1, <3>2, <3>3 DEF Counted
  <2> QED BY <1>0, <2>2, <2>7, <2>8 DEF BudgetInv
<1> QED
  BY <1>1, <1>2

\* The counter starts afresh only for a run that is about to fail.
LEMMA ClearFailedBudget ==
  ASSUME TypeInv, BudgetInv, Claimed, NEW p \in Publisher, ClearFailed(p)
  PROVE  BudgetInv' /\ Claimed'
<1>0. /\ pub[p].at = "clear_failed" /\ Goto(p, "fail_run")
      /\ UNCHANGED <<run, done, meta, slot, consumer, crashes, row>>
  BY DEF ClearFailed, At, queue, world
<1>1. Dispatches' = Dispatches /\ Restarts' = Restarts
  BY <1>0, SameDispatches, SameRowsStay DEF Restarts
<1>2. PICK l : Moves(p, l) /\ l.at = "fail_run"
  BY <1>0, PcsOf, GotoMoves
<1>3. /\ pub'[p] = l /\ \A q \in Publisher : q # p => pub'[q] = pub[q]
  BY <1>2, Moved
<1>4. Claimed' /\ Failing'
  BY <1>0, <1>2, <1>3 DEF Claimed, Failing, At
<1>5. Counted => Counted'
  BY <1>0, <1>1, <1>4 DEF Counted, ConsumerAt
<1> QED
  BY <1>0, <1>4, <1>5 DEF BudgetInv

\* The queue forgets what waits: fewer dispatches than before.
LEMMA CloseRunBudget ==
  ASSUME TypeInv, SlotInv, BudgetInv, Claimed, NEW p \in Publisher, CloseRun(p)
  PROVE  BudgetInv' /\ Claimed' /\ SlotInv'
<1>0. /\ Answered(p) /\ ~At(p, "fail_run")
      /\ UNCHANGED <<run, done, attempt, meta, consumer, crashes, row>>
      /\ slot' = [s \in Slot |-> IF slot[s] = "waiting" THEN "empty" ELSE slot[s]]
      /\ "first" \in Slot /\ "retry" \in Slot
  BY DEF CloseRun, At, engine, Slot
<1>1. /\ \A s \in Slot : slot'[s] # "waiting" /\ (slot'[s] = "active" <=> slot[s] = "active")
  BY <1>0
<1>2. SlotInv'
  BY <1>0, <1>1 DEF SlotInv, ConsumerAt
<1>3. Created' = Created /\ RetryDue' = RetryDue /\ (FirstDue' => FirstDue)
  BY <1>0, <1>1 DEF Created, RetryDue, FirstDue
<1>4. Dispatches' <= Dispatches
  BY <1>3, Counts DEF Dispatches
<1> QED
  BY <1>0, <1>1, <1>2, <1>4, ReturnBudget

LEMMA HandleBudget ==
  ASSUME TypeInv, StartInv, SlotInv, BudgetInv, Claimed, NEW p \in Publisher, Handle(p)
  PROVE  BudgetInv' /\ Claimed' /\ SlotInv'
<1>0. Dispatches \in Nat
  BY Counts
<1>1. CASE UNCHANGED <<run, attempt, done, meta, slot, consumer, crashes>> /\ SameRows /\ ~At(p, "fail_run")
  <2>1. Dispatches' = Dispatches /\ SlotInv'
    BY <1>1, SameDispatches DEF SlotInv, ConsumerAt
  <2>2. CASE Answered(p) \/ ListenerDone(p) \/ Projected(p)
    BY <1>0, <1>1, <2>1, <2>2, ReturnBudget
  <2>3. CASE \E pc \in {"gate_completion", "siblings", "policy", "claim", "save"} : Goto(p, pc)
    BY <1>0, <1>1, <2>1, <2>3, PcsOf, ElsewherePcs, GotoBudget DEF ConsumerAt
  <2>4. CASE \/ Goto(p, "set_step") /\ At(p, "set_marker")
             \/ Goto(p, "add") /\ At(p, "set_step")
    BY <1>0, <1>1, <2>1, <2>4, PcsOf, ElsewherePcs, GotoBudget DEF ConsumerAt, At
  <2>5. CASE DecideRetry(p)
    BY <2>1, <2>5, DecideBudget
  <2>6. \/ Answered(p) \/ ListenerDone(p) \/ Projected(p)
        \/ \E pc \in {"gate_completion", "siblings", "policy", "claim", "save"} : Goto(p, pc)
        \/ Goto(p, "set_step") /\ At(p, "set_marker")
        \/ Goto(p, "add") /\ At(p, "set_step")
        \/ DecideRetry(p)
        \/ ClaimCompletion(p) \/ ClearRetryState(p) \/ SetAttempt(p) \/ AddRetry(p)
        \/ ClearFailed(p) \/ FailRun(p) \/ CloseRun(p)
    BY DEF Handle, ReadContext, CheckSiblings, GateCompletion, SetMarker, SetStep, Project, Save
  <2>7. CASE ClaimCompletion(p) /\ ~Answered(p)
    <3>1. Goto(p, "clear_retry") /\ done'
      BY <2>7 DEF ClaimCompletion
    <3> QED BY <1>0, <1>1, <2>1, <3>1, PcsOf, ElsewherePcs, GotoBudget DEF ConsumerAt
  <2>8. CASE SetAttempt(p)
    BY <2>1, <2>8, SetAttemptBudget
  <2>9. CASE ClearFailed(p)
    BY <2>1, <2>9, ClearFailedBudget
  <2> QED
    BY <1>1, <2>2, <2>3, <2>4, <2>5, <2>6, <2>7, <2>8, <2>9, AddRetryBudget, CloseRunBudget
       DEF FailRun, At, ClearRetryState
<1>2. CASE \/ ReadContext(p) \/ CheckSiblings(p) \/ GateCompletion(p) \/ DecideRetry(p)
           \/ SetMarker(p) \/ SetStep(p) \/ Project(p)
  BY <1>1, <1>2, SameRowsStay DEF ReadContext, CheckSiblings, GateCompletion, DecideRetry,
     SetMarker, SetStep, Project, At, engine, queue, world
<1>3. CASE Save(p)
  BY <1>1, <1>3, SaveRows DEF Save, At, engine, queue, world
<1>4. CASE ClaimCompletion(p) \/ ClearRetryState(p)
  <2>1. /\ UNCHANGED <<run, meta, slot, consumer, crashes, row>> /\ ~At(p, "fail_run")
        /\ done' /\ SlotInv'
    BY <1>4 DEF ClaimCompletion, ClearRetryState, Claimed, At, queue, world, SlotInv, ConsumerAt
  <2>2. BudgetInv'
    BY <2>1 DEF BudgetInv
  <2>3. Claimed'
    BY <2>1 DEF Claimed
  <2> QED BY <2>1, <2>2, <2>3
<1>5. CASE SetAttempt(p) \/ ClearFailed(p)
  BY <1>5, SetAttemptBudget, ClearFailedBudget
     DEF SetAttempt, ClearFailed, queue, SlotInv, ConsumerAt
<1>6. CASE FailRun(p)
  <2>1. /\ Goto(p, "close_run") /\ run' # "RUNNING"
        /\ UNCHANGED <<done, attempt, meta, slot, consumer, crashes, row>>
    BY <1>6 DEF FailRun, queue, world
  <2>2. Dispatches' = Dispatches /\ SlotInv'
    BY <2>1, SameDispatches, SameRowsStay DEF SlotInv, ConsumerAt
  <2> QED BY <1>0, <2>1, <2>2, PcsOf, ElsewherePcs, GotoBudget DEF ConsumerAt
<1> QED
  BY <1>2, <1>3, <1>4, <1>5, <1>6, AddRetryBudget, CloseRunBudget DEF Handle

\* A publisher goes on outside the handlers of the engine.
LEMMA AsideBudget ==
  ASSUME TypeInv, SlotInv, BudgetInv, Claimed, NEW p \in Publisher, NEW l, Moves(p, l),
         l.at \notin Charging, l.at # "clear_retry", ~At(p, "fail_run"), SameRows,
         UNCHANGED <<run, attempt, done, meta, slot, consumer, crashes>>
  PROVE  BudgetInv' /\ Claimed' /\ SlotInv'
<1>1. Dispatches' = Dispatches /\ Dispatches \in Nat /\ SlotInv'
  BY SameDispatches, Counts DEF SlotInv, ConsumerAt
<1>2. Dispatches' <= Dispatches
  BY <1>1
<1> QED
  BY <1>1, <1>2, MoveBudget DEF ConsumerAt

LEMMA AsideMoves ==
  ASSUME TypeInv, NEW p \in Publisher
  PROVE  /\ \A pc \in {"find", "probe", "provision", "await", "cleanup", "claim_lease"} : Goto(p, pc) =>
              \E l : Moves(p, l) /\ l.at \notin Charging /\ l.at # "clear_retry"
         /\ \A ev \in Event, e \in Attempt : Publish(p, ev, e) =>
              \E l : Moves(p, l) /\ l.at \notin Charging /\ l.at # "clear_retry"
         /\ \A e \in Attempt : pub' = [pub EXCEPT ![p] = Rest(e)] =>
              \E l : Moves(p, l) /\ l.at \notin Charging /\ l.at # "clear_retry"
<1>1. ASSUME NEW pc \in {"find", "probe", "provision", "await", "cleanup", "claim_lease"}, Goto(p, pc)
      PROVE  \E l : Moves(p, l) /\ l.at \notin Charging /\ l.at # "clear_retry"
  <2>1. pc \in Pcs
    BY PcsOf
  <2>2. PICK l : Moves(p, l) /\ l.at = pc
    BY <1>1, <2>1, GotoMoves
  <2> QED BY <2>2, ElsewherePcs
<1>2. ASSUME NEW ev \in Event, NEW e \in Attempt, Publish(p, ev, e)
      PROVE  \E l : Moves(p, l) /\ l.at \notin Charging /\ l.at # "clear_retry"
  <2>1. PICK l : /\ Moves(p, l)
                 /\ l.at = IF ev \in Ending /\ ListenerFirst THEN "context" ELSE "project"
    BY <1>2, PublishMoves
  <2> QED BY <2>1, ElsewherePcs
<1>3. ASSUME NEW e \in Attempt, pub' = [pub EXCEPT ![p] = Rest(e)]
      PROVE  \E l : Moves(p, l) /\ l.at \notin Charging /\ l.at # "clear_retry"
  BY <1>3, RestFacts, ElsewherePcs DEF Moves
<1> QED
  BY <1>1, <1>2, <1>3

LEMMA WorkBudget ==
  ASSUME TypeInv, SlotInv, BudgetInv, Claimed, NEW e \in Attempt, Work(e)
  PROVE  BudgetInv' /\ Claimed' /\ SlotInv'
<1> DEFINE p == <<"worker", e>>
<1>0. p \in Publisher /\ pub[p] \in Local /\ pub \in [Publisher -> Local]
  BY Publishers, Carried
<1>1. ~At(p, "fail_run") /\ SameRows
  BY SameRowsStay DEF Work, ClaimLease, KillStale, Provision, StartAgent, TurnEnds, Cleanup,
     ReleaseLease, At
<1>2. UNCHANGED <<run, attempt, done, meta, slot, consumer, crashes>>
  BY DEF Work, ClaimLease, KillStale, Provision, StartAgent, TurnEnds, Cleanup,
     ReleaseLease, engine, queue, world
<1>3. \E l : Moves(p, l) /\ l.at \notin Charging /\ l.at # "clear_retry"
  <2>1. CASE TurnEnds(e) /\ ~Goto(p, "cleanup")
    <3> DEFINE l == [pub[p] EXCEPT !.at = "gate_completion", !.ev = "turn_end"]
    <3>1. l \in Local /\ l.at = "gate_completion"
      BY <1>0, PcsOf DEF Local
    <3>2. pub' = [pub EXCEPT ![p] = l]
      BY <1>0, <2>1 DEF TurnEnds
    <3> QED BY <3>1, <3>2, ElsewherePcs DEF Moves
  <2>2. \/ \E pc \in {"provision", "await", "cleanup"} : Goto(p, pc)
        \/ \E ev \in {"provisioning", "provisioned", "failed", "completed"} : Publish(p, ev, e)
        \/ pub' = [pub EXCEPT ![p] = Rest(e)]
        \/ TurnEnds(e) /\ ~Goto(p, "cleanup")
    BY DEF Work, ClaimLease, KillStale, Provision, StartAgent, Cleanup, ReleaseLease
  <2> QED BY <1>0, <2>1, <2>2, Carried, AsideMoves
<1> QED
  BY <1>0, <1>1, <1>2, <1>3, AsideBudget

LEMMA ReportBudget ==
  ASSUME TypeInv, StartInv, SlotInv, BudgetInv, Claimed, NEW e \in Attempt,
         \/ FindRunning(e) \/ Sweep(e) \/ Reap(e) \/ Reconcile(e) \/ LeaveAlone(e)
         \/ AgentEnds(e) \/ Heartbeat(e) \/ ContainerDies(e)
  PROVE  BudgetInv' /\ Claimed' /\ SlotInv'
<1>0. /\ \A r \in Role : <<r, e>> \in Publisher
      /\ \A p \in Publisher : pub[p] \in Local
      /\ pub \in [Publisher -> Local]
  BY Carried, Publishers DEF Role
<1>1. SameRows
  BY SameRowsStay DEF FindRunning, Sweep, Reap, Reconcile, LeaveAlone, AgentEnds, Heartbeat,
     ContainerDies
<1>2. UNCHANGED <<run, attempt, done, meta, slot, consumer, crashes>>
  BY DEF FindRunning, Sweep, Reap, Reconcile, LeaveAlone, AgentEnds, Heartbeat,
     ContainerDies, engine, queue, world
<1>3. CASE UNCHANGED pub
  <2>1. Dispatches' = Dispatches /\ Dispatches \in Nat
    BY <1>1, <1>2, SameDispatches, Counts
  <2>2. BudgetInv'
    BY <1>2, <1>3, <2>1, BudgetStays DEF Failing, At, ConsumerAt
  <2> QED BY <1>2, <1>3, <2>2 DEF Claimed, SlotInv, At, ConsumerAt
<1>4. CASE \E p \in Publisher : ~At(p, "fail_run") /\
              \E l : Moves(p, l) /\ l.at \notin Charging /\ l.at # "clear_retry"
  BY <1>1, <1>2, <1>4, AsideBudget
<1>5. CASE Sweep(e)
  <2> DEFINE p == <<"supervisor", e>>
             l == [pub[p] EXCEPT !.at = "probe", !.to = row[e]]
  <2>1. /\ p \in Publisher /\ pub' = [pub EXCEPT ![p] = l] /\ row[e] \in State
        /\ pub[p] \in Local /\ ~At(p, "fail_run")
    BY <1>0, <1>5, Publishers DEF Sweep, At, TypeInv, TypeOK
  <2>2. l \in Local /\ l.at = "probe"
    BY <2>1, PcsOf DEF Local
  <2> QED BY <1>4, <2>1, <2>2, ElsewherePcs DEF Moves
<1>6. CASE AgentEnds(e)
  <2> DEFINE p == <<"finalizer", e>>
  <2>1. p \in Publisher /\ (Goto(p, "find") \/ UNCHANGED pub) /\ agent[e] = "working"
    BY <1>0, <1>6, Publishers DEF AgentEnds
  <2>2. ~At(p, "fail_run")
    BY <2>1 DEF StartInv, FinalizerEnded, At
  <2> QED BY <1>3, <1>4, <2>1, <2>2, AsideMoves
<1>7. CASE FindRunning(e) \/ Reap(e) \/ Reconcile(e) \/ LeaveAlone(e) \/ Heartbeat(e)
  <2>1. \E p \in Publisher :
          /\ ~At(p, "fail_run")
          /\ \/ \E ev \in {"heartbeat", "completed", "failed", "reaped"}, x \in Attempt : Publish(p, ev, x)
             \/ pub' = [pub EXCEPT ![p] = Rest(e)]
    <3>1. CASE FindRunning(e)
      <4> DEFINE p == <<"finalizer", e>>
      <4>1. p \in Publisher /\ ~At(p, "fail_run")
        BY <3>1, Publishers DEF FindRunning, At
      <4> QED BY <3>1, <4>1 DEF FindRunning
    <3>2. CASE Reap(e) \/ Reconcile(e) \/ LeaveAlone(e)
      <4> DEFINE p == <<"supervisor", e>>
      <4>1. p \in Publisher /\ ~At(p, "fail_run")
        BY <3>2, Publishers DEF Reap, Reconcile, LeaveAlone, At
      <4> QED BY <3>2, <4>1 DEF Reap, Reconcile, LeaveAlone
    <3>3. CASE Heartbeat(e)
      <4> DEFINE p == <<"heartbeat", e>>
      <4>1. p \in Publisher /\ ~At(p, "fail_run")
        BY <3>3, Publishers DEF Heartbeat, At
      <4> QED BY <3>3, <4>1 DEF Heartbeat
    <3> QED BY <1>7, <3>1, <3>2, <3>3
  <2> QED BY <1>4, <2>1, Carried, AsideMoves
<1> QED
  BY <1>3, <1>5, <1>6, <1>7 DEF ContainerDies

Same == UNCHANGED <<run, done, attempt, meta, crashes>>

\* A worker of the queue goes on with the dispatch it has, or drops it.
LEMMA TurnBudget ==
  ASSUME TypeInv, SlotInv, BudgetInv, Claimed, NEW s \in Slot, NEW c,
         consumer' = [consumer EXCEPT ![s] = c],
         c.at \in ToCreate => consumer[s].at \in ToCreate \cup {"activate"},
         c.at \notin {"guard", "activate", "idle"}, ~ConsumerAt(s, "idle"),
         SameRows, Same, UNCHANGED <<slot, pub>>
  PROVE  BudgetInv' /\ Claimed' /\ SlotInv'
<1>1. consumer'[s] = c /\ \A t \in Slot : t # s => consumer'[t] = consumer[t]
  BY DEF TypeInv, TypeOK
<1>2. "first" \in Slot /\ "retry" \in Slot /\ s \in {"first", "retry"}
  BY DEF Slot
<1>3. SlotInv'
  BY <1>1, <1>2 DEF SlotInv, ConsumerAt
<1>4. (FirstDue' => FirstDue) /\ (RetryDue' => RetryDue)
  BY <1>1, <1>2 DEF FirstDue, RetryDue, SlotInv, ToCreate
<1>5. Created' = Created
  BY DEF Created, SameRows
<1>6. Dispatches' <= Dispatches
  BY <1>4, <1>5, Counts DEF Dispatches
<1>7. ConsumerAt("retry", "guard")' => ConsumerAt("retry", "guard")
  BY <1>1, <1>2 DEF ConsumerAt
<1>8. BudgetInv'
  BY <1>6, <1>7, BudgetStays DEF Same, Failing, At
<1>9. Claimed'
  BY DEF Same, Claimed, At
<1> QED
  BY <1>3, <1>8, <1>9

\* The retry is handed out when no failure of the job is being handled.
LEMMA TakeBudget ==
  ASSUME TypeInv, SlotInv, BudgetInv, Claimed, Backoff, NEW s \in Slot, Take(s)
  PROVE  BudgetInv' /\ Claimed' /\ SlotInv'
<1> DEFINE pc == IF s = "retry" THEN "guard" ELSE "preflight"
           c == [consumer[s] EXCEPT !.at = pc]
<1>1. /\ consumer' = [consumer EXCEPT ![s] = c] /\ c.at = pc
      /\ consumer'[s].at = pc /\ \A t \in Slot : t # s => consumer'[t] = consumer[t]
      /\ slot' = [slot EXCEPT ![s] = "active"] /\ slot[s] = "waiting"
      /\ slot'[s] = "active" /\ \A t \in Slot : t # s => slot'[t] = slot[t]
      /\ "first" \in Slot /\ "retry" \in Slot /\ s \in {"first", "retry"}
      /\ ConsumerAt(s, "idle") /\ UNCHANGED <<run, done, attempt, meta, crashes, row, pub>>
  BY DEF Take, Turn, TypeInv, TypeOK, Slot, engine, world
<1>2. SlotInv' /\ Claimed'
  BY <1>1 DEF SlotInv, ConsumerAt, Claimed, At
<1>3. FirstDue' = FirstDue /\ RetryDue' = RetryDue /\ Created' = Created
  BY <1>1 DEF FirstDue, RetryDue, ToCreate, ConsumerAt, Created
<1>4. Dispatches' = Dispatches /\ Dispatches \in Nat
  BY <1>3, Counts DEF Dispatches
<1>5. CASE s = "first"
  <2>1. ConsumerAt("retry", "guard")' => ConsumerAt("retry", "guard")
    BY <1>1, <1>5 DEF ConsumerAt
  <2> QED BY <1>1, <1>2, <1>4, <1>5, <2>1, BudgetStays DEF Failing, At
<1>6. CASE s = "retry"
  <2>1. Settled
    BY <1>6 DEF Take
  <2>2. \A p \in Publisher : pub[p].at \notin Charging /\ pub[p].at # "fail_run"
    BY <2>1 DEF Settled, Charging
  <2>3. /\ Restarts' = Restarts /\ (Failing' <=> Failing) /\ (Failing <=> run # "RUNNING")
        /\ Halfway \subseteq Charging
    BY <1>1, <2>2, ElsewherePcs DEF Restarts, Failing, At
  <2>4. ASSUME Counted PROVE Counted'
    <3>1. ASSUME ~Failing'
          PROVE  CounterLeads' /\ RetryCounted' /\ GuardCounted' /\ Dispatches' <= meta' + Restarts'
      <4>1. /\ CounterLeads
            /\ Dispatches <= meta + Restarts /\ Dispatches <= attempt + Restarts
        BY <1>1, <1>6, <2>3, <2>4, <3>1 DEF Counted, RetryCounted
      <4>2. RetryCounted'
        BY <1>1, <1>6 DEF RetryCounted
      <4> QED BY <1>1, <1>4, <2>2, <2>3, <4>1, <4>2 DEF CounterLeads, GuardCounted
    <3> QED BY <1>1, <1>4, <2>3, <2>4, <3>1 DEF Counted
  <2> QED BY <1>1, <1>2, <2>4 DEF BudgetInv
<1> QED
  BY <1>1, <1>5, <1>6

\* The retry is dispatched when the counter, its own number and the executions
\* there are fit.
LEMMA GuardBudget ==
  ASSUME TypeInv, SlotInv, BudgetInv, Claimed, NEW s \in Slot, GuardRetry(s)
  PROVE  BudgetInv' /\ Claimed' /\ SlotInv'
<1>1. /\ consumer[s].at = "guard" /\ s = "retry" /\ slot["retry"] = "active"
      /\ UNCHANGED <<run, done, attempt, meta, crashes, row, pub, slot>>
      /\ "first" \in Slot /\ "retry" \in Slot
  BY DEF GuardRetry, ConsumerAt, SlotInv, Slot, engine, world, TypeInv, TypeOK
<1>2. CASE Turn(s, "ack")
  <2> DEFINE c == [consumer[s] EXCEPT !.at = "ack"]
  <2>1. consumer' = [consumer EXCEPT ![s] = c] /\ c.at = "ack"
    BY <1>2 DEF Turn, TypeInv, TypeOK
  <2>2. c.at \notin ToCreate
    BY <2>1 DEF ToCreate
  <2> QED BY <1>1, <2>1, <2>2, SameRowsStay, TurnBudget DEF Same, ConsumerAt
<1>3. CASE Turn(s, "activate") /\ run = "RUNNING" /\ attempt = meta
  <2>1. /\ consumer'["retry"].at = "activate" /\ consumer'["first"] = consumer["first"]
    BY <1>1, <1>3 DEF Turn, TypeInv, TypeOK
  <2>2. SlotInv' /\ Claimed'
    BY <1>1, <2>1 DEF SlotInv, ConsumerAt, Claimed, At, Slot
  <2>3. Created' = Created /\ FirstDue' = FirstDue /\ RetryDue' /\ ~RetryDue
    BY <1>1, <2>1 DEF Created, FirstDue, RetryDue, ToCreate
  <2>4. /\ Dispatches' = Dispatches + 1 /\ Dispatches \in Nat /\ Restarts' = Restarts
        /\ Restarts \in Nat /\ attempt \in Nat /\ meta \in Nat /\ MaxRetries \in Nat
        /\ meta <= MaxRetries /\ \A q \in Publisher : pub[q].tries \in Nat
    BY <1>1, <2>3, Counts DEF Restarts, Dispatches
  <2>5. ASSUME Counted PROVE Counted'
    <3>1. Dispatches <= meta + Restarts
      BY <1>1, <1>3, <2>5 DEF Counted, ConsumerAt
    <3>2. ~ConsumerAt("retry", "guard")'
      BY <2>1 DEF ConsumerAt
    <3>3. ASSUME ~Failing' PROVE CounterLeads' /\ RetryCounted' /\ GuardCounted'
      <4>1. CounterLeads /\ GuardCounted
        BY <1>1, <2>5, <3>3 DEF Counted, Failing, At
      <4>2. /\ Dispatches <= attempt + Restarts
            /\ \A p \in Publisher : pub[p].at \in Charging => Dispatches <= pub[p].tries + Restarts
            /\ \A p \in Publisher : pub[p].at \in Halfway => Dispatches < attempt + Restarts
        BY <1>1, <4>1 DEF GuardCounted, ConsumerAt
      <4>3. CounterLeads'
        BY <1>1, <2>4, <4>2 DEF CounterLeads
      <4>4. RetryCounted' /\ GuardCounted'
        BY <1>1, <3>2 DEF RetryCounted, GuardCounted
      <4> QED BY <4>3, <4>4
    <3> QED BY <2>4, <3>1, <3>2, <3>3 DEF Counted
  <2> QED BY <1>1, <2>2, <2>5 DEF BudgetInv
<1> QED
  BY <1>2, <1>3 DEF GuardRetry

\* A dispatch becomes an execution.
LEMMA CreateBudget ==
  ASSUME TypeInv, SlotInv, BudgetInv, Claimed, NEW s \in Slot, CreateExecution(s)
  PROVE  BudgetInv' /\ Claimed' /\ SlotInv'
<1>1. PICK e \in Attempt :
        /\ row[e] = "absent" /\ row' = [row EXCEPT ![e] = "pending"]
        /\ consumer' = [consumer EXCEPT ![s] = [@ EXCEPT !.at = "created", !.new = e]]
  BY DEF CreateExecution
<1>2. /\ UNCHANGED <<run, done, attempt, meta, crashes, slot, pub>>
      /\ consumer[s].at = "create" /\ consumer'[s].at = "created"
      /\ \A t \in Slot : t # s => consumer'[t] = consumer[t]
      /\ "first" \in Slot /\ "retry" \in Slot /\ s \in {"first", "retry"}
      /\ \A x \in Attempt : row'[x] = IF x = e THEN "pending" ELSE row[x]
  BY <1>1 DEF CreateExecution, ConsumerAt, engine, world, TypeInv, TypeOK, Slot
<1>3. Created' = Created \cup {e} /\ e \notin Created
  BY <1>1, <1>2 DEF Created
<1>4. Cardinality(Created') = Cardinality(Created) + 1
  BY <1>3, Counts, FS_AddElement
<1>5. SlotInv' /\ Claimed'
  BY <1>2 DEF SlotInv, ConsumerAt, Claimed, At
<1>6. CASE s = "first"
  <2>1. slot["first"] = "active"
    BY <1>2, <1>6 DEF SlotInv, ConsumerAt, TypeInv, TypeOK
  <2>2. FirstDue /\ ~FirstDue' /\ RetryDue' = RetryDue
    BY <1>2, <1>6, <2>1 DEF FirstDue, RetryDue, ToCreate
  <2>3. Dispatches' <= Dispatches
    BY <1>4, <2>2, Counts DEF Dispatches
  <2> QED BY <1>2, <1>5, <2>3, BudgetStays DEF Failing, At, ConsumerAt
<1>7. CASE s = "retry"
  <2>1. RetryDue /\ ~RetryDue' /\ FirstDue' = FirstDue
    BY <1>2, <1>7 DEF FirstDue, RetryDue, ToCreate
  <2>2. Dispatches' <= Dispatches
    BY <1>4, <2>1, Counts DEF Dispatches
  <2> QED BY <1>2, <1>5, <2>2, BudgetStays DEF Failing, At, ConsumerAt
<1> QED
  BY <1>2, <1>6, <1>7

LEMMA PublishCreatedBudget ==
  ASSUME TypeInv, StartInv, SlotInv, BudgetInv, Claimed, NEW s \in Slot, PublishCreated(s)
  PROVE  BudgetInv' /\ Claimed' /\ SlotInv'
<1> DEFINE p == <<"worker", consumer[s].new>>
<1>1. p \in Publisher /\ At(p, "idle") /\ SameRows /\ Goto(p, "claim_lease")
  BY PublishCreatedStart, Publishers DEF PublishCreated
<1>2. /\ UNCHANGED <<run, done, attempt, meta, crashes, slot>>
      /\ consumer[s].at = "created" /\ consumer'[s].at = "ack"
      /\ \A t \in Slot : t # s => consumer'[t] = consumer[t]
      /\ "first" \in Slot /\ "retry" \in Slot /\ s \in {"first", "retry"}
  BY DEF PublishCreated, Turn, ConsumerAt, engine, world, TypeInv, TypeOK, Slot
<1>3. SlotInv'
  BY <1>2 DEF SlotInv, ConsumerAt
<1>4. Created' = Created /\ FirstDue' = FirstDue /\ RetryDue' = RetryDue
  BY <1>1, <1>2 DEF Created, SameRows, FirstDue, RetryDue, ToCreate
<1>5. Dispatches' <= Dispatches
  BY <1>4, Counts DEF Dispatches
<1>6. ConsumerAt("retry", "guard")' => ConsumerAt("retry", "guard")
  BY <1>2 DEF ConsumerAt
<1>7. ~At(p, "fail_run")
  BY <1>1 DEF At
<1> QED
  BY <1>1, <1>2, <1>3, <1>5, <1>6, <1>7, AsideMoves, MoveBudget

LEMMA AcknowledgeBudget ==
  ASSUME TypeInv, SlotInv, BudgetInv, Claimed, NEW s \in Slot, Acknowledge(s)
  PROVE  BudgetInv' /\ Claimed' /\ SlotInv'
<1>1. /\ UNCHANGED <<run, done, attempt, meta, crashes, row, pub>>
      /\ consumer[s].at = "ack" /\ consumer'[s].at = "idle" /\ slot'[s] = "empty"
      /\ \A t \in Slot : t # s => consumer'[t] = consumer[t] /\ slot'[t] = slot[t]
      /\ "first" \in Slot /\ "retry" \in Slot /\ s \in {"first", "retry"}
  BY DEF Acknowledge, NoJob, ConsumerAt, engine, world, TypeInv, TypeOK, Slot
<1>2. SlotInv' /\ Claimed'
  BY <1>1 DEF SlotInv, ConsumerAt, Claimed, At
<1>3. Created' = Created /\ (FirstDue' => FirstDue) /\ (RetryDue' => RetryDue)
  BY <1>1 DEF Created, FirstDue, RetryDue, ToCreate
<1>4. Dispatches' <= Dispatches
  BY <1>3, Counts DEF Dispatches
<1> QED
  BY <1>1, <1>2, <1>4, BudgetStays DEF Failing, At, ConsumerAt

\* process() gives the dispatch to a handler of the engine instead.
LEMMA CallBudget ==
  ASSUME TypeInv, StartInv, SlotInv, BudgetInv, Claimed, NEW s \in Slot, Preflight(s),
         ~UNCHANGED pub
  PROVE  BudgetInv' /\ Claimed' /\ SlotInv'
<1> DEFINE p == <<s, 1>>
<1>1. /\ p \in Publisher /\ At(p, "idle") /\ consumer'[s].at = "called"
      /\ \A t \in Slot : t # s => consumer'[t] = consumer[t]
  BY CallFacts
<1>2. PICK l : Moves(p, l) /\ l.at \in {"gate_completion", "policy"}
  BY CallFacts
<1>3. /\ UNCHANGED <<run, done, attempt, meta, crashes, slot, row>> /\ consumer[s].at = "preflight"
      /\ "first" \in Slot /\ "retry" \in Slot /\ s \in {"first", "retry"}
  BY DEF Preflight, ConsumerAt, engine, world, Slot
<1>4. SlotInv'
  BY <1>1, <1>3 DEF SlotInv, ConsumerAt
<1>5. Created' = Created /\ (FirstDue' => FirstDue) /\ (RetryDue' => RetryDue)
  BY <1>1, <1>3 DEF Created, FirstDue, RetryDue, ToCreate
<1>6. Dispatches' <= Dispatches
  BY <1>5, Counts DEF Dispatches
<1>7. /\ ConsumerAt("retry", "guard")' => ConsumerAt("retry", "guard")
      /\ ~At(p, "fail_run") /\ l.at \notin Charging /\ l.at # "clear_retry"
  BY <1>1, <1>2, <1>3, ElsewherePcs DEF ConsumerAt, At
<1> QED
  BY <1>1, <1>2, <1>3, <1>4, <1>6, <1>7, MoveBudget

LEMMA ConsumeBudget ==
  ASSUME TypeInv, StartInv, SlotInv, BudgetInv, Claimed, Backoff, NEW s \in Slot, Consume(s)
  PROVE  BudgetInv' /\ Claimed' /\ SlotInv'
<1>0. /\ consumer[s] \in Turns /\ consumer \in [Slot -> Turns]
  BY DEF TypeInv, TypeOK, Turns
<1>c. CASE Preflight(s) /\ ~UNCHANGED pub
  BY <1>c, CallBudget
<1>1. CASE MarkActivated(s) \/ HandlerReturns(s) \/ (Preflight(s) /\ UNCHANGED pub)
  <2>1. PICK pc \in {"preflight", "called", "prior", "ack"} :
          Turn(s, pc) /\ (HandlerReturns(s) => pc = "ack")
    BY <1>1 DEF MarkActivated, HandlerReturns, Preflight
  <2> DEFINE c == [consumer[s] EXCEPT !.at = pc]
  <2>2. /\ consumer' = [consumer EXCEPT ![s] = c] /\ c.at = pc
        /\ c.at \in ToCreate => consumer[s].at \in ToCreate \cup {"activate"}
        /\ consumer[s].at # "idle"
        /\ SameRows /\ Same /\ UNCHANGED <<slot, pub>>
    BY <1>0, <1>1, <2>1, SameRowsStay
       DEF MarkActivated, HandlerReturns, Preflight, Turn, Turns, ToCreate, ConsumerAt, Same,
           engine, world
  <2> QED BY <2>1, <2>2, TurnBudget DEF ConsumerAt
<1>2. CASE FindPrior(s)
  <2> DEFINE prior == {x \in Attempt : Live(row[x])}
             c == [consumer[s] EXCEPT !.at = IF prior = {} THEN "create" ELSE "cancel", !.prior = prior]
  <2>1. /\ consumer' = [consumer EXCEPT ![s] = c] /\ c.at \in {"create", "cancel"}
        /\ consumer[s].at = "prior" /\ SameRows /\ Same /\ UNCHANGED <<slot, pub>>
    BY <1>0, <1>2, SameRowsStay DEF FindPrior, Turns, ConsumerAt, Same, engine, world
  <2> QED BY <2>1, TurnBudget DEF ConsumerAt, ToCreate
<1>3. ASSUME NEW x
      PROVE  Without(consumer[s], x).at \in {"create", "cancel"}
  BY <1>0 DEF Without, Turns
<1>4. CASE CancelPrior(s)
  <2>1. PICK x \in consumer[s].prior :
          consumer' = [consumer EXCEPT ![s] =
            IF "cancelled" \in Edges(row[x])
            THEN [@ EXCEPT !.at = "cancel_save", !.new = x] ELSE Without(@, x)]
    BY <1>4 DEF CancelPrior
  <2> DEFINE c == IF "cancelled" \in Edges(row[x])
                  THEN [consumer[s] EXCEPT !.at = "cancel_save", !.new = x]
                  ELSE Without(consumer[s], x)
  <2>2. /\ consumer' = [consumer EXCEPT ![s] = c] /\ c.at \in {"cancel_save", "create", "cancel"}
        /\ consumer[s].at = "cancel" /\ SameRows /\ Same /\ UNCHANGED <<slot, pub>>
    BY <1>0, <1>3, <1>4, <2>1, SameRowsStay DEF CancelPrior, Turns, ConsumerAt, Same, engine, world
  <2> QED BY <2>2, TurnBudget DEF ConsumerAt, ToCreate
<1>5. CASE SaveCancelled(s)
  <2> DEFINE c == Without(consumer[s], consumer[s].new)
  <2>1. /\ consumer' = [consumer EXCEPT ![s] = c] /\ c.at \in {"create", "cancel"}
        /\ consumer[s].at = "cancel_save" /\ Same /\ UNCHANGED <<slot, pub>>
    BY <1>0, <1>3, <1>5 DEF SaveCancelled, ConsumerAt, Same, engine, world
  <2>2. SameRows
    BY <1>5 DEF SaveCancelled, SameRows, StartInv, Unborn, TypeInv, TypeOK
  <2> QED BY <2>1, <2>2, TurnBudget DEF ConsumerAt, ToCreate
<1> QED
  BY <1>c, <1>1, <1>2, <1>4, <1>5, TakeBudget, GuardBudget, CreateBudget, PublishCreatedBudget,
     AcknowledgeBudget DEF Consume

\* A restart hands one job out again, and adds a whole budget.
LEMMA CrashBudget ==
  ASSUME TypeInv, SlotInv, BudgetInv, Crash
  PROVE  BudgetInv' /\ Claimed' /\ SlotInv'
<1>1. /\ UNCHANGED <<run, done, attempt, meta, row>> /\ crashes' = crashes + 1
      /\ \A p \in Publisher : pub'[p] = Rest(p[2])
      /\ \A s \in Slot : consumer'[s].at = "idle"
      /\ slot' = [s \in Slot |-> IF slot[s] = "active" THEN "waiting" ELSE slot[s]]
      /\ "first" \in Slot /\ "retry" \in Slot
  BY DEF Crash, NoJob, engine, Slot
<1>2. \A p \in Publisher : pub'[p].at = "idle"
  BY <1>1, Publishers, RestFacts
<1>3. SlotInv' /\ Claimed'
  BY <1>1, <1>2 DEF SlotInv, ConsumerAt, Claimed, At
<1>4. /\ Dispatches \in Nat /\ Dispatches' \in Nat /\ Restarts \in Nat /\ attempt \in Nat
      /\ meta \in Nat /\ MaxRetries \in Nat /\ crashes \in Nat
  BY Counts, CountsLater, AttemptsAssumption DEF TypeInv, TypeOK
<1>5. Restarts' = Restarts + (MaxRetries + 2)
  BY <1>1, <1>4 DEF Restarts
<1>6. Created' = Created /\ ~RetryDue'
  BY <1>1 DEF Created, RetryDue, ToCreate
<1>7. Dispatches' <= Dispatches + 1
  BY <1>4, <1>6, Counts DEF Dispatches
<1>8. ~ConsumerAt("retry", "guard")' /\ \A p \in Publisher : pub'[p].at \notin Charging \cup Halfway
  BY <1>1, <1>2, ElsewherePcs DEF ConsumerAt
<1>9. ASSUME Counted PROVE Counted'
  <2>1. Dispatches' <= Restarts'
    BY <1>4, <1>5, <1>7, <1>9 DEF Counted
  <2>2. CounterLeads'
    BY <1>1, <1>4, <1>5, <1>8, <2>1 DEF CounterLeads
  <2>3. RetryCounted' /\ GuardCounted'
    BY <1>1, <1>4, <1>5, <1>8, <2>1 DEF RetryCounted, GuardCounted
  <2> QED BY <1>4, <1>5, <1>8, <2>1, <2>2, <2>3 DEF Counted
<1> QED
  BY <1>1, <1>3, <1>9 DEF BudgetInv

LEMMA InitBudget == Init => BudgetInv /\ Claimed /\ SlotInv
<1> SUFFICES ASSUME Init PROVE BudgetInv /\ Claimed /\ SlotInv
  OBVIOUS
<1>1. /\ \A p \in Publisher : pub[p] = Rest(p[2])
      /\ \A s \in Slot : consumer[s].at = "idle"
      /\ slot["first"] = "waiting" /\ slot["retry"] = "empty" /\ attempt = 0 /\ crashes = 0
      /\ \A e \in Attempt : row[e] = "absent"
  BY DEF Init, NoJob, Slot
<1>2. \A p \in Publisher : pub[p].at = "idle"
  BY <1>1, Publishers, RestFacts
<1>3. SlotInv /\ Claimed
  BY <1>1, <1>2 DEF SlotInv, ConsumerAt, Claimed, At, Slot
<1>4. Cardinality(Created) = 0
  <2>1. Created = {}
    BY <1>1 DEF Created
  <2> QED BY <2>1, FS_EmptySet
<1>5. FirstDue /\ ~RetryDue /\ MaxRetries \in Nat
  BY <1>1, AttemptsAssumption DEF FirstDue, RetryDue, ToCreate, Slot
<1>6. Dispatches = 1 /\ Restarts = 0
  BY <1>1, <1>4, <1>5 DEF Dispatches, Restarts
<1>7. Counted
  BY <1>1, <1>2, <1>5, <1>6, ElsewherePcs DEF Counted, CounterLeads, RetryCounted, GuardCounted, ConsumerAt, Slot
<1> QED
  BY <1>3, <1>7 DEF BudgetInv

LEMMA NextBudget ==
  ASSUME TypeInv, StartInv, SlotInv, BudgetInv, Claimed, Backoff, [Next]_vars
  PROVE  BudgetInv' /\ Claimed' /\ SlotInv'
<1>1. ASSUME NEW p \in Publisher, Proceed(p)
      PROVE  BudgetInv' /\ Claimed' /\ SlotInv'
  <2>1. p[2] \in Attempt
    BY Publishers
  <2> QED
    BY <1>1, <2>1, HandleBudget, WorkBudget, ReportBudget DEF Proceed
<1>2. ASSUME NEW e \in Attempt,
             \/ Sweep(e) \/ Reap(e) \/ Reconcile(e)
             \/ AgentEnds(e) \/ Heartbeat(e) \/ ContainerDies(e)
      PROVE  BudgetInv' /\ Claimed' /\ SlotInv'
  BY <1>2, ReportBudget
<1>3. ASSUME NEW s \in Slot, Consume(s)
      PROVE  BudgetInv' /\ Claimed' /\ SlotInv'
  BY <1>3, ConsumeBudget
<1>4. CASE Crash
  BY <1>4, CrashBudget
<1>5. CASE MoveStep \/ CompleteRun \/ Over \/ UNCHANGED vars
  <2>1. /\ UNCHANGED <<done, attempt, meta, crashes, row, pub, slot, consumer>>
        /\ UNCHANGED run \/ (done /\ UNCHANGED done)
    BY <1>5 DEF Over, MoveStep, CompleteRun, vars, queue, world
  <2>2. Dispatches' = Dispatches /\ Dispatches \in Nat
    BY <2>1, SameDispatches, SameRowsStay, Counts
  <2>3. SlotInv' /\ Claimed'
    BY <2>1 DEF SlotInv, Claimed, ConsumerAt, At
  <2>4. CASE UNCHANGED run
    BY <2>1, <2>2, <2>3, <2>4, BudgetStays DEF Failing, At, ConsumerAt
  <2>5. CASE done /\ UNCHANGED done
    BY <2>3, <2>5 DEF BudgetInv
  <2> QED BY <2>1, <2>4, <2>5
<1> QED
  BY <1>1, <1>2, <1>3, <1>4, <1>5 DEF Next

\* Whoever reports a failure of the job, and however often, the job is executed
\* at most MaxRetries times more than once before it completes, and every
\* restart adds at most one more budget: whatever the numbers of executions,
\* retries and restarts, whichever reports arrive and in either order of the
\* subscribers, provided that the delay of a retry outlasts the failure
\* handlers in flight.  What carries the proof is that every dispatch that has
\* happened or can no longer be refused is matched by the counter, by the
\* counter that a failure handler has read, or by the end of the run
\* (scheduleWorkflowAutoRetry raises the counter before it queues the retry,
\* shouldSkipStaleAutoRetryJob compares it with the number of the retry).
THEOREM BudgetKeptHolds ==
  ASSUME Backoff
  PROVE  Spec => []BudgetKept
<1> DEFINE IInv == TypeInv /\ StartInv /\ SlotInv /\ BudgetInv /\ Claimed
<1>1. Init => IInv
  BY InitInv, InitStart, InitBudget
<1>2. IInv /\ [Next]_vars => IInv'
  BY NextInv, NextStart, NextBudget
<1>3. IInv => BudgetKept
  <2> SUFFICES ASSUME IInv, NEW s \in Slot, ConsumerAt(s, "create"), ~done
               PROVE  Cardinality(Created) <= MaxRetries + Restarts
    BY DEF BudgetKept, Created, Restarts
  <2>1. FirstDue \/ RetryDue
    BY DEF FirstDue, RetryDue, ToCreate, ConsumerAt, Slot
  <2>2. Dispatches >= Cardinality(Created) + 1 /\ Dispatches <= MaxRetries + 1 + Restarts
    BY <2>1, Counts DEF Dispatches, BudgetInv, Counted
  <2> QED BY <2>2, Counts
<1> QED
  BY <1>1, <1>2, <1>3, PTL DEF Spec
=============================================================================
