--------------------------- MODULE PlexilExecProofs ---------------------------
(***************************************************************************)
(* The executive, for every plan and all values of the conditions: facts   *)
(* about the node state machine, mutual exclusion, types, that a node only *)
(* moves to a legal successor of its state, and that the executive         *)
(* implements the abstract Reservations.  The invariant that carries the   *)
(* proofs, QueuesAreSound, says what the queue a node is on tells of it;   *)
(* most of the work is to show that a notification moves no node that is   *)
(* on a queue already.                                                     *)
(***************************************************************************)
EXTENDS PlexilExec, DataLemmas

-----------------------------------------------------------------------------
(* The node state machine *)

\* Whatever a node's conditions are, getDestState() leaves a next state, an
\* outcome and a failure type in m_nextState, m_nextOutcome, m_nextFailureType.
THEOREM DestStateTyped ==
  ASSUME NEW type \in NodeType, NEW s \in NodeState, NEW c
  PROVE  DestState(type, s, c) \in Destination
<1> USE DEF Destination, To, ToState, NoTransition, NodeState, Outcome, FailureType
<1>1. \A self \in {"ITERATION_ENDED", "FAILING"}, ancestor \in {"FINISHED", "FAILING"} :
        InterruptedTo(c, self, ancestor) \in Destination
  BY DEF InterruptedTo
<1>2. IterationOver(c) \in Destination
  BY DEF IterationOver
<1>3. FromInactive(c) \in Destination
  BY DEF FromInactive
<1>4. FromWaiting(c) \in Destination
  BY DEF FromWaiting
<1>5. FromExecuting(type, c) \in Destination
  BY <1>1, <1>2 DEF FromExecuting
<1>6. FromFinishing(c) \in Destination
  BY <1>1, <1>2 DEF FromFinishing
<1>7. FromFailing(type, c) \in Destination
  BY DEF FromFailing
<1>8. FromIterationEnded(c) \in Destination
  BY DEF FromIterationEnded
<1>9. FromFinished(c) \in Destination
  BY DEF FromFinished
<1> QED  BY <1>3, <1>4, <1>5, <1>6, <1>7, <1>8, <1>9 DEF DestState

\* The next state is one of the "Legal successor states" that the comment before
\* each state's methods lists, for every node type.
THEOREM DestStateLegal ==
  ASSUME NEW type \in NodeType, NEW s \in NodeState, NEW c,
         DestState(type, s, c).state # "NO_STATE"
  PROVE  DestState(type, s, c).state \in LegalSuccessor(type, s)
<1> USE DEF To, ToState, NoTransition, NodeState, NodeType
<1>1. \A self \in {"ITERATION_ENDED", "FAILING"}, ancestor \in {"FINISHED", "FAILING"} :
        InterruptedTo(c, self, ancestor).state \in {self, ancestor}
  BY DEF InterruptedTo
<1>2. IterationOver(c).state = "ITERATION_ENDED"
  BY DEF IterationOver
<1>3. FromInactive(c).state \in {"WAITING", "FINISHED", "NO_STATE"}
  BY DEF FromInactive
<1>4. FromWaiting(c).state \in {"EXECUTING", "FINISHED", "ITERATION_ENDED", "NO_STATE"}
  BY DEF FromWaiting
<1>5. FromExecuting(type, c).state \in LegalSuccessor(type, "EXECUTING") \cup {"NO_STATE"}
  <2>1. CASE type = "Empty"
    BY <2>1, <1>1, <1>2 DEF FromExecuting, LegalSuccessor
  <2>2. CASE type \in {"List", "Command"}
    BY <2>2, <1>1 DEF FromExecuting, LegalSuccessor
  <2>3. CASE type \in {"Assignment", "Update"}
    BY <2>3, <1>1, <1>2 DEF FromExecuting, LegalSuccessor
  <2> QED  BY <2>1, <2>2, <2>3
<1>6. FromFinishing(c).state \in {"FAILING", "ITERATION_ENDED", "NO_STATE"}
  BY <1>1, <1>2 DEF FromFinishing
<1>7. FromFailing(type, c).state \in {"FINISHED", "ITERATION_ENDED", "NO_STATE"}
  BY DEF FromFailing
<1>8. FromIterationEnded(c).state \in {"FINISHED", "WAITING", "NO_STATE"}
  BY DEF FromIterationEnded
<1>9. FromFinished(c).state \in {"INACTIVE", "NO_STATE"}
  BY DEF FromFinished
<1> QED  BY <1>3, <1>4, <1>5, <1>6, <1>7, <1>8, <1>9 DEF DestState, LegalSuccessor

\* No state is a legal successor of itself, and EXECUTING is one of WAITING only.
LEMMA LegalSuccessorFacts ==
  ASSUME NEW type \in NodeType, NEW s \in NodeState
  PROVE  /\ s \notin LegalSuccessor(type, s)
         /\ LegalSuccessor(type, s) \subseteq NodeState
         /\ "EXECUTING" \in LegalSuccessor(type, s) <=> s = "WAITING"
         /\ LegalSuccessor(type, s) \cap {"FINISHING", "FAILING"} # {} =>
              s \in {"EXECUTING", "FINISHING"}
  BY DEF LegalSuccessor, NodeState, NodeType

\* An update that has not been acknowledged can only fail, and then waits for it.
LEMMA UnacknowledgedFails ==
  ASSUME NEW s \in {"EXECUTING", "FAILING"}, NEW c, c.end # "T", c.actionComplete # "T"
  PROVE  DestState("Update", s, c).state \in {"NO_STATE", "FAILING"}
<1>1. CASE s = "EXECUTING"
  BY <1>1 DEF DestState, FromExecuting, InterruptedTo, To, NoTransition, ToState
<1>2. CASE s = "FAILING"
  BY <1>2 DEF DestState, FromFailing, To, NoTransition, ToState
<1> QED  BY <1>1, <1>2

\* An assignment goes nowhere before it has been executed, or retracted.
LEMMA AssignmentWaits ==
  ASSUME NEW s, NEW c, DestState("Assignment", s, c).state # "NO_STATE"
  PROVE  /\ s = "EXECUTING" => c.actionComplete = "T"
         /\ s = "FAILING" => c.abortComplete = "T"
BY DEF DestState, FromExecuting, FromFailing, To, NoTransition, ToState

-----------------------------------------------------------------------------
(* Outcomes and failure types *)

\* A failure type goes with an outcome that says there was a failure.
Agree(oc, ft) == oc \in {"FAILURE", "INTERRUPTED"} <=> ft # "NO_FAILURE"

\* The outcome and the failure type of a node in state s.
OutcomeFits(s, oc, ft) ==
  /\ Agree(oc, ft)
  /\ oc # "NO_OUTCOME" <=> s \in {"FAILING", "ITERATION_ENDED", "FINISHED"}
  /\ s = "FAILING" => ft # "NO_FAILURE"

\* What NodeImpl::transition() makes of them, and of the destination d, on leaving s.
ResetBy(s, t) == (s = "ITERATION_ENDED" /\ t = "WAITING") \/ s = "FINISHED"

OutcomeLeft(s, d, oc) ==
  IF d.outcome # "NO_OUTCOME" THEN d.outcome
  ELSE IF ResetBy(s, d.state) THEN "NO_OUTCOME" ELSE oc

FailureLeft(s, d, ft) ==
  IF d.outcome # "NO_OUTCOME" /\ d.failure # "NO_FAILURE" THEN d.failure
  ELSE IF ResetBy(s, d.state) THEN "NO_FAILURE" ELSE ft

\* getDestState() sets the outcome and the failure type whenever the next state needs
\* them: those of a node that fit its state fit the next one after the transition.
THEOREM DestStateFits ==
  ASSUME NEW type \in NodeType, NEW s \in NodeState, NEW c, NEW oc, NEW ft,
         OutcomeFits(s, oc, ft)
  PROVE  LET d == DestState(type, s, c)
         IN  /\ d.state \in {"NO_STATE", "EXECUTING"} =>
                  d.outcome = "NO_OUTCOME" /\ d.failure = "NO_FAILURE"
             /\ d.state # "NO_STATE" =>
                  OutcomeFits(d.state, OutcomeLeft(s, d, oc), FailureLeft(s, d, ft))
<1> USE DEF To, ToState, NoTransition
<1> DEFINE Fits(d) == /\ d.state \in {"NO_STATE", "EXECUTING"} =>
                           d.outcome = "NO_OUTCOME" /\ d.failure = "NO_FAILURE"
                      /\ d.state # "NO_STATE" =>
                           OutcomeFits(d.state, OutcomeLeft(s, d, oc), FailureLeft(s, d, ft))
           Cut(d) == /\ d.outcome \in {"FAILURE", "INTERRUPTED"} /\ d.failure # "NO_FAILURE"
                     /\ d.state \in {"FAILING", "ITERATION_ENDED", "FINISHED"}
<1>1. ASSUME NEW d, Cut(d) PROVE Fits(d)
  BY <1>1 DEF OutcomeFits, Agree, OutcomeLeft, FailureLeft
<1>2. \A self \in {"ITERATION_ENDED", "FAILING"}, ancestor \in {"FINISHED", "FAILING"} :
        Cut(InterruptedTo(c, self, ancestor))
  BY DEF InterruptedTo
<1>3. ASSUME NEW self \in {"ITERATION_ENDED", "FAILING"}, NEW ancestor \in {"FINISHED", "FAILING"}
      PROVE  Fits(InterruptedTo(c, self, ancestor))
  <2> HIDE DEF Cut, Fits
  <2> QED  BY <1>1, <1>2
<1>4. ASSUME s \in {"EXECUTING", "FINISHING"} PROVE Fits(IterationOver(c))
  BY <1>4 DEF IterationOver, OutcomeFits, Agree, OutcomeLeft, FailureLeft, ResetBy
<1>5. Fits(NoTransition)
  OBVIOUS
<1>6. CASE s = "INACTIVE"
  <2>1. Fits(ToState("WAITING")) /\ Fits(To("FINISHED", "SKIPPED", "NO_FAILURE"))
    BY <1>6 DEF OutcomeFits, Agree, OutcomeLeft, FailureLeft, ResetBy
  <2>2. FromInactive(c) \in {ToState("WAITING"), To("FINISHED", "SKIPPED", "NO_FAILURE"),
                             NoTransition}
    BY DEF FromInactive
  <2> HIDE DEF Fits, To, ToState, NoTransition
  <2> QED  BY <1>5, <1>6, <2>1, <2>2 DEF DestState, Fits
<1>7. CASE s = "WAITING"
  <2>1. /\ Fits(ToState("EXECUTING")) /\ Fits(To("FINISHED", "SKIPPED", "NO_FAILURE"))
        /\ Fits(To("ITERATION_ENDED", "FAILURE", "PRE_CONDITION_FAILED"))
    BY <1>7 DEF OutcomeFits, Agree, OutcomeLeft, FailureLeft, ResetBy
  <2>2. FromWaiting(c) \in {ToState("EXECUTING"), To("FINISHED", "SKIPPED", "NO_FAILURE"),
                            To("ITERATION_ENDED", "FAILURE", "PRE_CONDITION_FAILED"),
                            NoTransition}
    BY DEF FromWaiting
  <2> HIDE DEF Fits, To, ToState, NoTransition
  <2> QED  BY <1>5, <1>7, <2>1, <2>2 DEF DestState, Fits
<1>8. CASE s = "EXECUTING"
  <2>1. Fits(ToState("FINISHING"))
    BY <1>8 DEF OutcomeFits, Agree, OutcomeLeft, FailureLeft, ResetBy
  <2>2. FromExecuting(type, c) \in {InterruptedTo(c, "ITERATION_ENDED", "FINISHED"),
                                    InterruptedTo(c, "FAILING", "FAILING"),
                                    ToState("FINISHING"), IterationOver(c), NoTransition}
    BY DEF FromExecuting
  <2> HIDE DEF Fits, To, ToState, NoTransition
  <2> QED  BY <1>3, <1>4, <1>5, <1>8, <2>1, <2>2 DEF DestState, Fits
<1>9. CASE s = "FINISHING"
  <2>1. FromFinishing(c) \in {InterruptedTo(c, "FAILING", "FAILING"), IterationOver(c),
                              NoTransition}
    BY DEF FromFinishing
  <2> HIDE DEF Fits, To, ToState, NoTransition
  <2> QED  BY <1>3, <1>4, <1>5, <1>9, <2>1 DEF DestState, Fits
<1>10. CASE s = "FAILING"
  <2>1. Fits(ToState("FINISHED")) /\ Fits(ToState("ITERATION_ENDED"))
    BY <1>10 DEF OutcomeFits, Agree, OutcomeLeft, FailureLeft, ResetBy
  <2>2. FromFailing(type, c) \in {ToState("FINISHED"), ToState("ITERATION_ENDED"), NoTransition}
    BY DEF FromFailing
  <2> HIDE DEF Fits, To, ToState, NoTransition
  <2> QED  BY <1>5, <1>10, <2>1, <2>2 DEF DestState, Fits
<1>11. CASE s = "ITERATION_ENDED"
  <2>1. Fits(ToState("FINISHED")) /\ Fits(ToState("WAITING"))
    BY <1>11 DEF OutcomeFits, Agree, OutcomeLeft, FailureLeft, ResetBy
  <2>2. /\ Fits(To("FINISHED", "INTERRUPTED", "PARENT_EXITED"))
        /\ Fits(To("FINISHED", "FAILURE", "PARENT_FAILED"))
    BY <1>1
  <2>3. FromIterationEnded(c) \in {ToState("FINISHED"), ToState("WAITING"), NoTransition,
                                   To("FINISHED", "INTERRUPTED", "PARENT_EXITED"),
                                   To("FINISHED", "FAILURE", "PARENT_FAILED")}
    BY DEF FromIterationEnded
  <2> HIDE DEF Fits, To, ToState, NoTransition
  <2> QED  BY <1>5, <1>11, <2>1, <2>2, <2>3 DEF DestState, Fits
<1>12. CASE s = "FINISHED"
  <2>1. Fits(ToState("INACTIVE"))
    BY <1>12 DEF OutcomeFits, Agree, OutcomeLeft, FailureLeft, ResetBy
  <2>2. FromFinished(c) \in {ToState("INACTIVE"), NoTransition}
    BY DEF FromFinished
  <2> HIDE DEF Fits, To, ToState, NoTransition
  <2> QED  BY <1>5, <1>12, <2>1, <2>2 DEF DestState, Fits
<1> HIDE DEF Fits
<1> QED
  BY <1>6, <1>7, <1>8, <1>9, <1>10, <1>11, <1>12 DEF NodeState, Fits

-----------------------------------------------------------------------------
(* The queues *)

USE DEF At

\* Queue statuses, candidates and fault as a notification may leave them.
SoundQueues(q) ==
  /\ q.status \in [Node -> QueueStatus]
  /\ q.candidates \in Seq(Node)
  /\ q.fault \in Fault
  /\ IsInjective(q.candidates)
  /\ ToSet(q.candidates) = {n \in Node : q.status[n] = "CHECK"}

TransitionStatus == {"TRANSITION", "TRANSITION_CHECK"}

\* A status of a node on the same queue, of the pending and the state change queue.
SameQueue(s, t) == /\ s \in PendingStatus <=> t \in PendingStatus
                   /\ s \in TransitionStatus <=> t \in TransitionStatus

-----------------------------------------------------------------------------
(* Notifications *)

\* NodeImpl::notify() makes candidates of idle nodes and otherwise only marks.
LEMMA NotifyFacts ==
  ASSUME NEW q, SoundQueues(q), NEW S \in SUBSET Node
  PROVE  /\ SoundQueues(Notify(q, S))
         /\ \A n \in Node : SameQueue(q.status[n], Notify(q, S).status[n])
<1> DEFINE idle == {n \in S : q.status[n] = "NONE"}
           new == Notify(q, S)
<1>1. /\ new.status = [n \in Node |-> IF n \in S THEN Notified(q.status[n]) ELSE q.status[n]]
      /\ new.candidates = q.candidates \o InOrder[idle]
      /\ new.fault \in {"notify", q.fault}
  BY DEF Notify
<1> HIDE DEF new
<1>2. ASSUME NEW n \in Node
      PROVE  /\ new.status[n] \in QueueStatus
             /\ SameQueue(q.status[n], new.status[n])
             /\ new.status[n] = "CHECK" <=> q.status[n] = "CHECK" \/ n \in idle
  <2>1. q.status[n] \in QueueStatus
    BY DEF SoundQueues
  <2>2. new.status[n] = IF n \in S THEN Notified(q.status[n]) ELSE q.status[n]
    BY <1>1
  <2> QED
    BY <2>1, <2>2 DEF Notified, QueueStatus, SameQueue, PendingStatus, TransitionStatus
<1>3. /\ InOrder[idle] \in Seq(Node) /\ ToSet(InOrder[idle]) = idle
      /\ IsInjective(InOrder[idle])
  <2>1. idle \in SUBSET Node
    OBVIOUS
  <2> HIDE DEF idle
  <2> QED  BY <2>1, OrderAssumption DEF ToSet, IsInjective
<1>4. ToSet(q.candidates) \cap idle = {}
  BY DEF SoundQueues
<1>5. /\ new.candidates \in Seq(Node) /\ IsInjective(new.candidates)
      /\ ToSet(new.candidates) = ToSet(q.candidates) \cup idle
  <2> HIDE DEF idle
  <2> QED  BY <1>1, <1>3, <1>4, ConcatFacts DEF SoundQueues
<1>6. ToSet(new.candidates) = {n \in Node : new.status[n] = "CHECK"}
  BY <1>2, <1>5 DEF SoundQueues
<1>7. new.status \in [Node -> QueueStatus]
  BY <1>1, <1>2
<1>8. new.fault \in Fault
  BY <1>1 DEF SoundQueues, Fault
<1> QED  BY <1>2, <1>5, <1>6, <1>7, <1>8 DEF SoundQueues, new

\* So does a release of resources.
LEMMA NotifyAvailableFacts ==
  ASSUME NEW q, SoundQueues(q), NEW R
  PROVE  /\ SoundQueues(NotifyAvailable(q, R))
         /\ \A n \in Node : SameQueue(q.status[n], NotifyAvailable(q, R).status[n])
<1> DEFINE new == NotifyAvailable(q, R)
<1>1. /\ new.status = [n \in Node |-> IF \E r \in R : n \in waiters[r]
                                      THEN Available(q.status[n]) ELSE q.status[n]]
      /\ new.candidates = q.candidates
      /\ new.fault = q.fault
  BY DEF NotifyAvailable
<1> HIDE DEF new
<1>2. ASSUME NEW n \in Node
      PROVE  /\ new.status[n] \in QueueStatus
             /\ SameQueue(q.status[n], new.status[n])
             /\ new.status[n] = "CHECK" <=> q.status[n] = "CHECK"
  <2>1. q.status[n] \in QueueStatus
    BY DEF SoundQueues
  <2>2. new.status[n] \in {q.status[n], Available(q.status[n])}
    BY <1>1
  <2> QED
    BY <2>1, <2>2 DEF Available, QueueStatus, SameQueue, PendingStatus, TransitionStatus
<1> QED  BY <1>1, <1>2 DEF SoundQueues, new

\* The queues q with another status of n.
StatusOf(q, n, s, new) == /\ SoundQueues(new)
                          /\ new.status = [q.status EXCEPT ![n] = s]
                          /\ new.fault = q.fault

\* A node that is not a candidate gets another status that does not make it one.
LEMMA WithStatusFacts ==
  ASSUME NEW q, SoundQueues(q), NEW n \in Node, q.status[n] # "CHECK",
         NEW s \in QueueStatus, s # "CHECK"
  PROVE  StatusOf(q, n, s, WithStatus(q, n, s))
<1>1. /\ WithStatus(q, n, s).status = [q.status EXCEPT ![n] = s]
      /\ WithStatus(q, n, s).candidates = q.candidates
      /\ WithStatus(q, n, s).fault = q.fault
  BY DEF WithStatus
<1>2. \A m \in Node : WithStatus(q, n, s).status[m] = IF m = n THEN s ELSE q.status[m]
  BY <1>1 DEF SoundQueues
<1> QED  BY <1>1, <1>2 DEF SoundQueues, StatusOf

\* The statuses nodes get when they leave the candidate queue.
LEMMA OtherStatuses ==
  /\ "NONE" \in QueueStatus /\ "NONE" # "CHECK"
  /\ "DELETE" \in QueueStatus /\ "DELETE" # "CHECK"
  /\ "PENDING" \in QueueStatus /\ "PENDING" # "CHECK"
  /\ "PENDING_TRY" \in QueueStatus /\ "PENDING_TRY" # "CHECK"
  /\ "TRANSITION" \in QueueStatus /\ "TRANSITION" # "CHECK"
  BY DEF QueueStatus

\* A failed assertion leaves the queues as they are.
LEMMA WithFaultFacts ==
  ASSUME NEW q, SoundQueues(q), NEW f \in Fault
  PROVE  /\ SoundQueues(WithFault(q, f)) /\ WithFault(q, f).status = q.status
         /\ WithFault(q, f).candidates = q.candidates
  BY DEF WithFault, SoundQueues

LEMMA CheckedFacts ==
  ASSUME NEW q, SoundQueues(q), NEW n \in Node
  PROVE  /\ SoundQueues(Checked(q, n)) /\ Checked(q, n).status = q.status
         /\ Checked(q, n).candidates = q.candidates
<1>1. CASE AncestorsInactive(n)
  BY <1>1, WithFaultFacts DEF Checked, Fault
<1>2. CASE ~AncestorsInactive(n)
  BY <1>2 DEF Checked
<1> QED  BY <1>1, <1>2

LEMMA WithoutFacts ==
  ASSUME NEW q \in Seq(Node), NEW n \in ToSet(q)
  PROVE  /\ Without(q, n) \in Seq(Node)
         /\ IsInjective(q) => /\ IsInjective(Without(q, n))
                              /\ ToSet(Without(q, n)) = ToSet(q) \ {n}
<1> DEFINE i == CHOOSE j \in DOMAIN q : q[j] = n
<1>1. i \in DOMAIN q /\ q[i] = n
  BY DEF ToSet
<1>2. Without(q, n) = RemoveAt(q, i)
  BY DEF Without
<1> HIDE DEF i
<1> QED  BY <1>1, <1>2, RemoveFacts

\* What addFinishedRootNode() does to the queues concerns the root only.
LEMMA FinishFacts ==
  ASSUME NEW q, SoundQueues(q), NEW n \in Node
  PROVE  /\ SoundQueues(Finish(q, n))
         /\ \A m \in Node \ {n} : Finish(q, n).status[m] = q.status[m]
<1>1. CASE q.status[n] = "CHECK"
  <2> DEFINE new == Finish(q, n)
  <2>1. /\ new.status = [q.status EXCEPT ![n] = "DELETE"]
        /\ new.candidates = Without(q.candidates, n) /\ new.fault = q.fault
    BY <1>1 DEF Finish
  <2> HIDE DEF new
  <2>2. /\ new.status \in [Node -> QueueStatus] /\ new.status[n] = "DELETE"
        /\ \A m \in Node \ {n} : new.status[m] = q.status[m]
    BY <2>1 DEF SoundQueues, QueueStatus
  <2>3. /\ new.candidates \in Seq(Node) /\ IsInjective(new.candidates)
        /\ ToSet(new.candidates) = ToSet(q.candidates) \ {n}
    BY <1>1, <2>1, WithoutFacts DEF SoundQueues
  <2> QED  BY <2>1, <2>2, <2>3 DEF SoundQueues, new
<1>2. CASE q.status[n] = "NONE"
  <2>1. /\ SoundQueues(WithStatus(q, n, "DELETE"))
        /\ WithStatus(q, n, "DELETE").status = [q.status EXCEPT ![n] = "DELETE"]
    <3>1. StatusOf(q, n, "DELETE", WithStatus(q, n, "DELETE"))
      BY <1>2, WithStatusFacts, OtherStatuses
    <3> QED  BY <3>1 DEF StatusOf
  <2> QED  BY <1>2, <2>1 DEF Finish, SoundQueues
<1>3. CASE q.status[n] \notin {"CHECK", "NONE"}
  BY <1>3, WithFaultFacts DEF Finish, Fault
<1> QED  BY <1>1, <1>2, <1>3

LEMMA QueuesNow ==
  ASSUME TypeOK, CandidatesAreSound
  PROVE  /\ SoundQueues(queues) /\ queues.status = queueStatus
         /\ queues.candidates = candidateQueue /\ queues.fault = fault
  BY DEF TypeOK, CandidatesAreSound, SoundQueues, queues

-----------------------------------------------------------------------------
(* Steps that move no node between queues *)

\* What QueuesAreSound speaks of, besides the queue statuses and the candidates.
queueing == <<state, next, holder, pendingQueue, stateChangeQueue, priorityNodes, cursor>>

\* A step that only notifies nodes keeps the queues sound.
LEMMA OnlyNotified ==
  ASSUME TypeOK, QueuesAreSound, NEW q, SoundQueues(q), QueuesBecome(q),
         \A n \in Node : SameQueue(queueStatus[n], q.status[n]),
         UNCHANGED <<queueing, phase>>
  PROVE  QueuesAreSound'
<1> USE DEF queueing
<1>1. CandidatesAreSound'
  BY DEF SoundQueues, QueuesBecome, CandidatesAreSound
<1>2. \A n \in Node : SameQueue(queueStatus[n], queueStatus'[n])
  BY DEF QueuesBecome
<1>3. ToSet(pendingQueue) \subseteq Node /\ ToSet(stateChangeQueue) \subseteq Node
  BY TypeOK DEF TypeOK, ToSet
<1>4. PendingIsSound'
  BY <1>2, <1>3 DEF QueuesAreSound, PendingIsSound, IsPending, SameQueue
<1>5. ChangesAreSound'
  <2>1. \A n \in ToSet(stateChangeQueue) :
          queueStatus'[n] \in TransitionStatus \cup PendingStatus
    BY <1>2, <1>3 DEF QueuesAreSound, ChangesAreSound, CanMove, SameQueue, TransitionStatus
  <2> QED  BY <2>1 DEF QueuesAreSound, ChangesAreSound, CanMove, Holds, TransitionStatus
<1>6. WalkIsSound'
  BY DEF QueuesAreSound, WalkIsSound
<1>7. MutualExclusion'
  BY DEF QueuesAreSound, MutualExclusion, Holds
<1> QED  BY <1>1, <1>4, <1>5, <1>6, <1>7 DEF QueuesAreSound

\* So does one that only goes on to another phase, if that phase has its queues.
LEMMA OnlyPhase ==
  ASSUME QueuesAreSound,
         UNCHANGED <<state, next, holder, pendingQueue, stateChangeQueue, priorityNodes,
                     queueStatus, candidateQueue>>,
         phase' \in {"idle", "effects"} => stateChangeQueue = <<>>,
         WalkIsSound'
  PROVE  QueuesAreSound'
<1>1. CandidatesAreSound' /\ PendingIsSound'
  BY DEF QueuesAreSound, CandidatesAreSound, PendingIsSound, IsPending
<1>2. ChangesAreSound' /\ MutualExclusion'
  BY DEF QueuesAreSound, ChangesAreSound, CanMove, MutualExclusion, Holds
<1> QED  BY <1>1, <1>2 DEF QueuesAreSound

\* Nodes that are told of a change, and nobody else, at one or two places.
LEMMA OneNotification ==
  ASSUME TypeOK, QueuesAreSound, NEW S \in SUBSET Node, NEW T \in SUBSET Node,
         QueuesBecome(Notify(queues, S)) \/ QueuesBecome(Notify(Notify(queues, S), T)),
         UNCHANGED <<queueing, phase>>
  PROVE  QueuesAreSound'
<1>1. SoundQueues(queues) /\ queues.status = queueStatus
  BY QueuesNow DEF QueuesAreSound
<1>2. /\ SoundQueues(Notify(queues, S))
      /\ \A n \in Node : SameQueue(queueStatus[n], Notify(queues, S).status[n])
  BY <1>1, NotifyFacts
<1>3. /\ SoundQueues(Notify(Notify(queues, S), T))
      /\ \A n \in Node : SameQueue(queueStatus[n], Notify(Notify(queues, S), T).status[n])
  <2>1. SoundQueues(Notify(Notify(queues, S), T))
    BY <1>2, NotifyFacts
  <2>2. \A n \in Node : SameQueue(Notify(queues, S).status[n],
                                  Notify(Notify(queues, S), T).status[n])
    BY <1>2, NotifyFacts
  <2> QED  BY <2>1, <2>2, <1>2 DEF SameQueue
<1>4. CASE QueuesBecome(Notify(queues, S))
  BY <1>4, <1>2, OnlyNotified
<1>5. CASE QueuesBecome(Notify(Notify(queues, S), T))
  BY <1>5, <1>3, OnlyNotified
<1> QED  BY <1>4, <1>5

\* The phases of a step follow each other only when their queues are done.
LEMMA PhaseSteps ==
  ASSUME TypeOK, QueuesAreSound, StartStep \/ AllChecked \/ GroupDone \/ BatchDone \/ StepDone
  PROVE  QueuesAreSound'
<1> USE DEF condVars, queueVars, resourceVars, nodeVars, resolveVars
<1>1. CASE StartStep
  <2>1. WalkIsSound'
    BY <1>1 DEF StartStep, QueuesAreSound, WalkIsSound
  <2> QED  BY <1>1, <2>1, OnlyPhase DEF StartStep
<1>2. CASE AllChecked
  <2>1. pendingQueue \in Seq(Node) /\ priorityNodes = <<>>
    BY <1>2 DEF TypeOK, AllChecked, QueuesAreSound, WalkIsSound
  <2>2. phase' = "gather" => pendingQueue # <<>> /\ cursor' = Head(pendingQueue)
    BY <1>2 DEF AllChecked, AfterCheck
  <2>3. phase' = "gather" => 1 \in DOMAIN pendingQueue /\ cursor' = pendingQueue[1]
    BY <2>1, <2>2
  <2>4. phase' # "acquire"
    BY <1>2 DEF AllChecked, AfterCheck
  <2>5. ToSet(priorityNodes) = {} /\ IsInjective(priorityNodes)
    BY <2>1 DEF ToSet, IsInjective
  <2>6. WalkIsSound'
    BY <1>2, <2>1, <2>3, <2>4, <2>5 DEF AllChecked, WalkIsSound
  <2> QED  BY <1>2, <2>6, OnlyPhase DEF AllChecked, AfterCheck
<1>3. CASE GroupDone
  <2>1. /\ phase = "acquire" /\ priorityNodes = <<>>
        /\ UNCHANGED <<pendingQueue, priorityNodes, cursor>>
        /\ phase' # "acquire" /\ phase' = "gather" => cursor # None
    BY <1>3 DEF GroupDone
  <2>2. ToSet(priorityNodes) = {} /\ IsInjective(priorityNodes)
    BY <2>1 DEF ToSet, IsInjective
  <2>3. cursor # None => \E i \in DOMAIN pendingQueue : cursor = pendingQueue[i]
    BY <2>1 DEF QueuesAreSound, WalkIsSound, ToSet
  <2>4. WalkIsSound'
    BY <1>3, <2>1, <2>2, <2>3 DEF WalkIsSound, GroupDone
  <2> QED  BY <1>3, <2>4, OnlyPhase DEF GroupDone
<1>4. CASE BatchDone
  <2>1. WalkIsSound'
    BY <1>4 DEF BatchDone, QueuesAreSound, WalkIsSound
  <2> QED  BY <1>4, <2>1, OnlyPhase DEF BatchDone
<1>5. CASE StepDone
  <2>1. WalkIsSound'
    BY <1>5 DEF StepDone, Performed, QueuesAreSound, WalkIsSound
  <2>2. stateChangeQueue = <<>>
    BY <1>5 DEF StepDone, Performed, QueuesAreSound, ChangesAreSound
  <2> QED  BY <1>5, <2>1, <2>2, OnlyPhase DEF StepDone
<1> QED  BY <1>1, <1>2, <1>3, <1>4, <1>5

\* What is done for a node at the end of a step, or comes in between steps, only
\* notifies nodes.
LEMMA NotifyingSteps ==
  ASSUME TypeOK, QueuesAreSound, NEW n \in Node,
         \/ ExecuteAssignment(n) \/ RetractAssignment(n) \/ ExecuteCommand(n)
         \/ InvokeAbort(n) \/ ExecuteUpdate(n) \/ AddPlan(n)
         \/ \E h \in Handle : CommandHandleReturn(n, h)
         \/ \E v \in TruthValue : CommandReturn(n, v)
         \/ \E b \in BOOLEAN : CommandAbortAcknowledge(n, b) \/ UpdateAcknowledge(n, b)
  PROVE  QueuesAreSound'
<1> USE DEF condVars, queueVars, resourceVars, nodeVars, resolveVars, effectVars, queueing
<1>1. \A source : Listening(source) \in SUBSET Node
  BY DEF Listening, Listeners
<1>2. CASE ExecuteAssignment(n) \/ RetractAssignment(n)
  <2>1. UNCHANGED <<queueing, phase>>
    BY <1>2 DEF ExecuteAssignment, RetractAssignment, EffectsUnchanged
  <2>2. \E S \in SUBSET Node : QueuesBecome(Notify(Notify(queues, S), {n}))
    <3>1. \E v : SetVariable(n, v)
      BY <1>2 DEF ExecuteAssignment, RetractAssignment
    <3> QED  BY <3>1, <1>1 DEF SetVariable
  <2> QED  BY <2>1, <2>2, OneNotification
<1>3. CASE ExecuteCommand(n) \/ \E h \in Handle : CommandHandleReturn(n, h)
  <2>1. UNCHANGED <<queueing, phase>>
    BY <1>3 DEF ExecuteCommand, CommandHandleReturn, EffectsUnchanged, WorldUnchanged
  <2>2. CASE UNCHANGED queueVars
    BY <2>1, <2>2, OnlyPhase DEF QueuesAreSound, ChangesAreSound, WalkIsSound
  <2>3. CASE \E h : SetCommandHandle(n, h)
    <3>1. \E S \in SUBSET Node : QueuesBecome(Notify(queues, S))
      BY <2>3 DEF SetCommandHandle
    <3> QED  BY <2>1, <3>1, OneNotification
  <2> QED  BY <1>3, <2>2, <2>3 DEF ExecuteCommand, CommandHandleReturn
<1>4. CASE InvokeAbort(n) \/ ExecuteUpdate(n)
  <2>1. UNCHANGED <<queueing, phase, queueVars>>
    BY <1>4 DEF InvokeAbort, ExecuteUpdate, EffectsUnchanged
  <2> QED  BY <2>1, OnlyPhase DEF QueuesAreSound, ChangesAreSound, WalkIsSound
<1>5. CASE \/ AddPlan(n)
           \/ \E v \in TruthValue : CommandReturn(n, v)
           \/ \E b \in BOOLEAN : CommandAbortAcknowledge(n, b) \/ UpdateAcknowledge(n, b)
  <2>1. UNCHANGED <<queueing, phase>>
    BY <1>5 DEF AddPlan, CommandReturn, CommandAbortAcknowledge, UpdateAcknowledge, WorldUnchanged
  <2>2. \E S \in SUBSET Node : QueuesBecome(Notify(queues, S))
    BY <1>5, <1>1 DEF AddPlan, CommandReturn, CommandAbortAcknowledge, UpdateAcknowledge
  <2> QED  BY <2>1, <2>2, OneNotification
<1> QED  BY <1>2, <1>3, <1>4, <1>5

\* A lookup value and the deletion of plans concern no node in particular.
LEMMA WorldSteps ==
  ASSUME TypeOK, QueuesAreSound,
         DeleteFinishedPlans \/ \E l \in Lookup, v \in TruthValue : LookupReturn(l, v)
  PROVE  QueuesAreSound'
<1> USE DEF condVars, queueVars, resourceVars, nodeVars, resolveVars, effectVars, queueing
<1>1. UNCHANGED <<queueing, phase>>
  BY DEF DeleteFinishedPlans, LookupReturn, WorldUnchanged
<1>2. CASE DeleteFinishedPlans
  BY <1>1, <1>2, OnlyPhase DEF DeleteFinishedPlans, QueuesAreSound, ChangesAreSound, WalkIsSound
<1>3. CASE \E l \in Lookup, v \in TruthValue : LookupReturn(l, v)
  <2>1. \E S \in SUBSET Node : QueuesBecome(Notify(queues, S))
    BY <1>3 DEF LookupReturn, Listening, Listeners
  <2> QED  BY <1>1, <2>1, OneNotification
<1> QED  BY <1>2, <1>3

-----------------------------------------------------------------------------
(* Steps that move one node *)

\* The other nodes stay where they are and keep what they hold; what holds of n in
\* its new place has to be shown in each case.
LEMMA OneMoved ==
  ASSUME TypeOK, QueuesAreSound, NEW n \in Node,
         CandidatesAreSound',
         IsInjective(pendingQueue)', IsInjective(stateChangeQueue)',
         ToSet(pendingQueue)' \subseteq ToSet(pendingQueue) \cup {n},
         ToSet(stateChangeQueue)' \subseteq ToSet(stateChangeQueue) \cup {n},
         \A m \in Node \ {n} :
           /\ SameQueue(queueStatus[m], queueStatus'[m])
           /\ state'[m] = state[m] /\ next'[m] = next[m]
           /\ state[m] \in Running \/ m \in ToSet(stateChangeQueue) =>
                \A r \in Resources(m) : holder[r] = m => holder'[r] = m,
         n \in ToSet(pendingQueue)' => IsPending(n)',
         n \in ToSet(stateChangeQueue)' => CanMove(n)',
         state'[n] \in Running => Holds(n)',
         phase' \in {"idle", "effects"} => stateChangeQueue' = <<>>,
         WalkIsSound'
  PROVE  QueuesAreSound'
<1>1. ToSet(pendingQueue) \subseteq Node /\ ToSet(stateChangeQueue) \subseteq Node
  BY TypeOK DEF TypeOK, ToSet
<1>2. ASSUME NEW m \in ToSet(pendingQueue)' PROVE IsPending(m)'
  <2>1. CASE m = n
    BY <2>1
  <2>2. CASE m # n
    <3>1. m \in ToSet(pendingQueue) /\ IsPending(m)
      BY <2>2 DEF QueuesAreSound, PendingIsSound
    <3>2. m \in Node \ {n}
      BY <2>2, <3>1, <1>1
    <3> QED  BY <3>1, <3>2 DEF IsPending, SameQueue
  <2> QED  BY <2>1, <2>2
<1>3. ASSUME NEW m \in ToSet(stateChangeQueue)' PROVE CanMove(m)'
  <2>1. CASE m = n
    BY <2>1
  <2>2. CASE m # n
    <3>1. m \in ToSet(stateChangeQueue) /\ CanMove(m)
      BY <2>2 DEF QueuesAreSound, ChangesAreSound
    <3>2. m \in Node \ {n}
      BY <2>2, <3>1, <1>1
    <3>3. Holds(m) => Holds(m)'
      BY <3>1, <3>2 DEF Holds
    <3>4. queueStatus'[m] \in {"TRANSITION", "TRANSITION_CHECK"} \cup PendingStatus
      BY <3>1, <3>2 DEF CanMove, SameQueue, TransitionStatus
    <3> QED  BY <3>1, <3>2, <3>3, <3>4 DEF CanMove
  <2> QED  BY <2>1, <2>2
<1>4. ASSUME NEW m \in Node, state'[m] \in Running PROVE Holds(m)'
  <2>1. CASE m = n
    BY <2>1, <1>4
  <2>2. CASE m # n
    BY <2>2, <1>4 DEF QueuesAreSound, MutualExclusion, Holds
  <2> QED  BY <2>1, <2>2
<1> QED
  BY <1>2, <1>3, <1>4 DEF QueuesAreSound, PendingIsSound, ChangesAreSound, MutualExclusion

\* Where getDestState() may send a node.
LEMMA EvaluatedFacts ==
  ASSUME TypeOK, NEW n \in Node
  PROVE  /\ Evaluated(n) \in Destination
         /\ Evaluated(n).state # "NO_STATE" =>
              Evaluated(n).state \in LegalSuccessor(Type[n], state[n])
         /\ Evaluated(n).state = "EXECUTING" => state[n] = "WAITING"
<1> DEFINE d == DestState(Type[n], state[n], ValuesOf(n))
<1>1. /\ Type[n] \in NodeType /\ state[n] \in NodeState /\ next[n] \in Destination
  BY PlanAssumption DEF TypeOK
<1>2. /\ d \in Destination
      /\ d.state # "NO_STATE" => d.state \in LegalSuccessor(Type[n], state[n])
  BY <1>1, DestStateTyped, DestStateLegal
<1>3. Evaluated(n) = [state   |-> d.state,
                      outcome |-> IF d.outcome = "NO_OUTCOME" THEN next[n].outcome ELSE d.outcome,
                      failure |-> IF d.failure = "NO_FAILURE" THEN next[n].failure ELSE d.failure]
  BY DEF Evaluated
<1> HIDE DEF d
<1>4. Evaluated(n) \in Destination /\ Evaluated(n).state = d.state
  BY <1>1, <1>2, <1>3 DEF Destination
<1>5. d.state = "EXECUTING" => state[n] = "WAITING"
  BY <1>1, <1>2, LegalSuccessorFacts
<1> QED  BY <1>2, <1>4, <1>5

\* A candidate is on no other queue, and joins the one its evaluation calls for.
LEMMA CheckCandidateSound ==
  ASSUME TypeOK, QueuesAreSound, NEW n \in Node, CheckCandidate(n)
  PROVE  QueuesAreSound'
<1> DEFINE popped == [queues EXCEPT !.status[n] = "NONE", !.candidates = Tail(@)]
           q == Checked(popped, n)
<1>1. /\ SoundQueues(queues) /\ queues.status = queueStatus
      /\ queues.candidates = candidateQueue /\ queues.fault = fault
  BY QueuesNow DEF QueuesAreSound
<1>2. /\ phase = "check" /\ candidateQueue # <<>> /\ n = Head(candidateQueue)
      /\ next' = [next EXCEPT ![n] = Evaluated(n)]
      /\ UNCHANGED <<state, holder, priorityNodes, cursor, phase>>
  BY DEF CheckCandidate, condVars, resourceVars, resolveVars
<1>3. /\ popped.status = [queueStatus EXCEPT ![n] = "NONE"]
      /\ popped.candidates = Tail(candidateQueue) /\ popped.fault = fault
  BY <1>1 DEF queues
<1>4. /\ IsInjective(Tail(candidateQueue)) /\ Tail(candidateQueue) \in Seq(Node)
      /\ ToSet(Tail(candidateQueue)) = {m \in Node : queueStatus[m] = "CHECK"} \ {n}
      /\ n \in ToSet(candidateQueue) /\ queueStatus[n] = "CHECK"
  BY <1>1, <1>2, TailFacts DEF SoundQueues
<1> HIDE DEF popped
<1>5. SoundQueues(popped)
  BY <1>1, <1>3, <1>4 DEF SoundQueues, QueueStatus
<1>6. SoundQueues(q) /\ q.status = popped.status
  BY <1>5, CheckedFacts
<1> HIDE DEF q
<1>7. SoundQueues(q) /\ q.status = [queueStatus EXCEPT ![n] = "NONE"]
  BY <1>3, <1>6
<1>8. /\ next'[n] = Evaluated(n) /\ \A m \in Node \ {n} : next'[m] = next[m]
      /\ \A m \in Node : queueStatus[m] \in QueueStatus
  BY <1>2 DEF TypeOK
<1>9. n \notin ToSet(pendingQueue) /\ n \notin ToSet(stateChangeQueue)
  BY <1>4 DEF QueuesAreSound, PendingIsSound, IsPending, ChangesAreSound, CanMove, PendingStatus
<1>10. /\ IsInjective(pendingQueue) /\ IsInjective(stateChangeQueue)
       /\ pendingQueue \in Seq(Node) /\ stateChangeQueue \in Seq(Node)
  BY DEF TypeOK, QueuesAreSound, PendingIsSound, ChangesAreSound
<1>11. state[n] \in Running => Holds(n)
  BY DEF QueuesAreSound, MutualExclusion
<1>12. Holds(n)' <=> Holds(n)
  BY <1>2 DEF Holds
<1>13. \A m \in Node \ {n} : \A r \in Resources(m) : holder[r] = m => holder'[r] = m
  BY <1>2
<1>14. priorityNodes' = <<>>
  BY <1>2 DEF QueuesAreSound, WalkIsSound
<1>15. WalkIsSound'
  BY <1>2, <1>14 DEF WalkIsSound, ToSet, IsInjective
<1>16. CASE next'[n].state = "NO_STATE" /\ QueuesBecome(q)
            /\ UNCHANGED <<pendingQueue, stateChangeQueue>>
  <2>1. CandidatesAreSound' /\ \A m \in Node \ {n} : SameQueue(queueStatus[m], queueStatus'[m])
    BY <1>16, <1>7, <1>8 DEF QueuesBecome, SoundQueues, CandidatesAreSound, SameQueue
  <2> QED
    BY <1>16, <2>1, <1>2, <1>8, <1>9, <1>10, <1>11, <1>12, <1>13, <1>15, OneMoved
<1>17. CASE next'[n].state # "NO_STATE" /\ ~ResourceCheckRequired(n)
            /\ QueuesBecome(StateChangeStatus(q, n))
            /\ stateChangeQueue' = Append(stateChangeQueue, n) /\ UNCHANGED pendingQueue
  <2>1. StateChangeStatus(q, n) = WithStatus(q, n, "TRANSITION")
    BY <1>7 DEF StateChangeStatus, SoundQueues
  <2>2. /\ SoundQueues(WithStatus(q, n, "TRANSITION"))
        /\ WithStatus(q, n, "TRANSITION").status = [queueStatus EXCEPT ![n] = "TRANSITION"]
    <3>1. q.status[n] # "CHECK"
      BY <1>7 DEF TypeOK
    <3>2. StatusOf(q, n, "TRANSITION", WithStatus(q, n, "TRANSITION"))
      BY <3>1, <1>7, WithStatusFacts, OtherStatuses
    <3> QED  BY <3>2, <1>7 DEF StatusOf
  <2>3. /\ CandidatesAreSound' /\ queueStatus'[n] = "TRANSITION"
        /\ \A m \in Node \ {n} : SameQueue(queueStatus[m], queueStatus'[m])
    BY <1>17, <2>1, <2>2, <1>8 DEF QueuesBecome, SoundQueues, CandidatesAreSound, SameQueue, TypeOK
  <2>4. /\ IsInjective(stateChangeQueue') /\ n \notin ToSet(pendingQueue')
        /\ ToSet(stateChangeQueue') = ToSet(stateChangeQueue) \cup {n}
    BY <1>17, <1>9, <1>10, AppendFacts
  <2>5. CanMove(n)'
    <3>1. next'[n].state = "EXECUTING" => Resources(n) = {}
      BY <1>17 DEF ResourceCheckRequired
    <3> QED  BY <1>17, <1>2, <1>8, <2>3, <3>1, EvaluatedFacts DEF CanMove, Holds
  <2> QED
    BY <1>17, <2>3, <2>4, <2>5, <1>2, <1>8, <1>10, <1>11, <1>12, <1>13, <1>15, OneMoved
<1>18. CASE ResourceCheckRequired(n) /\ QueuesBecome(WithStatus(q, n, "PENDING_TRY"))
            /\ (\E i \in 1..Len(pendingQueue) + 1 : pendingQueue' = InsertAt(pendingQueue, i, n))
            /\ UNCHANGED stateChangeQueue
  <2>1. /\ SoundQueues(WithStatus(q, n, "PENDING_TRY"))
        /\ WithStatus(q, n, "PENDING_TRY").status = [queueStatus EXCEPT ![n] = "PENDING_TRY"]
    <3>1. q.status[n] # "CHECK"
      BY <1>7 DEF TypeOK
    <3>2. StatusOf(q, n, "PENDING_TRY", WithStatus(q, n, "PENDING_TRY"))
      BY <3>1, <1>7, WithStatusFacts, OtherStatuses
    <3> QED  BY <3>2, <1>7 DEF StatusOf
  <2>2. /\ CandidatesAreSound' /\ queueStatus'[n] = "PENDING_TRY"
        /\ \A m \in Node \ {n} : SameQueue(queueStatus[m], queueStatus'[m])
    BY <1>18, <2>1, <1>8 DEF QueuesBecome, SoundQueues, CandidatesAreSound, SameQueue, TypeOK
  <2>3. /\ IsInjective(pendingQueue') /\ n \notin ToSet(stateChangeQueue')
        /\ ToSet(pendingQueue') = ToSet(pendingQueue) \cup {n}
    BY <1>18, <1>9, <1>10, InsertFacts
  <2>4. IsPending(n)'
    <3>1. next'[n].state = "EXECUTING" /\ state'[n] = "WAITING"
      BY <1>18, <1>2, <1>8, EvaluatedFacts DEF ResourceCheckRequired
    <3> QED  BY <2>2, <2>3, <3>1 DEF IsPending, PendingStatus
  <2> QED
    BY <1>18, <2>2, <2>3, <2>4, <1>2, <1>8, <1>10, <1>11, <1>12, <1>13, <1>15, OneMoved
<1> QED  BY <1>16, <1>17, <1>18 DEF CheckCandidate, Places, q, popped

\* Where the walk over the pending queue stands, and what it has passed.
LEMMA WalkFacts ==
  ASSUME TypeOK, QueuesAreSound, phase = "gather"
  PROVE  \E i \in DOMAIN pendingQueue :
           /\ cursor = pendingQueue[i] /\ i \in 1..Len(pendingQueue)
           /\ cursor \in ToSet(pendingQueue) /\ cursor \notin ToSet(priorityNodes)
           /\ \A j \in DOMAIN pendingQueue : pendingQueue[j] = cursor => j = i
           /\ ToSet(priorityNodes) \subseteq {pendingQueue[j] : j \in 1..i - 1}
           /\ i < Len(pendingQueue) =>
                pendingQueue[i + 1] \notin {pendingQueue[j] : j \in 1..i}
<1>1. PICK i \in DOMAIN pendingQueue :
        /\ cursor = pendingQueue[i]
        /\ ToSet(priorityNodes) \subseteq {pendingQueue[j] : j \in 1..i - 1}
  BY DEF QueuesAreSound, WalkIsSound
<1>2. DOMAIN pendingQueue = 1..Len(pendingQueue) /\ Len(pendingQueue) \in Nat
  BY DEF TypeOK
<1>3. \A j, k \in DOMAIN pendingQueue : pendingQueue[j] = pendingQueue[k] => j = k
  BY DEF QueuesAreSound, PendingIsSound, IsInjective
<1>4. cursor \notin {pendingQueue[j] : j \in 1..i - 1}
  BY <1>1, <1>2, <1>3
<1>5. i < Len(pendingQueue) => pendingQueue[i + 1] \notin {pendingQueue[j] : j \in 1..i}
  BY <1>1, <1>2, <1>3
<1>6. cursor \in ToSet(pendingQueue)
  BY <1>1 DEF ToSet
<1> QED  BY <1>1, <1>2, <1>3, <1>4, <1>5, <1>6

\* A node that may still execute stays, and joins those that try if it may.
LEMMA KeepPendingSound ==
  ASSUME TypeOK, QueuesAreSound, NEW n \in Node, KeepPending(n)
  PROVE  QueuesAreSound'
<1>1. /\ phase = "gather" /\ n = cursor
      /\ UNCHANGED <<state, holder, candidateQueue, pendingQueue, stateChangeQueue>>
  BY DEF KeepPending, condVars, resourceVars
<1>2. PICK i \in 1..Len(pendingQueue) :
        /\ n = pendingQueue[i]
        /\ n \in ToSet(pendingQueue) /\ n \notin ToSet(priorityNodes)
        /\ \A j \in DOMAIN pendingQueue : pendingQueue[j] = n => j = i
        /\ ToSet(priorityNodes) \subseteq {pendingQueue[j] : j \in 1..i - 1}
        /\ i < Len(pendingQueue) => pendingQueue[i + 1] \notin {pendingQueue[j] : j \in 1..i}
  BY <1>1, WalkFacts
<1>3. IsPending(n)
  BY <1>2 DEF QueuesAreSound, PendingIsSound
<1>4. /\ next'[n].state = "EXECUTING" /\ \A m \in Node \ {n} : next'[m] = next[m]
  <2>1. CASE queueStatus[n] \in {"PENDING_CHECK", "PENDING_TRY_CHECK"}
    <3>1. next' = [next EXCEPT ![n] = Evaluated(n)] /\ next'[n].state = "EXECUTING"
      BY <2>1 DEF KeepPending
    <3>2. next \in [Node -> Destination]
      BY DEF TypeOK
    <3> QED  BY <3>1, <3>2
  <2>2. CASE queueStatus[n] \notin {"PENDING_CHECK", "PENDING_TRY_CHECK"}
    <3>1. UNCHANGED next
      BY <2>2 DEF KeepPending
    <3> QED  BY <3>1, <1>3 DEF IsPending
  <2> QED  BY <2>1, <2>2
<1>5. /\ queueStatus' \in [Node -> QueueStatus]
      /\ queueStatus'[n] \in PendingStatus /\ queueStatus'[n] # "CHECK"
      /\ \A m \in Node \ {n} : queueStatus'[m] = queueStatus[m]
  <2>1. queueStatus \in [Node -> QueueStatus] /\ queueStatus[n] \in PendingStatus
    BY <1>3 DEF TypeOK, IsPending
  <2>2. queueStatus' \in {[queueStatus EXCEPT ![n] = "PENDING"], queueStatus}
    BY DEF KeepPending
  <2> QED  BY <2>1, <2>2 DEF PendingStatus, QueueStatus
<1>6. CandidatesAreSound'
  <2>1. queueStatus[n] # "CHECK"
    BY <1>3 DEF IsPending, PendingStatus
  <2> QED  BY <2>1, <1>1, <1>5 DEF QueuesAreSound, CandidatesAreSound
<1>7. IsPending(n)' /\ n \notin ToSet(stateChangeQueue)'
  BY <1>1, <1>3, <1>4, <1>5 DEF IsPending
<1>8. state'[n] \notin Running
  BY <1>1, <1>3 DEF IsPending, Running
<1>9. /\ priorityNodes \in Seq(Node) /\ IsInjective(priorityNodes)
      /\ pendingQueue \in Seq(Node) /\ Len(pendingQueue) \in Nat
  BY DEF TypeOK, QueuesAreSound, WalkIsSound
<1>10. /\ IsInjective(priorityNodes')
       /\ ToSet(priorityNodes') \subseteq ToSet(priorityNodes) \cup {n}
  <2>1. priorityNodes' \in {Append(priorityNodes, n), priorityNodes}
    BY DEF KeepPending
  <2>2. /\ IsInjective(Append(priorityNodes, n))
        /\ ToSet(Append(priorityNodes, n)) = ToSet(priorityNodes) \cup {n}
    BY <1>2, <1>9, AppendFacts
  <2> QED  BY <2>1, <2>2, <1>9
<1>11. ToSet(priorityNodes') \subseteq {pendingQueue[j] : j \in 1..i}
  <2>1. {pendingQueue[j] : j \in 1..i - 1} \cup {n} \subseteq {pendingQueue[j] : j \in 1..i}
    BY <1>2, <1>9
  <2> QED  BY <2>1, <1>2, <1>10
<1>12. phase' \in {"gather", "acquire"} /\ cursor' = NextInQueue(i)
       /\ (phase' = "gather" => cursor' # None)
  <2>1. Advance(NextInQueue(i))
    BY <1>2 DEF KeepPending
  <2> QED  BY <2>1 DEF Advance
<1>13. cursor' # None => i + 1 \in 1..Len(pendingQueue) /\ cursor' = pendingQueue[i + 1]
  BY <1>9, <1>12 DEF NextInQueue
<1>14. WalkIsSound'
  <2>1. ToSet(priorityNodes') \subseteq ToSet(pendingQueue')
    BY <1>1, <1>2, <1>10 DEF QueuesAreSound, WalkIsSound
  <2>2. phase' = "gather" =>
          \E j \in DOMAIN pendingQueue' :
            /\ cursor' = pendingQueue'[j]
            /\ ToSet(priorityNodes') \subseteq {pendingQueue'[k] : k \in 1..j - 1}
    <3>1. i + 1 - 1 = i
      BY <1>9
    <3> QED  BY <3>1, <1>1, <1>9, <1>11, <1>12, <1>13
  <2>3. cursor' # None => cursor' \in ToSet(pendingQueue') \ ToSet(priorityNodes')
    <3>1. cursor' # None => cursor' \notin {pendingQueue[j] : j \in 1..i}
      BY <1>2, <1>9, <1>13
    <3>2. cursor' # None => cursor' \in ToSet(pendingQueue)
      BY <1>9, <1>13 DEF ToSet
    <3> QED  BY <3>1, <3>2, <1>1, <1>11
  <2> QED  BY <2>1, <2>2, <2>3, <1>10, <1>12 DEF WalkIsSound
<1>15. IsInjective(pendingQueue)' /\ IsInjective(stateChangeQueue)'
  BY <1>1 DEF QueuesAreSound, PendingIsSound, ChangesAreSound
<1> QED
  BY <1>1, <1>4, <1>5, <1>6, <1>7, <1>8, <1>12, <1>14, <1>15, OneMoved DEF SameQueue

\* A node that goes elsewhere leaves the pending queue, and the walk ends.
LEMMA DropPendingSound ==
  ASSUME TypeOK, QueuesAreSound, NEW n \in Node, DropPending(n)
  PROVE  QueuesAreSound'
<1> DEFINE q == WithStatus(Checked(queues, n), n, "NONE")
           moved == IF next'[n].state = "NO_STATE" THEN q ELSE StateChangeStatus(q, n)
           new == IF queueStatus[n] = "PENDING_CHECK" THEN WithStatus(moved, n, "PENDING")
                  ELSE moved
<1>1. /\ phase = "gather" /\ n = cursor /\ phase' = "acquire" /\ cursor' = None
      /\ next' = [next EXCEPT ![n] = Evaluated(n)] /\ next'[n].state # "EXECUTING"
      /\ pendingQueue' = Without(pendingQueue, n)
      /\ QueuesBecome(new)
      /\ UNCHANGED <<state, holder, priorityNodes>>
  BY DEF DropPending, Advance, condVars
<1>2. n \in ToSet(pendingQueue) /\ n \notin ToSet(priorityNodes)
  BY <1>1, WalkFacts
<1>3. IsPending(n) /\ queueStatus[n] # "CHECK"
  BY <1>2 DEF QueuesAreSound, PendingIsSound, IsPending, PendingStatus
<1>4. /\ IsInjective(pendingQueue') /\ ToSet(pendingQueue') = ToSet(pendingQueue) \ {n}
  BY <1>1, <1>2, WithoutFacts DEF TypeOK, QueuesAreSound, PendingIsSound
<1>5. /\ next'[n] = Evaluated(n) /\ \A m \in Node \ {n} : next'[m] = next[m]
  BY <1>1 DEF TypeOK
<1>6. SoundQueues(q) /\ q.status = [queueStatus EXCEPT ![n] = "NONE"] /\ q.status[n] = "NONE"
  <2>1. SoundQueues(Checked(queues, n)) /\ Checked(queues, n).status = queueStatus
    BY QueuesNow, CheckedFacts DEF QueuesAreSound
  <2>2. StatusOf(Checked(queues, n), n, "NONE", q)
    BY <2>1, <1>3, WithStatusFacts, OtherStatuses
  <2>3. SoundQueues(q) /\ q.status = [queueStatus EXCEPT ![n] = "NONE"]
    BY <2>1, <2>2 DEF StatusOf
  <2>4. queueStatus \in [Node -> QueueStatus]
    BY DEF TypeOK
  <2> QED  BY <2>3, <2>4
<1> HIDE DEF q
<1>7. /\ SoundQueues(moved) /\ \A m \in Node \ {n} : moved.status[m] = queueStatus[m]
      /\ moved.status[n] = IF next'[n].state = "NO_STATE" THEN "NONE" ELSE "TRANSITION"
  <2>1. CASE next'[n].state = "NO_STATE"
    BY <2>1, <1>6 DEF TypeOK
  <2>2. CASE next'[n].state # "NO_STATE"
    <3>1. moved = WithStatus(q, n, "TRANSITION")
      BY <2>2, <1>6 DEF StateChangeStatus
    <3>2. StatusOf(q, n, "TRANSITION", WithStatus(q, n, "TRANSITION"))
      BY <1>6, WithStatusFacts, OtherStatuses
    <3>3. SoundQueues(moved) /\ moved.status = [queueStatus EXCEPT ![n] = "TRANSITION"]
      BY <3>1, <3>2, <1>6 DEF StatusOf
    <3> QED  BY <2>2, <3>1, <3>2, <3>3 DEF TypeOK
  <2> QED  BY <2>1, <2>2
<1> HIDE DEF moved
<1>8. /\ SoundQueues(new) /\ \A m \in Node \ {n} : new.status[m] = queueStatus[m]
      /\ next'[n].state # "NO_STATE" => new.status[n] \in {"TRANSITION", "PENDING"}
  <2>1. CASE queueStatus[n] = "PENDING_CHECK"
    <3>1. moved.status[n] # "CHECK"
      BY <1>7
    <3>2. StatusOf(moved, n, "PENDING", WithStatus(moved, n, "PENDING"))
      BY <3>1, <1>7, WithStatusFacts, OtherStatuses
    <3> QED  BY <2>1, <3>2, <1>7 DEF SoundQueues, StatusOf
  <2>2. CASE queueStatus[n] # "PENDING_CHECK"
    BY <2>2, <1>7
  <2> QED  BY <2>1, <2>2
<1> HIDE DEF new
<1>9. /\ CandidatesAreSound'
      /\ \A m \in Node \ {n} : SameQueue(queueStatus[m], queueStatus'[m])
      /\ next'[n].state # "NO_STATE" => queueStatus'[n] \in {"TRANSITION", "PENDING"}
  BY <1>1, <1>8 DEF QueuesBecome, SoundQueues, CandidatesAreSound, SameQueue
<1>10. /\ IsInjective(stateChangeQueue) /\ n \notin ToSet(stateChangeQueue)
       /\ stateChangeQueue \in Seq(Node)
  BY <1>3 DEF QueuesAreSound, ChangesAreSound, IsPending, TypeOK
<1>11. /\ IsInjective(stateChangeQueue')
       /\ ToSet(stateChangeQueue') \subseteq ToSet(stateChangeQueue) \cup {n}
       /\ n \in ToSet(stateChangeQueue') => next'[n].state # "NO_STATE"
  <2>1. CASE next'[n].state = "NO_STATE"
    BY <2>1, <1>10 DEF DropPending
  <2>2. CASE next'[n].state # "NO_STATE"
    <3>1. stateChangeQueue' = Append(stateChangeQueue, n)
      BY <2>2 DEF DropPending
    <3> QED  BY <2>2, <3>1, <1>10, AppendFacts
  <2> QED  BY <2>1, <2>2
<1>12. n \in ToSet(stateChangeQueue)' => CanMove(n)'
  BY <1>1, <1>5, <1>9, <1>11, EvaluatedFacts DEF CanMove, PendingStatus
<1>13. WalkIsSound'
  BY <1>1, <1>2, <1>4 DEF QueuesAreSound, WalkIsSound
<1>14. state'[n] \notin Running
  BY <1>1, <1>3 DEF IsPending, Running
<1> QED
  BY <1>1, <1>4, <1>5, <1>9, <1>11, <1>12, <1>13, <1>14, OneMoved

LEMMA ResourcesAreResources ==
  ASSUME NEW n \in Node
  PROVE  Resources(n) \subseteq Resource /\ Mutexes(n) \subseteq Mutex
<1>1. Using[n] \in Seq(Mutex) /\ (Type[n] = "Assignment" => Dest[n] \in Variable)
  BY PlanAssumption
<1> QED  BY <1>1 DEF Resources, Resource, Mutexes

\* The first of the nodes that may try for their resources, and what it leaves.
LEMMA FirstToTry ==
  ASSUME TypeOK, QueuesAreSound, priorityNodes # <<>>, NEW n, n = Head(priorityNodes)
  PROVE  /\ n \in Node /\ n \in ToSet(pendingQueue) /\ n \in ToSet(priorityNodes)
         /\ IsPending(n) /\ queueStatus[n] # "CHECK"
         /\ IsInjective(Tail(priorityNodes))
         /\ ToSet(Tail(priorityNodes)) = ToSet(priorityNodes) \ {n}
<1>1. priorityNodes \in Seq(Node) /\ IsInjective(priorityNodes)
  BY DEF TypeOK, QueuesAreSound, WalkIsSound
<1>2. /\ n \in ToSet(priorityNodes) /\ n \in Node /\ IsInjective(Tail(priorityNodes))
      /\ ToSet(Tail(priorityNodes)) = ToSet(priorityNodes) \ {n}
  BY <1>1, TailFacts
<1>3. n \in ToSet(pendingQueue) /\ IsPending(n)
  BY <1>2 DEF QueuesAreSound, WalkIsSound, PendingIsSound
<1> QED  BY <1>2, <1>3 DEF IsPending, PendingStatus

\* A node takes its resources only when nobody holds one of them.
LEMMA AcquireResourcesSound ==
  ASSUME TypeOK, QueuesAreSound, NEW n \in Node, AcquireResources(n)
  PROVE  QueuesAreSound'
<1> DEFINE q == WithStatus(queues, n, "NONE")
<1>1. /\ phase = "acquire" /\ phase' = "acquire"
      /\ priorityNodes # <<>> /\ n = Head(priorityNodes)
      /\ priorityNodes' = Tail(priorityNodes)
      /\ \A r \in Resources(n) : holder[r] = None
      /\ holder' = [r \in Resource |-> IF r \in Resources(n) THEN n ELSE holder[r]]
      /\ pendingQueue' = Without(pendingQueue, n)
      /\ stateChangeQueue' = Append(stateChangeQueue, n)
      /\ QueuesBecome(StateChangeStatus(q, n))
      /\ UNCHANGED <<state, next, cursor>>
  BY DEF AcquireResources, condVars, nodeVars
<1>2. /\ n \in ToSet(pendingQueue) /\ n \in ToSet(priorityNodes)
      /\ IsPending(n) /\ queueStatus[n] # "CHECK"
      /\ IsInjective(Tail(priorityNodes))
      /\ ToSet(Tail(priorityNodes)) = ToSet(priorityNodes) \ {n}
  BY <1>1, FirstToTry
<1>3. /\ IsInjective(pendingQueue') /\ ToSet(pendingQueue') = ToSet(pendingQueue) \ {n}
  BY <1>1, <1>2, WithoutFacts DEF TypeOK, QueuesAreSound, PendingIsSound
<1>4. /\ IsInjective(stateChangeQueue')
      /\ ToSet(stateChangeQueue') = ToSet(stateChangeQueue) \cup {n}
  BY <1>1, <1>2, AppendFacts DEF TypeOK, QueuesAreSound, ChangesAreSound, IsPending
<1>5. /\ CandidatesAreSound' /\ queueStatus'[n] = "TRANSITION"
      /\ \A m \in Node \ {n} : queueStatus'[m] = queueStatus[m]
  <2>1. SoundQueues(q) /\ q.status = [queueStatus EXCEPT ![n] = "NONE"]
    <3>1. SoundQueues(queues) /\ queues.status = queueStatus
      BY QueuesNow DEF QueuesAreSound
    <3>2. StatusOf(queues, n, "NONE", q)
      BY <3>1, <1>2, WithStatusFacts, OtherStatuses
    <3> QED  BY <3>1, <3>2 DEF StatusOf
  <2>2. q.status[n] = "NONE"
    BY <2>1 DEF TypeOK
  <2> HIDE DEF q
  <2>3. /\ SoundQueues(WithStatus(q, n, "TRANSITION"))
        /\ WithStatus(q, n, "TRANSITION").status = [q.status EXCEPT ![n] = "TRANSITION"]
    <3>1. StatusOf(q, n, "TRANSITION", WithStatus(q, n, "TRANSITION"))
      BY <2>1, <2>2, WithStatusFacts, OtherStatuses
    <3> QED  BY <3>1 DEF StatusOf
  <2>4. QueuesBecome(WithStatus(q, n, "TRANSITION"))
    BY <1>1, <2>2 DEF StateChangeStatus
  <2>5. queueStatus' = [queueStatus EXCEPT ![n] = "TRANSITION"]
    BY <2>1, <2>3, <2>4 DEF QueuesBecome
  <2>6. CandidatesAreSound'
    BY <2>3, <2>4 DEF QueuesBecome, SoundQueues, CandidatesAreSound
  <2> QED  BY <2>5, <2>6 DEF TypeOK
<1>6. CanMove(n)'
  <2>1. next'[n].state = "EXECUTING" /\ state'[n] = "WAITING"
    BY <1>1, <1>2 DEF IsPending
  <2>2. "EXECUTING" \in LegalSuccessor(Type[n], "WAITING")
    BY PlanAssumption, LegalSuccessorFacts DEF NodeState
  <2>3. Holds(n)'
    BY <1>1, ResourcesAreResources DEF Holds
  <2> QED  BY <1>5, <2>1, <2>2, <2>3 DEF CanMove
<1>7. ASSUME NEW m \in Node \ {n}, NEW r \in Resources(m), holder[r] = m PROVE holder'[r] = m
  <2>1. r \in Resource /\ m # None
    BY ResourcesAreResources, PlanAssumption
  <2>2. r \notin Resources(n)
    BY <1>1, <1>7, <2>1
  <2> QED  BY <1>1, <1>7, <2>1, <2>2
<1>8. WalkIsSound'
  BY <1>1, <1>2, <1>3 DEF QueuesAreSound, WalkIsSound
<1>9. state'[n] \notin Running
  BY <1>1, <1>2 DEF IsPending, Running
<1> QED
  BY <1>1, <1>3, <1>4, <1>5, <1>6, <1>7, <1>8, <1>9, OneMoved DEF SameQueue

\* A node that does not get its resources releases only what it took or held.
LEMMA FailToAcquireSound ==
  ASSUME TypeOK, QueuesAreSound, NEW n \in Node, FailToAcquire(n)
  PROVE  QueuesAreSound'
<1> DEFINE released == Taken(n) \cup {m \in Mutexes(n) : holder[m] = n}
           freed == NotifyAvailable(queues, released)
           q == WithStatus(freed, n, "PENDING")
<1>1. /\ phase = "acquire" /\ phase' = "acquire"
      /\ priorityNodes # <<>> /\ n = Head(priorityNodes)
      /\ priorityNodes' = Tail(priorityNodes)
      /\ holder' = [r \in Resource |-> IF r \in released THEN None ELSE holder[r]]
      /\ QueuesBecome(q) \/ QueuesBecome(WithFault(q, "recursive mutex"))
      /\ UNCHANGED <<state, next, cursor, pendingQueue, stateChangeQueue>>
  BY DEF FailToAcquire, condVars, nodeVars
<1>2. /\ n \in ToSet(pendingQueue) /\ n \in ToSet(priorityNodes)
      /\ IsPending(n) /\ queueStatus[n] # "CHECK"
      /\ IsInjective(Tail(priorityNodes))
      /\ ToSet(Tail(priorityNodes)) = ToSet(priorityNodes) \ {n}
  BY <1>1, FirstToTry
<1>3. /\ SoundQueues(freed) /\ \A m \in Node : SameQueue(queueStatus[m], freed.status[m])
      /\ freed.status[n] # "CHECK"
  <2>1. /\ SoundQueues(freed) /\ \A m \in Node : SameQueue(queueStatus[m], freed.status[m])
    BY QueuesNow, NotifyAvailableFacts DEF QueuesAreSound
  <2>2. SameQueue(queueStatus[n], freed.status[n])
    BY <2>1
  <2> QED  BY <2>1, <2>2, <1>2 DEF SameQueue, IsPending, PendingStatus
<1> HIDE DEF freed
<1>4. SoundQueues(q) /\ q.status = [freed.status EXCEPT ![n] = "PENDING"]
  <2>1. StatusOf(freed, n, "PENDING", q)
    BY <1>3, WithStatusFacts, OtherStatuses
  <2> QED  BY <2>1 DEF StatusOf
<1> HIDE DEF q
<1>5. CandidatesAreSound' /\ queueStatus' = q.status
  <2>1. SoundQueues(WithFault(q, "recursive mutex"))
        /\ WithFault(q, "recursive mutex").status = q.status
    BY <1>4, WithFaultFacts DEF Fault
  <2>2. PICK new : /\ SoundQueues(new) /\ new.status = q.status
                   /\ QueuesBecome(new)
    BY <1>1, <1>4, <2>1
  <2>3. /\ queueStatus' = new.status /\ candidateQueue' = new.candidates
    BY <2>2 DEF QueuesBecome
  <2> QED  BY <2>2, <2>3 DEF SoundQueues, CandidatesAreSound
<1>6. /\ queueStatus'[n] = "PENDING"
      /\ \A m \in Node \ {n} : SameQueue(queueStatus[m], queueStatus'[m])
  BY <1>3, <1>4, <1>5 DEF SoundQueues
<1>7. IsPending(n)'
  BY <1>1, <1>2, <1>6 DEF IsPending, PendingStatus
<1>8. ASSUME NEW m \in Node \ {n}, NEW r \in Resources(m), holder[r] = m PROVE holder'[r] = m
  <2>1. r \in Resource /\ m # None
    BY ResourcesAreResources, PlanAssumption
  <2>2. r \notin Taken(n)
    <3>1. \A k \in DOMAIN Wanted(n) : k \in 1..k
      BY PlanAssumption DEF Wanted
    <3> QED  BY <1>8, <2>1, <3>1 DEF Taken
  <2>3. r \notin released
    BY <1>8, <2>2
  <2> QED  BY <1>1, <1>8, <2>1, <2>3
<1>9. WalkIsSound'
  BY <1>1, <1>2 DEF QueuesAreSound, WalkIsSound
<1>10. state'[n] \notin Running /\ n \notin ToSet(stateChangeQueue')
  BY <1>1, <1>2 DEF IsPending, Running
<1>11. IsInjective(pendingQueue)' /\ IsInjective(stateChangeQueue)'
  BY <1>1 DEF QueuesAreSound, PendingIsSound, ChangesAreSound
<1> HIDE DEF released
<1> QED
  BY <1>1, <1>5, <1>6, <1>7, <1>8, <1>9, <1>10, <1>11, OneMoved

\* The queues after a transition: nobody else's place in them has changed.
LEMMA MovedFacts ==
  ASSUME TypeOK, QueuesAreSound, NEW n \in Node, n \in ToSet(stateChangeQueue)
  PROVE  /\ SoundQueues(Moved(n))
         /\ \A m \in Node \ {n} : SameQueue(queueStatus[m], Moved(n).status[m])
<1> DEFINE popped == WithStatus(queues, n, "NONE")
           rechecked == IF queueStatus[n] = "TRANSITION_CHECK" THEN Notify(popped, {n})
                        ELSE popped
           freed == NotifyAvailable(rechecked, ReleasedByHolder(n))
           ready == Notify(freed, Initialized(n))
           told == IF IsFinish(n) THEN Finish(ready, n) ELSE Notify(ready, {n})
           Others(q) == \A m \in Node \ {n} : SameQueue(queueStatus[m], q.status[m])
<1>1. SoundQueues(queues) /\ queues.status = queueStatus /\ queueStatus[n] # "CHECK"
  BY QueuesNow DEF QueuesAreSound, ChangesAreSound, CanMove, PendingStatus
<1>2. SoundQueues(popped) /\ Others(popped)
  <2>1. SoundQueues(popped) /\ popped.status = [queueStatus EXCEPT ![n] = "NONE"]
    <3>1. StatusOf(queues, n, "NONE", popped)
      BY <1>1, WithStatusFacts, OtherStatuses
    <3> QED  BY <3>1, <1>1 DEF StatusOf
  <2> HIDE DEF popped
  <2>2. \A m \in Node \ {n} : popped.status[m] = queueStatus[m]
    BY <2>1 DEF TypeOK
  <2> QED  BY <2>1, <2>2 DEF SameQueue
<1> HIDE DEF popped
<1>3. ASSUME NEW q, SoundQueues(q), Others(q), NEW S \in SUBSET Node
      PROVE  SoundQueues(Notify(q, S)) /\ Others(Notify(q, S))
  <2>1. /\ SoundQueues(Notify(q, S))
        /\ \A m \in Node : SameQueue(q.status[m], Notify(q, S).status[m])
    BY <1>3, NotifyFacts
  <2> QED  BY <2>1, <1>3 DEF SameQueue
<1>4. SoundQueues(rechecked) /\ Others(rechecked)
  BY <1>2, <1>3
<1> HIDE DEF rechecked
<1>5. SoundQueues(freed) /\ Others(freed)
  <2>1. /\ SoundQueues(freed)
        /\ \A m \in Node : SameQueue(rechecked.status[m], freed.status[m])
    BY <1>4, NotifyAvailableFacts
  <2> QED  BY <2>1, <1>4 DEF SameQueue
<1> HIDE DEF freed
<1>6. SoundQueues(ready) /\ Others(ready)
  <2>1. Initialized(n) \in SUBSET Node
    BY DEF Initialized, Listening, Listeners
  <2> QED  BY <2>1, <1>3, <1>5
<1> HIDE DEF ready
<1>7. SoundQueues(told) /\ Others(told)
  <2>1. SoundQueues(Finish(ready, n)) /\ Others(Finish(ready, n))
    BY <1>6, FinishFacts DEF SameQueue
  <2> QED  BY <2>1, <1>3, <1>6
<1> HIDE DEF told
<1>8. Moved(n) = IF Type[n] = "List" THEN Notify(told, ToldChildren(n)) ELSE told
  BY DEF Moved, told, ready, freed, rechecked, popped
<1>9. ToldChildren(n) \in SUBSET Node
  BY DEF ToldChildren, Children
<1> QED  BY <1>3, <1>7, <1>8, <1>9

\* A node that comes to run holds its resources, and keeps them while it runs.
LEMMA TransitionNodeSound ==
  ASSUME TypeOK, QueuesAreSound, NEW n \in Node, TransitionNode(n)
  PROVE  QueuesAreSound'
<1>1. /\ phase = "transition" /\ stateChangeQueue # <<>> /\ n = Head(stateChangeQueue)
      /\ stateChangeQueue' = Tail(stateChangeQueue)
      /\ state' = [state EXCEPT ![n] = next[n].state]
      /\ next' = [next EXCEPT ![n] = NoTransition]
      /\ holder' = [r \in Resource |-> IF r \in ReleasedByHolder(n) THEN None ELSE holder[r]]
      /\ UNCHANGED <<pendingQueue, cursor, priorityNodes, phase>>
  BY DEF TransitionNode, resolveVars
<1>2. /\ stateChangeQueue \in Seq(Node) /\ IsInjective(stateChangeQueue)
      /\ pendingQueue \in Seq(Node) /\ IsInjective(pendingQueue)
  BY DEF TypeOK, QueuesAreSound, ChangesAreSound, PendingIsSound
<1>3. /\ n \in ToSet(stateChangeQueue) /\ IsInjective(stateChangeQueue')
      /\ ToSet(stateChangeQueue') = ToSet(stateChangeQueue) \ {n}
  BY <1>1, <1>2, TailFacts
<1>4. CanMove(n)
  BY <1>3 DEF QueuesAreSound, ChangesAreSound
<1>5. /\ CandidatesAreSound'
      /\ \A m \in Node \ {n} : SameQueue(queueStatus[m], queueStatus'[m])
  <2>1. PICK told \in SUBSET Node : QueuesBecome(Notify(Moved(n), told))
    BY DEF TransitionNode, Listening, Listeners
  <2>2. /\ SoundQueues(Moved(n))
        /\ \A m \in Node \ {n} : SameQueue(queueStatus[m], Moved(n).status[m])
    BY <1>3, MovedFacts
  <2>3. /\ SoundQueues(Notify(Moved(n), told))
        /\ \A m \in Node : SameQueue(Moved(n).status[m], Notify(Moved(n), told).status[m])
    BY <2>2, NotifyFacts
  <2> QED
    BY <2>1, <2>2, <2>3 DEF QueuesBecome, SoundQueues, CandidatesAreSound, SameQueue
<1>6. n \notin ToSet(pendingQueue')
  BY <1>1, <1>3 DEF QueuesAreSound, PendingIsSound, IsPending
<1>7. /\ state'[n] = next[n].state
      /\ \A m \in Node \ {n} : state'[m] = state[m] /\ next'[m] = next[m]
  BY <1>1 DEF TypeOK
<1>8. ASSUME NEW m \in Node \ {n}, NEW r \in Resources(m), holder[r] = m PROVE holder'[r] = m
  <2>1. r \in Resource
    BY ResourcesAreResources
  <2>2. r \notin ReleasedByHolder(n)
    BY <1>8 DEF ReleasedByHolder
  <2> QED  BY <1>1, <1>8, <2>1, <2>2
<1>9. ASSUME state'[n] \in Running PROVE Holds(n)'
  <2>1. Holds(n)
    <3>1. CASE next[n].state = "EXECUTING"
      BY <3>1, <1>4 DEF CanMove
    <3>2. CASE next[n].state \in {"FINISHING", "FAILING"}
      <4>1. state[n] \in {"EXECUTING", "FINISHING"}
        BY <3>2, <1>4, PlanAssumption, LegalSuccessorFacts DEF CanMove, TypeOK
      <4> QED  BY <4>1 DEF QueuesAreSound, MutualExclusion, Running
    <3> QED  BY <3>1, <3>2, <1>7, <1>9 DEF Running
  <2>2. ReleasedByHolder(n) = {}
    BY <1>7, <1>9 DEF ReleasedByHolder, Released, Running
  <2> QED  BY <1>1, <2>1, <2>2, ResourcesAreResources DEF Holds
<1>10. WalkIsSound'
  <2>1. priorityNodes = <<>>
    BY <1>1 DEF QueuesAreSound, WalkIsSound
  <2> QED  BY <2>1, <1>1 DEF WalkIsSound, ToSet, IsInjective
<1> QED
  BY <1>1, <1>2, <1>3, <1>5, <1>6, <1>7, <1>8, <1>9, <1>10, OneMoved

\* Every step of the executive and of its interfaces keeps the queues sound.
LEMMA QueuesStaySound ==
  ASSUME TypeOK, QueuesAreSound, Next
  PROVE  QueuesAreSound'
<1>1. CASE \E n \in Node :
             \/ CheckCandidate(n) \/ KeepPending(n) \/ DropPending(n)
             \/ AcquireResources(n) \/ FailToAcquire(n) \/ TransitionNode(n)
  BY <1>1, CheckCandidateSound, KeepPendingSound, DropPendingSound, AcquireResourcesSound,
     FailToAcquireSound, TransitionNodeSound
<1>2. CASE StartStep \/ AllChecked \/ GroupDone \/ BatchDone \/ StepDone
  BY <1>2, PhaseSteps
<1>3. CASE \E n \in Node :
             \/ ExecuteAssignment(n) \/ RetractAssignment(n) \/ ExecuteCommand(n)
             \/ InvokeAbort(n) \/ ExecuteUpdate(n) \/ AddPlan(n)
             \/ \E h \in Handle : CommandHandleReturn(n, h)
             \/ \E v \in TruthValue : CommandReturn(n, v)
             \/ \E b \in BOOLEAN : CommandAbortAcknowledge(n, b) \/ UpdateAcknowledge(n, b)
  BY <1>3, NotifyingSteps
<1>4. CASE DeleteFinishedPlans \/ \E l \in Lookup, v \in TruthValue : LookupReturn(l, v)
  BY <1>4, WorldSteps
<1> QED  BY <1>1, <1>2, <1>3, <1>4 DEF Next, Step, World

-----------------------------------------------------------------------------
(* Types: the operations on the queues *)

\* Queue statuses, candidates and fault of their types.
TypedQueues(q) == /\ q.status \in [Node -> QueueStatus]
                  /\ q.candidates \in Seq(Node)
                  /\ q.fault \in Fault

LEMMA NotifyTyped ==
  ASSUME NEW q, TypedQueues(q), NEW S \in SUBSET Node
  PROVE  TypedQueues(Notify(q, S))
<1> DEFINE idle == {n \in S : q.status[n] = "NONE"}
           new == Notify(q, S)
<1>1. /\ new.status = [n \in Node |-> IF n \in S THEN Notified(q.status[n]) ELSE q.status[n]]
      /\ new.candidates = q.candidates \o InOrder[idle]
      /\ new.fault \in {"notify", q.fault}
  BY DEF Notify
<1> HIDE DEF new
<1>2. InOrder[idle] \in Seq(Node)
  BY OrderAssumption
<1>3. new.candidates \in Seq(Node)
  <2> HIDE DEF idle
  <2> QED  BY <1>1, <1>2 DEF TypedQueues
<1>4. \A n \in Node : Notified(q.status[n]) \in QueueStatus
  BY DEF TypedQueues, Notified, QueueStatus
<1>5. new.status \in [Node -> QueueStatus]
  BY <1>1, <1>4 DEF TypedQueues
<1> QED  BY <1>1, <1>3, <1>5 DEF TypedQueues, Fault, new

LEMMA NotifyAvailableTyped ==
  ASSUME NEW q, TypedQueues(q), NEW R
  PROVE  TypedQueues(NotifyAvailable(q, R))
<1> DEFINE new == NotifyAvailable(q, R)
<1>1. /\ new.status = [n \in Node |-> IF \E r \in R : n \in waiters[r]
                                      THEN Available(q.status[n]) ELSE q.status[n]]
      /\ new.candidates = q.candidates /\ new.fault = q.fault
  BY DEF NotifyAvailable
<1> HIDE DEF new
<1>2. \A n \in Node : Available(q.status[n]) \in QueueStatus
  BY DEF TypedQueues, Available, QueueStatus
<1> QED  BY <1>1, <1>2 DEF TypedQueues, new

LEMMA WithStatusTyped ==
  ASSUME NEW q, TypedQueues(q), NEW n \in Node, NEW s \in QueueStatus
  PROVE  TypedQueues(WithStatus(q, n, s))
<1> DEFINE new == WithStatus(q, n, s)
<1>1. /\ new.status = [q.status EXCEPT ![n] = s]
      /\ new.candidates = q.candidates /\ new.fault = q.fault
  BY DEF WithStatus
<1> HIDE DEF new
<1> QED  BY <1>1 DEF TypedQueues, new

LEMMA WithFaultTyped ==
  ASSUME NEW q, TypedQueues(q), NEW f \in Fault
  PROVE  TypedQueues(WithFault(q, f))
BY DEF WithFault, TypedQueues

LEMMA CheckedTyped ==
  ASSUME NEW q, TypedQueues(q), NEW n \in Node
  PROVE  TypedQueues(Checked(q, n)) /\ Checked(q, n).fault \in Fault
<1>1. TypedQueues(Checked(q, n))
  <2>1. CASE AncestorsInactive(n)
    BY <2>1, WithFaultTyped DEF Checked, Fault
  <2>2. CASE ~AncestorsInactive(n)
    BY <2>2 DEF Checked
  <2> QED  BY <2>1, <2>2
<1> QED  BY <1>1 DEF TypedQueues

LEMMA StateChangeStatusTyped ==
  ASSUME NEW q, TypedQueues(q), NEW n \in Node
  PROVE  TypedQueues(StateChangeStatus(q, n))
<1>1. CASE q.status[n] = "NONE"
  BY <1>1, WithStatusTyped DEF StateChangeStatus, QueueStatus
<1>2. CASE q.status[n] # "NONE"
  BY <1>2, WithFaultTyped DEF StateChangeStatus, Fault
<1> QED  BY <1>1, <1>2

LEMMA QueuesTyped ==
  ASSUME TypeOK
  PROVE  TypedQueues(queues)
BY DEF TypeOK, TypedQueues, queues

LEMMA NextTyped ==
  ASSUME TypeOK, NEW n \in Node, next' = [next EXCEPT ![n] = Evaluated(n)]
  PROVE  next' \in [Node -> Destination]
BY EvaluatedFacts DEF TypeOK

-----------------------------------------------------------------------------
(* Each step keeps the types *)

LEMMA PhaseTyped ==
  ASSUME TypeOK, StartStep \/ AllChecked \/ GroupDone \/ BatchDone \/ StepDone
  PROVE  TypeOK'
<1> USE DEF condVars, queueVars, resourceVars, effectVars, nodeVars, planVars, resolveVars,
            worldVars
<1>1. phase' \in Phase
  BY DEF StartStep, AllChecked, AfterCheck, GroupDone, BatchDone, StepDone, Phase
<1>2. fault' \in Fault
  BY DEF StartStep, AllChecked, GroupDone, BatchDone, StepDone, TypeOK, Fault
<1>3. cursor' \in Node \cup {None}
  <2>1. CASE AllChecked
    <3>1. pendingQueue # <<>> => Head(pendingQueue) \in Node
      BY DEF TypeOK
    <3> QED  BY <2>1, <3>1 DEF AllChecked
  <2>2. CASE ~AllChecked
    BY <2>2 DEF StartStep, GroupDone, BatchDone, StepDone, TypeOK
  <2> QED  BY <2>1, <2>2
<1>4. UNCHANGED <<condition, state, outcome, failure, next, lookup, value, saved, handle, ack,
                  abortComplete, exitLeaked, queueStatus, candidateQueue, pendingQueue,
                  stateChangeQueue, finishedRootNodes, assignmentsToExecute,
                  assignmentsToRetract, commandsToExecute, commandsToAbort, updatesToExecute,
                  priorityNodes, holder, waiters, plan, deleted, requests, aborts>>
  BY DEF StartStep, AllChecked, GroupDone, BatchDone, StepDone
<1> QED  BY <1>1, <1>2, <1>3, <1>4 DEF TypeOK

LEMMA CheckCandidateTyped ==
  ASSUME TypeOK, NEW n \in Node, CheckCandidate(n)
  PROVE  TypeOK'
<1> USE DEF condVars, resourceVars, effectVars, planVars, resolveVars, worldVars
<1> DEFINE popped == [queues EXCEPT !.status[n] = "NONE", !.candidates = Tail(@)]
           q == Checked(popped, n)
<1>1. TypedQueues(popped)
  <2>1. Tail(candidateQueue) \in Seq(Node)
    BY DEF TypeOK, CheckCandidate
  <2> QED  BY <2>1 DEF queues, TypedQueues, TypeOK, QueueStatus
<1> HIDE DEF popped
<1>2. TypedQueues(q)
  BY <1>1, CheckedTyped
<1> HIDE DEF q
<1>3. /\ TypedQueues(StateChangeStatus(q, n))
      /\ TypedQueues(WithStatus(q, n, "PENDING_TRY"))
  BY <1>2, StateChangeStatusTyped, WithStatusTyped DEF QueueStatus
<1>4. /\ queueStatus' \in [Node -> QueueStatus] /\ candidateQueue' \in Seq(Node)
      /\ fault' \in Fault
  BY <1>2, <1>3 DEF CheckCandidate, QueuesBecome, TypedQueues, q, popped
<1>5. pendingQueue' \in Seq(Node)
  <2>1. pendingQueue' = pendingQueue \/
          \E i \in 1..Len(pendingQueue) + 1 : pendingQueue' = InsertAt(pendingQueue, i, n)
    BY DEF CheckCandidate, Places
  <2> QED  BY <2>1, InsertFacts DEF TypeOK
<1>6. stateChangeQueue' \in Seq(Node)
  <2>1. stateChangeQueue' \in {stateChangeQueue, Append(stateChangeQueue, n)}
    BY DEF CheckCandidate
  <2>2. stateChangeQueue \in Seq(Node) /\ Append(stateChangeQueue, n) \in Seq(Node)
    BY AppendFacts DEF TypeOK
  <2> QED  BY <2>1, <2>2
<1>7. next' \in [Node -> Destination]
  BY NextTyped DEF CheckCandidate
<1> QED  BY <1>4, <1>5, <1>6, <1>7 DEF TypeOK, CheckCandidate

LEMMA KeepPendingTyped ==
  ASSUME TypeOK, NEW n \in Node, KeepPending(n)
  PROVE  TypeOK'
<1> USE DEF condVars, resourceVars, effectVars, planVars, resolveVars, worldVars
<1>1. next' \in [Node -> Destination] /\ fault' \in Fault
  <2>1. Checked(queues, n).fault \in Fault
    BY QueuesTyped, CheckedTyped
  <2> QED  BY <2>1, NextTyped DEF KeepPending, TypeOK
<1>2. queueStatus' \in [Node -> QueueStatus] /\ priorityNodes' \in Seq(Node)
  <2>1. Append(priorityNodes, n) \in Seq(Node)
    BY AppendFacts DEF TypeOK
  <2> QED  BY <2>1 DEF KeepPending, TypeOK, QueueStatus
<1>3. cursor' \in Node \cup {None} /\ phase' \in Phase
  <2>1. PICK i \in DOMAIN pendingQueue : Advance(NextInQueue(i))
    BY DEF KeepPending
  <2>2. NextInQueue(i) \in Node \cup {None}
    <3>1. i < Len(pendingQueue) => pendingQueue[i + 1] \in Node
      BY <2>1 DEF TypeOK
    <3> QED  BY <3>1 DEF NextInQueue
  <2> QED  BY <2>1, <2>2 DEF Advance, Phase
<1> QED  BY <1>1, <1>2, <1>3 DEF TypeOK, KeepPending

LEMMA WaitersTyped ==
  ASSUME TypeOK, NEW n \in Node,
         \/ waiters' = [r \in Resource |->
                            waiters[r] \ (IF r \in Resources(n) THEN {n} ELSE {})]
         \/ waiters' = [r \in Resource |->
                            waiters[r] \cup (IF r \in Resources(n) THEN {n} ELSE {})]
  PROVE  waiters' \in [Resource -> SUBSET Node]
BY DEF TypeOK

LEMMA DropPendingTyped ==
  ASSUME TypeOK, QueuesAreSound, NEW n \in Node, DropPending(n)
  PROVE  TypeOK'
<1> USE DEF condVars, effectVars, planVars, worldVars
<1> DEFINE q == WithStatus(Checked(queues, n), n, "NONE")
           moved == IF next'[n].state = "NO_STATE" THEN q ELSE StateChangeStatus(q, n)
           new == IF queueStatus[n] = "PENDING_CHECK" THEN WithStatus(moved, n, "PENDING")
                  ELSE moved
<1>1. TypedQueues(q)
  BY QueuesTyped, CheckedTyped, WithStatusTyped DEF QueueStatus
<1> HIDE DEF q
<1>2. TypedQueues(moved)
  BY <1>1, StateChangeStatusTyped
<1> HIDE DEF moved
<1>3. TypedQueues(new)
  BY <1>2, WithStatusTyped DEF QueueStatus
<1> HIDE DEF new
<1>4. /\ queueStatus' \in [Node -> QueueStatus] /\ candidateQueue' \in Seq(Node)
      /\ fault' \in Fault
  <2>1. QueuesBecome(new)
    BY DEF DropPending, new, moved, q
  <2> QED  BY <2>1, <1>3 DEF QueuesBecome, TypedQueues
<1>5. pendingQueue' \in Seq(Node)
  <2>1. n \in ToSet(pendingQueue)
    BY WalkFacts DEF DropPending
  <2> QED  BY <2>1, WithoutFacts DEF DropPending, TypeOK
<1>6. stateChangeQueue' \in Seq(Node)
  <2>1. stateChangeQueue' \in {stateChangeQueue, Append(stateChangeQueue, n)}
    BY DEF DropPending
  <2>2. stateChangeQueue \in Seq(Node) /\ Append(stateChangeQueue, n) \in Seq(Node)
    BY AppendFacts DEF TypeOK
  <2> QED  BY <2>1, <2>2
<1>7. /\ next' \in [Node -> Destination] /\ waiters' \in [Resource -> SUBSET Node]
      /\ cursor' \in Node \cup {None} /\ phase' \in Phase
  BY NextTyped, WaitersTyped DEF DropPending, Advance, Phase
<1> QED  BY <1>4, <1>5, <1>6, <1>7 DEF TypeOK, DropPending

LEMMA AcquireResourcesTyped ==
  ASSUME TypeOK, QueuesAreSound, NEW n \in Node, AcquireResources(n)
  PROVE  TypeOK'
<1> USE DEF condVars, effectVars, nodeVars, planVars, worldVars
<1> DEFINE q == StateChangeStatus(WithStatus(queues, n, "NONE"), n)
<1>1. TypedQueues(q)
  <2>1. TypedQueues(WithStatus(queues, n, "NONE"))
    BY QueuesTyped, WithStatusTyped DEF QueueStatus
  <2> QED  BY <2>1, StateChangeStatusTyped
<1> HIDE DEF q
<1>2. /\ queueStatus' \in [Node -> QueueStatus] /\ candidateQueue' \in Seq(Node)
      /\ fault' \in Fault
  <2>1. QueuesBecome(q)
    BY DEF AcquireResources, q
  <2> QED  BY <2>1, <1>1 DEF QueuesBecome, TypedQueues
<1>3. priorityNodes # <<>> /\ n = Head(priorityNodes)
  BY DEF AcquireResources
<1>4. pendingQueue' \in Seq(Node) /\ priorityNodes' \in Seq(Node)
  <2>1. n \in ToSet(pendingQueue)
    BY <1>3, FirstToTry
  <2>2. Tail(priorityNodes) \in Seq(Node)
    BY <1>3, TailFacts DEF TypeOK
  <2>3. Without(pendingQueue, n) \in Seq(Node)
    BY <2>1, WithoutFacts DEF TypeOK
  <2> QED  BY <2>2, <2>3 DEF AcquireResources
<1>5. stateChangeQueue' \in Seq(Node)
  BY AppendFacts DEF AcquireResources, TypeOK
<1>6. holder' \in [Resource -> Node \cup {None}] /\ waiters' \in [Resource -> SUBSET Node]
  BY WaitersTyped DEF AcquireResources, TypeOK
<1> QED  BY <1>2, <1>4, <1>5, <1>6 DEF TypeOK, AcquireResources

LEMMA FailToAcquireTyped ==
  ASSUME TypeOK, NEW n \in Node, FailToAcquire(n)
  PROVE  TypeOK'
<1> USE DEF condVars, effectVars, nodeVars, planVars, worldVars
<1> DEFINE released == Taken(n) \cup {m \in Mutexes(n) : holder[m] = n}
           q == WithStatus(NotifyAvailable(queues, released), n, "PENDING")
<1>1. /\ QueuesBecome(q) \/ QueuesBecome(WithFault(q, "recursive mutex"))
      /\ priorityNodes # <<>> /\ priorityNodes' = Tail(priorityNodes)
      /\ holder' = [r \in Resource |-> IF r \in released THEN None ELSE holder[r]]
  BY DEF FailToAcquire
<1>2. TypedQueues(q)
  <2>1. TypedQueues(NotifyAvailable(queues, released))
    BY QueuesTyped, NotifyAvailableTyped
  <2> QED  BY <2>1, WithStatusTyped DEF QueueStatus
<1> HIDE DEF q, released
<1>3. TypedQueues(WithFault(q, "recursive mutex"))
  BY <1>2, WithFaultTyped DEF Fault
<1>4. /\ queueStatus' \in [Node -> QueueStatus] /\ candidateQueue' \in Seq(Node)
      /\ fault' \in Fault
  BY <1>1, <1>2, <1>3 DEF QueuesBecome, TypedQueues
<1>5. priorityNodes' \in Seq(Node)
  BY <1>1, TailFacts DEF TypeOK
<1>6. holder' \in [Resource -> Node \cup {None}] /\ waiters' \in [Resource -> SUBSET Node]
  BY <1>1, WaitersTyped DEF FailToAcquire, TypeOK
<1> QED  BY <1>4, <1>5, <1>6 DEF TypeOK, FailToAcquire

LEMMA TransitionNodeTyped ==
  ASSUME TypeOK, QueuesAreSound, NEW n \in Node, TransitionNode(n)
  PROVE  TypeOK'
<1> USE DEF resolveVars, worldVars
<1>1. /\ stateChangeQueue \in Seq(Node) /\ stateChangeQueue # <<>>
      /\ n = Head(stateChangeQueue) /\ stateChangeQueue' = Tail(stateChangeQueue)
      /\ next[n] \in Destination /\ next[n].state # "NO_STATE"
  BY DEF TransitionNode, TypeOK
<1>2. stateChangeQueue' \in Seq(Node) /\ n \in ToSet(stateChangeQueue)
  BY <1>1, TailFacts
<1>3. /\ queueStatus' \in [Node -> QueueStatus] /\ candidateQueue' \in Seq(Node)
      /\ fault' \in Fault
  <2>1. PICK told \in SUBSET Node : QueuesBecome(Notify(Moved(n), told))
    BY DEF TransitionNode, Listening, Listeners
  <2>2. TypedQueues(Notify(Moved(n), told))
    BY <1>2, MovedFacts, NotifyTyped DEF SoundQueues, TypedQueues
  <2> QED  BY <2>1, <2>2 DEF QueuesBecome, TypedQueues
<1>4. state' \in [Node -> NodeState] /\ next' \in [Node -> Destination]
  BY <1>1 DEF TransitionNode, TypeOK, Destination, NoTransition, ToState, To, Outcome,
              FailureType, NodeState
<1>5. outcome' \in [Node -> Outcome] /\ failure' \in [Node -> FailureType]
  BY <1>1 DEF TransitionNode, TypeOK, Destination, Outcome, FailureType
<1>6. holder' \in [Resource -> Node \cup {None}]
  BY DEF TransitionNode, TypeOK
<1>7. finishedRootNodes' \in Seq(Node)
  <2>1. finishedRootNodes' \in {finishedRootNodes, Append(finishedRootNodes, n)}
    BY DEF TransitionNode
  <2>2. finishedRootNodes \in Seq(Node) /\ Append(finishedRootNodes, n) \in Seq(Node)
    BY AppendFacts DEF TypeOK
  <2> QED  BY <2>1, <2>2
<1>8. \A queue \in Seq(Node) : \A type, s : Enqueue(queue, n, type, s) \in Seq(Node)
  BY AppendFacts DEF Enqueue
<1>9. /\ assignmentsToExecute' \in Seq(Node) /\ assignmentsToRetract' \in Seq(Node)
      /\ commandsToExecute' \in Seq(Node) /\ commandsToAbort' \in Seq(Node)
      /\ updatesToExecute' \in Seq(Node)
  BY <1>8 DEF TransitionNode, TypeOK
<1>10. /\ value' \in [Variable -> TruthValue] /\ saved' \in [Variable -> TruthValue]
       /\ handle' \in [Node -> Handle] /\ ack' \in [Node -> BOOLEAN]
       /\ exitLeaked' \subseteq Node
  <2>1. CASE next[n].state = "EXECUTING"
    <3>1. /\ value' = [v \in Variable |-> IF v \in Activated(n) THEN Initial[v] ELSE value[v]]
          /\ saved' = IF Type[n] = "Assignment" THEN [saved EXCEPT ![Dest[n]] = value'[Dest[n]]]
                      ELSE saved
          /\ handle' = [handle EXCEPT ![n] = "NO_COMMAND_HANDLE"]
          /\ ack' = [ack EXCEPT ![n] = FALSE]
          /\ exitLeaked' = IF Type[n] = "Command" THEN exitLeaked \cup {n} ELSE exitLeaked
      BY <2>1 DEF TransitionNode
    <3>2. value' \in [Variable -> TruthValue]
      BY <3>1, PlanAssumption DEF TypeOK
    <3>3. saved' \in [Variable -> TruthValue]
      BY <3>1, <3>2, PlanAssumption DEF TypeOK
    <3> QED  BY <3>1, <3>2, <3>3 DEF TypeOK, Handle
  <2>2. CASE next[n].state # "EXECUTING"
    BY <2>2 DEF TransitionNode, TypeOK
  <2> QED  BY <2>1, <2>2
<1>11. abortComplete' \in [Node -> BOOLEAN]
  BY DEF TransitionNode, TypeOK
<1> QED
  BY <1>2, <1>3, <1>4, <1>5, <1>6, <1>7, <1>9, <1>10, <1>11 DEF TypeOK, TransitionNode

LEMMA SetVariableTyped ==
  ASSUME TypeOK, NEW n \in Node, NEW v, Dest[n] \in Variable => v \in TruthValue,
         SetVariable(n, v)
  PROVE  /\ value' \in [Variable -> TruthValue]
         /\ queueStatus' \in [Node -> QueueStatus] /\ candidateQueue' \in Seq(Node)
         /\ fault' \in Fault
<1>1. PICK S \in SUBSET Node : QueuesBecome(Notify(Notify(queues, S), {n}))
  BY DEF SetVariable, Listening, Listeners
<1>2. TypedQueues(Notify(Notify(queues, S), {n}))
  <2>1. TypedQueues(Notify(queues, S))
    BY QueuesTyped, NotifyTyped
  <2> QED  BY <2>1, NotifyTyped
<1>3. value' \in [Variable -> TruthValue]
  <2>1. value' = [value EXCEPT ![Dest[n]] = v] /\ value \in [Variable -> TruthValue]
    BY DEF SetVariable, TypeOK
  <2>2. CASE Dest[n] \in Variable
    BY <2>1, <2>2
  <2>3. CASE Dest[n] \notin Variable
    BY <2>1, <2>3
  <2> QED  BY <2>2, <2>3
<1> QED  BY <1>1, <1>2, <1>3 DEF QueuesBecome, TypedQueues

LEMMA SetCommandHandleTyped ==
  ASSUME TypeOK, NEW n \in Node, NEW h \in Handle, SetCommandHandle(n, h)
  PROVE  /\ handle' \in [Node -> Handle]
         /\ queueStatus' \in [Node -> QueueStatus] /\ candidateQueue' \in Seq(Node)
         /\ fault' \in Fault
<1>1. PICK S \in SUBSET Node : QueuesBecome(Notify(queues, S))
  BY DEF SetCommandHandle
<1>2. TypedQueues(Notify(queues, S))
  BY QueuesTyped, NotifyTyped
<1>3. handle' \in [Node -> Handle]
  BY DEF SetCommandHandle, TypeOK
<1> QED  BY <1>1, <1>2, <1>3 DEF QueuesBecome, TypedQueues

LEMMA EffectsTyped ==
  ASSUME TypeOK, NEW n \in Node,
         \/ ExecuteAssignment(n) \/ RetractAssignment(n) \/ ExecuteCommand(n)
         \/ InvokeAbort(n) \/ ExecuteUpdate(n)
  PROVE  TypeOK'
<1> USE DEF EffectsUnchanged, queueVars, resourceVars, planVars, resolveVars, worldVars
<1>1. CASE ExecuteAssignment(n)
  <2>1. ack' \in [Node -> BOOLEAN] /\ assignmentsToExecute' \in Seq(Node)
    BY <1>1, TailFacts DEF ExecuteAssignment, TypeOK
  <2>2. Rhs[n] \in TruthValue /\ SetVariable(n, Rhs[n])
    BY <1>1, PlanAssumption DEF ExecuteAssignment
  <2> QED  BY <1>1, <2>1, <2>2, SetVariableTyped DEF ExecuteAssignment, TypeOK
<1>2. CASE RetractAssignment(n)
  <2>1. abortComplete' \in [Node -> BOOLEAN] /\ assignmentsToRetract' \in Seq(Node)
    BY <1>2, TailFacts DEF RetractAssignment, TypeOK
  <2>2. /\ Dest[n] \in Variable => saved[Dest[n]] \in TruthValue
        /\ SetVariable(n, saved[Dest[n]])
    BY <1>2 DEF RetractAssignment, TypeOK
  <2> QED  BY <1>2, <2>1, <2>2, SetVariableTyped DEF RetractAssignment, TypeOK
<1>3. CASE ExecuteCommand(n)
  <2>1. commandsToExecute' \in Seq(Node)
    BY <1>3, TailFacts DEF ExecuteCommand, TypeOK
  <2>2. CASE requests' = requests \cup {n} /\ UNCHANGED <<handle, queueVars>>
    BY <1>3, <2>1, <2>2 DEF ExecuteCommand, TypeOK
  <2>3. CASE SetCommandHandle(n, "COMMAND_FAILED") /\ UNCHANGED requests
    <3>1. "COMMAND_FAILED" \in Handle
      BY DEF Handle
    <3> QED  BY <1>3, <2>1, <2>3, <3>1, SetCommandHandleTyped DEF ExecuteCommand, TypeOK
  <2> QED  BY <1>3, <2>2, <2>3 DEF ExecuteCommand
<1>4. CASE InvokeAbort(n)
  <2>1. commandsToAbort' \in Seq(Node)
    BY <1>4, TailFacts DEF InvokeAbort, TypeOK
  <2> QED  BY <1>4, <2>1 DEF InvokeAbort, TypeOK
<1>5. CASE ExecuteUpdate(n)
  <2>1. updatesToExecute' \in Seq(Node)
    BY <1>5, TailFacts DEF ExecuteUpdate, TypeOK
  <2> QED  BY <1>5, <2>1 DEF ExecuteUpdate, TypeOK
<1> QED  BY <1>1, <1>2, <1>3, <1>4, <1>5

LEMMA WorldTyped ==
  ASSUME TypeOK, World
  PROVE  TypeOK'
<1> USE DEF WorldUnchanged, resourceVars, effectVars, nodeVars, resolveVars, worldVars
<1>1. \A source : Listening(source) \in SUBSET Node
  BY DEF Listening, Listeners
<1>2. ASSUME NEW S \in SUBSET Node, QueuesBecome(Notify(queues, S))
      PROVE  /\ queueStatus' \in [Node -> QueueStatus] /\ candidateQueue' \in Seq(Node)
             /\ fault' \in Fault
  BY <1>2, QueuesTyped, NotifyTyped DEF QueuesBecome, TypedQueues
<1>3. ASSUME NEW n \in Node, AddPlan(n) PROVE TypeOK'
  BY <1>2, <1>3 DEF AddPlan, planVars, TypeOK
<1>4. ASSUME NEW n \in Node, NEW h \in Handle, CommandHandleReturn(n, h) PROVE TypeOK'
  BY <1>4, SetCommandHandleTyped DEF CommandHandleReturn, planVars, TypeOK
<1>5. ASSUME NEW n \in Node, NEW v \in TruthValue, CommandReturn(n, v) PROVE TypeOK'
  BY <1>1, <1>2, <1>5 DEF CommandReturn, planVars, TypeOK
<1>6. ASSUME NEW n \in Node, NEW b \in BOOLEAN, CommandAbortAcknowledge(n, b) PROVE TypeOK'
  <2>1. abortComplete' \in [Node -> BOOLEAN]
    BY <1>6 DEF CommandAbortAcknowledge, TypeOK
  <2> QED  BY <1>2, <1>6, <2>1 DEF CommandAbortAcknowledge, planVars, TypeOK
<1>7. ASSUME NEW n \in Node, NEW b \in BOOLEAN, UpdateAcknowledge(n, b) PROVE TypeOK'
  <2>1. ack' \in [Node -> BOOLEAN]
    BY <1>7 DEF UpdateAcknowledge, TypeOK
  <2> QED  BY <1>2, <1>7, <2>1 DEF UpdateAcknowledge, planVars, TypeOK
<1>8. ASSUME NEW l \in Lookup, NEW v \in TruthValue, LookupReturn(l, v) PROVE TypeOK'
  BY <1>1, <1>2, <1>8 DEF LookupReturn, planVars, TypeOK
<1>9. ASSUME DeleteFinishedPlans PROVE TypeOK'
  <2>1. plan' \subseteq Node /\ deleted' \subseteq Node /\ finishedRootNodes' \in Seq(Node)
    BY <1>9 DEF DeleteFinishedPlans, TypeOK
  <2> QED  BY <1>9, <2>1 DEF DeleteFinishedPlans, queueVars, TypeOK
<1> QED  BY <1>3, <1>4, <1>5, <1>6, <1>7, <1>8, <1>9 DEF World

-----------------------------------------------------------------------------
(* The theorems *)

LEMMA Initially ==
  ASSUME Init
  PROVE  TypeOK /\ QueuesAreSound
<1>1. TypeOK
  <2>1. condition \in [Node -> [ConditionName -> Expression]]
    BY ConditionsAssumption DEF Init
  <2>2. value \in [Variable -> TruthValue]
    BY PlanAssumption DEF Init
  <2>3. next \in [Node -> Destination]
    BY DEF Init, NoTransition, ToState, To, Destination, Outcome, FailureType
  <2> QED
    BY <2>1, <2>2, <2>3 DEF Init, TypeOK, NodeState, Outcome, FailureType, TruthValue, Handle,
                            QueueStatus, Phase, Fault
<1>2. ToSet(<<>>) = {} /\ IsInjective(<<>>)
  BY DEF ToSet, IsInjective
<1>3. \A n \in Node : queueStatus[n] # "CHECK" /\ state[n] \notin Running
  BY DEF Init, Running
<1>4. CandidatesAreSound /\ PendingIsSound /\ ChangesAreSound
  BY <1>2, <1>3 DEF Init, CandidatesAreSound, PendingIsSound, ChangesAreSound
<1>5. WalkIsSound /\ MutualExclusion
  BY <1>2, <1>3 DEF Init, WalkIsSound, MutualExclusion
<1> QED  BY <1>1, <1>4, <1>5 DEF QueuesAreSound

LEMMA Inductive ==
  ASSUME TypeOK, QueuesAreSound, [Next]_vars
  PROVE  TypeOK' /\ QueuesAreSound'
<1>1. CASE UNCHANGED vars
  <2>1. TypeOK'
    BY <1>1 DEF TypeOK, vars, condVars, queueVars, resourceVars, effectVars, nodeVars,
                planVars, resolveVars, worldVars
  <2>2. /\ UNCHANGED <<state, next, holder, pendingQueue, stateChangeQueue, priorityNodes,
                        queueStatus, candidateQueue, phase, cursor>>
    BY <1>1 DEF vars, condVars, queueVars, resourceVars, nodeVars, resolveVars
  <2>3. WalkIsSound'
    BY <2>2 DEF QueuesAreSound, WalkIsSound
  <2>4. QueuesAreSound'
    BY <2>2, <2>3, OnlyPhase DEF QueuesAreSound, ChangesAreSound
  <2> QED  BY <2>1, <2>4
<1>2. CASE Next
  <2>1. QueuesAreSound'
    BY <1>2, QueuesStaySound
  <2>2. CASE StartStep \/ AllChecked \/ GroupDone \/ BatchDone \/ StepDone
    BY <2>1, <2>2, PhaseTyped
  <2>3. CASE \E n \in Node :
               \/ CheckCandidate(n) \/ KeepPending(n) \/ DropPending(n)
               \/ AcquireResources(n) \/ FailToAcquire(n) \/ TransitionNode(n)
    BY <2>1, <2>3, CheckCandidateTyped, KeepPendingTyped, DropPendingTyped, AcquireResourcesTyped,
       FailToAcquireTyped, TransitionNodeTyped
  <2>4. CASE \E n \in Node :
               \/ ExecuteAssignment(n) \/ RetractAssignment(n) \/ ExecuteCommand(n)
               \/ InvokeAbort(n) \/ ExecuteUpdate(n)
    BY <2>1, <2>4, EffectsTyped
  <2>5. CASE World
    BY <2>1, <2>5, WorldTyped
  <2> QED  BY <1>2, <2>1, <2>2, <2>3, <2>4, <2>5 DEF Next, Step
<1> QED  BY <1>1, <1>2

\* Every variable keeps its type in every plan: the queues hold nodes, a resource
\* is held by a node or by nobody, whatever NodeImpl and PlexilExec do.
THEOREM TypeCorrect == Spec => []TypeOK
<1>1. Init => TypeOK /\ QueuesAreSound
  BY Initially
<1>2. TypeOK /\ QueuesAreSound /\ [Next]_vars => TypeOK' /\ QueuesAreSound'
  BY Inductive
<1> QED  BY <1>1, <1>2, PTL DEF Spec

\* The queues of PlexilExec are kept apart: the status of a node tells which one
\* it is on, and each queue only holds nodes that may be on it.
THEOREM SoundQueuesAlways == Spec => []QueuesAreSound
<1>1. Init => TypeOK /\ QueuesAreSound
  BY Initially
<1>2. TypeOK /\ QueuesAreSound /\ [Next]_vars => TypeOK' /\ QueuesAreSound'
  BY Inductive
<1> QED  BY <1>1, <1>2, PTL DEF Spec

\* A node that runs holds all its mutexes, and an assignment its variable: what
\* tryResourceAcquisition() and the releases of NodeImpl are for.
THEOREM Exclusion == Spec => []MutualExclusion
<1>1. QueuesAreSound => MutualExclusion
  BY DEF QueuesAreSound
<1> QED  BY <1>1, SoundQueuesAlways, PTL

\* So two different nodes that run share neither a mutex nor the variable they
\* assign.
THEOREM NothingShared ==
  Spec => [](\A m, n \in Node : m # n /\ state[m] \in Running /\ state[n] \in Running
               => Resources(m) \cap Resources(n) = {})
<1>1. MutualExclusion =>
        \A m, n \in Node : m # n /\ state[m] \in Running /\ state[n] \in Running
          => Resources(m) \cap Resources(n) = {}
  BY DEF MutualExclusion, Holds
<1> QED  BY <1>1, Exclusion, PTL

\* NodeImpl::transition() only makes the moves of the node state machine: what
\* getDestState() found holds until the node's turn on the state change queue.
THEOREM LegalChanges == Spec => ChangesAreLegal
<1>1. ASSUME TypeOK, QueuesAreSound, Next, NEW n \in Node, state'[n] # state[n]
      PROVE  state'[n] \in LegalSuccessor(Type[n], state[n])
  <2> USE DEF condVars
  <2>1. PICK m \in Node : TransitionNode(m)
    <3>1. World \/ StartStep => UNCHANGED state
      BY DEF World, WorldUnchanged, AddPlan, DeleteFinishedPlans, LookupReturn,
             CommandHandleReturn, CommandReturn, CommandAbortAcknowledge, UpdateAcknowledge,
             StartStep
    <3>2. Step => UNCHANGED state \/ \E m \in Node : TransitionNode(m)
      BY DEF Step, CheckCandidate, KeepPending, DropPending, AcquireResources, FailToAcquire,
             ExecuteAssignment, RetractAssignment, ExecuteCommand, InvokeAbort, ExecuteUpdate,
             EffectsUnchanged, AllChecked, GroupDone, BatchDone, StepDone
    <3> QED  BY <1>1, <3>1, <3>2 DEF Next
  <2>2. /\ stateChangeQueue # <<>> /\ m = Head(stateChangeQueue)
        /\ state' = [state EXCEPT ![m] = next[m].state]
    BY <2>1 DEF TransitionNode
  <2>3. CanMove(m)
    <3>1. m \in ToSet(stateChangeQueue)
      BY <1>1, <2>2, TailFacts DEF TypeOK
    <3> QED  BY <1>1, <3>1 DEF QueuesAreSound, ChangesAreSound
  <2>4. n = m /\ state'[n] = next[m].state
    BY <1>1, <2>2 DEF TypeOK
  <2> QED  BY <2>3, <2>4 DEF CanMove
<1>2. TypeOK /\ QueuesAreSound /\ [Next]_vars =>
        [\A n \in Node : state'[n] # state[n] =>
           state'[n] \in LegalSuccessor(Type[n], state[n])]_vars
  BY <1>1
<1> QED  BY <1>2, TypeCorrect, SoundQueuesAlways, PTL DEF Spec, ChangesAreLegal

-----------------------------------------------------------------------------
(* The executive implements Reservations.  Most of its steps stutter: they *)
(* touch neither the holders nor the states of nodes.  Of the other three, *)
(* the move of a node is the interesting one: that a node which begins to  *)
(* execute holds all it needs is the part of QueuesAreSound about the      *)
(* state change queue, and what it gives up at the end it may give up.     *)

\* What the executive releases at the end of a node is its own.
LEMMA ReleasedIsNeeded ==
  ASSUME NEW n \in Node
  PROVE  Released(n) \subseteq Resources(n) /\ Mutexes(n) \subseteq Resources(n)
BY DEF Released, Resources, Mutexes

\* Every other step of the executive leaves the holders and the states alone.
LEMMA OtherStepsStutter ==
  ASSUME Next,
         ~\E n \in Node : AcquireResources(n) \/ FailToAcquire(n) \/ TransitionNode(n)
  PROVE  UNCHANGED <<holder, state>>
<1> USE DEF resourceVars, condVars
<1>1. World \/ StartStep => UNCHANGED <<holder, state>>
  BY DEF World, WorldUnchanged, AddPlan, DeleteFinishedPlans, LookupReturn,
         CommandHandleReturn, CommandReturn, CommandAbortAcknowledge, UpdateAcknowledge,
         StartStep
<1>2. Step => UNCHANGED <<holder, state>>
  BY DEF Step, CheckCandidate, KeepPending, DropPending, ExecuteAssignment, RetractAssignment,
         ExecuteCommand, InvokeAbort, ExecuteUpdate, EffectsUnchanged, AllChecked, GroupDone,
         BatchDone, StepDone
<1> QED  BY <1>1, <1>2 DEF Next

\* tryResourceAcquisition() succeeds.
LEMMA AcquireTakes ==
  ASSUME TypeOK, QueuesAreSound, NEW n \in Node, AcquireResources(n)
  PROVE  Reserving!Take(n)
<1>1. n \notin AtWork
  <2>1. IsPending(n)
    BY FirstToTry DEF AcquireResources
  <2> QED  BY <2>1 DEF IsPending, AtWork, Running
<1>2. AtWork' = AtWork
  <2>1. UNCHANGED state
    BY DEF AcquireResources, condVars
  <2> QED  BY <2>1 DEF AtWork
<1>3. Needs[n] = Resources(n)
  BY DEF Needs
<1>4. /\ \A r \in Resources(n) : holder[r] = None
      /\ holder' = [r \in Resource |-> IF r \in Resources(n) THEN n ELSE holder[r]]
  BY DEF AcquireResources
<1> QED  BY <1>1, <1>2, <1>3, <1>4 DEF Reserving!Take

\* It fails: the node gives up what it has got, and what it held from before.
LEMMA FailureLetsGo ==
  ASSUME TypeOK, QueuesAreSound, NEW n \in Node, FailToAcquire(n)
  PROVE  \E R \in SUBSET Needs[n] : Reserving!LetGo(n, R)
<1>1. AtWork' = AtWork /\ n \notin AtWork
  <2>1. IsPending(n)
    BY FirstToTry DEF FailToAcquire
  <2>2. UNCHANGED state
    BY DEF FailToAcquire, condVars
  <2> QED  BY <2>1, <2>2 DEF IsPending, AtWork, Running
<1>2. holder' = [r \in Resource |-> IF r \in Taken(n) \cup {m \in Mutexes(n) : holder[m] = n}
                                   THEN None ELSE holder[r]]
  BY DEF FailToAcquire
<1>3. ASSUME NEW r \in Taken(n)
      PROVE  holder[r] = None
  <2>1. Wanted(n) \in Seq(Resource)
    <3>1. Using[n] \in Seq(Resource) /\ <<>> \in Seq(Resource)
      BY PlanAssumption DEF Resource
    <3>2. Type[n] = "Assignment" => <<Dest[n]>> \in Seq(Resource)
      BY PlanAssumption DEF Resource
    <3> QED  BY <3>1, <3>2 DEF Wanted
  <2>2. PICK j \in DOMAIN Wanted(n) : /\ r = Wanted(n)[j]
                                     /\ \A i \in 1..j : holder[Wanted(n)[i]] = None
    BY <1>3 DEF Taken
  <2>3. j \in 1..j
    BY <2>1
  <2> QED  BY <2>2, <2>3
<1>4. holder' = [r \in Resource |->
                   IF r \in Mutexes(n) /\ holder[r] = n THEN None ELSE holder[r]]
  BY <1>2, <1>3
<1>5. Mutexes(n) \in SUBSET Needs[n]
  BY ReleasedIsNeeded DEF Needs
<1>6. AtWork' = AtWork \ {n}
  BY <1>1
<1> QED  BY <1>4, <1>5, <1>6 DEF Reserving!LetGo

\* NodeImpl::transition(): the node begins, ends, or stays as it is.
LEMMA TransitionMaps ==
  ASSUME TypeOK, QueuesAreSound, NEW n \in Node, TransitionNode(n)
  PROVE  [Reserving!Next]_(Reserving!vars)
<1>1. /\ stateChangeQueue # <<>> /\ n = Head(stateChangeQueue)
      /\ state' = [state EXCEPT ![n] = next[n].state]
      /\ holder' = [r \in Resource |-> IF r \in ReleasedByHolder(n) THEN None ELSE holder[r]]
  BY DEF TransitionNode
<1>2. CanMove(n)
  <2>1. n \in ToSet(stateChangeQueue)
    BY <1>1, TailFacts DEF TypeOK
  <2> QED  BY <2>1 DEF QueuesAreSound, ChangesAreSound
<1>3. \A m \in Node : state'[m] = IF m = n THEN next[n].state ELSE state[m]
  BY <1>1 DEF TypeOK
<1>4. Needs[n] = Resources(n)
  BY DEF Needs
<1>5. CASE next[n].state \notin Running
  <2>1. AtWork' = AtWork \ {n}
    BY <1>3, <1>5 DEF AtWork
  <2>2. holder' = [r \in Resource |->
                     IF r \in Released(n) /\ holder[r] = n THEN None ELSE holder[r]]
    BY <1>1 DEF ReleasedByHolder
  <2>3. Released(n) \in SUBSET Needs[n]
    BY <1>4, ReleasedIsNeeded
  <2>4. Reserving!LetGo(n, Released(n))
    BY <2>1, <2>2 DEF Reserving!LetGo
  <2> QED  BY <2>3, <2>4 DEF Reserving!Next
<1>6. CASE next[n].state \in Running
  <2>1. ReleasedByHolder(n) = {}
    BY <1>6 DEF ReleasedByHolder, Released, Running
  <2>2. holder' = holder
    BY <1>1, <2>1 DEF TypeOK
  <2>3. AtWork' = AtWork \cup {n}
    BY <1>3, <1>6 DEF AtWork
  <2>4. Holds(n)
    <3>1. CASE state[n] \in Running
      BY <3>1 DEF QueuesAreSound, MutualExclusion
    <3>2. CASE state[n] \notin Running
      <4>1. next[n].state = "EXECUTING"
        <5>1. /\ Type[n] \in NodeType /\ state[n] \in NodeState
              /\ next[n].state \in LegalSuccessor(Type[n], state[n])
          BY <1>2, PlanAssumption DEF CanMove, TypeOK
        <5> QED  BY <5>1, <1>6, <3>2, LegalSuccessorFacts DEF Running
      <4> QED  BY <1>2, <4>1 DEF CanMove
    <3> QED  BY <3>1, <3>2
  <2>5. Reserving!Begin(n)
    BY <1>4, <2>2, <2>3, <2>4 DEF Reserving!Begin, Holds
  <2> QED  BY <2>5 DEF Reserving!Next
<1> QED  BY <1>5, <1>6

\* Every behaviour of the executive is one of Reservations: its queues, the order it looks
\* at them in and the attempts that fail only decide which of the allowed steps it takes.
THEOREM ReservationsImplemented == Spec => ImplementsReservations
<1>1. Init => Reserving!Init
  <2>1. ASSUME Init PROVE AtWork = {}
    BY <2>1 DEF Init, AtWork, Running
  <2> QED  BY <2>1 DEF Init, Reserving!Init
<1>2. TypeOK /\ QueuesAreSound /\ [Next]_vars => [Reserving!Next]_(Reserving!vars)
  <2> SUFFICES ASSUME TypeOK, QueuesAreSound, [Next]_vars
               PROVE  [Reserving!Next]_(Reserving!vars)
    OBVIOUS
  <2>1. CASE UNCHANGED vars
    BY <2>1 DEF vars, resourceVars, condVars, Reserving!vars, AtWork
  <2>2. ASSUME NEW n \in Node, AcquireResources(n)
        PROVE  [Reserving!Next]_(Reserving!vars)
    BY <2>2, AcquireTakes DEF Reserving!Next
  <2>3. ASSUME NEW n \in Node, FailToAcquire(n)
        PROVE  [Reserving!Next]_(Reserving!vars)
    BY <2>3, FailureLetsGo DEF Reserving!Next
  <2>4. ASSUME NEW n \in Node, TransitionNode(n)
        PROVE  [Reserving!Next]_(Reserving!vars)
    BY <2>4, TransitionMaps
  <2>5. ASSUME Next,
               ~\E n \in Node : AcquireResources(n) \/ FailToAcquire(n) \/ TransitionNode(n)
        PROVE  [Reserving!Next]_(Reserving!vars)
    BY <2>5, OtherStepsStutter DEF Reserving!vars, AtWork
  <2> QED  BY <2>1, <2>2, <2>3, <2>4, <2>5
<1> QED  BY <1>1, <1>2, TypeCorrect, SoundQueuesAlways, PTL DEF Spec, ImplementsReservations,
            Reserving!Spec

=============================================================================
