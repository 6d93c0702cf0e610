------------------------- MODULE PlexilExecInvariants -------------------------
(***************************************************************************)
(* What else the executive keeps true in every plan, once its queues are   *)
(* sound: a node is on one queue at a time, what is queued to be sent is   *)
(* what its node waits for, the outcome of a node that has ended agrees    *)
(* with its failure type, an assignment that runs has its variable to      *)
(* itself, resources go by priority unless a node that waits holds one,    *)
(* who holds one runs unless a node was interrupted with its mutex, at     *)
(* rest who waits for one waits for a node that runs, and a change of a    *)
(* condition is told to whom it can move.  Then what holds in every        *)
(* execution of the plans whose lists nothing interrupts (who runs is      *)
(* inside a list that runs, a deleted plan leaves nothing behind), and of  *)
(* those in which a node that waits may start for good: it misses neither  *)
(* the change of a condition nor the release of a resource.                *)
(* If nothing tells it to give up either, no assertion fails.              *)
(***************************************************************************)
EXTENDS PlexilExecProofs

USE DEF At

-----------------------------------------------------------------------------
(* One queue at a time *)

\* Finished roots wait for their deletion, and nothing was refused by a queue.
FinishedAreSound ==
  /\ IsInjective(finishedRootNodes)
  /\ \A n \in ToSet(finishedRootNodes) : queueStatus[n] = "DELETE"
  /\ fault # "not queueable"

\* The queues new come from q without a node leaving the status DELETE, and
\* without a node being refused by a queue.
KeepsDeleted(q, new) ==
  /\ \A n \in Node : q.status[n] = "DELETE" => new.status[n] = "DELETE"
  /\ q.fault # "not queueable" => new.fault # "not queueable"

\* Nobody has the node on a queue but, perhaps, the candidate queue.
Free(q, n) == q.status[n] \in {"NONE", "CHECK"}

\* A notification leaves alone the nodes to be deleted, and free nodes free.
LEMMA NotifyKeeps ==
  ASSUME NEW q, NEW S \in SUBSET Node
  PROVE  /\ KeepsDeleted(q, Notify(q, S))
         /\ \A n \in Node : Free(q, n) => Free(Notify(q, S), n)
<1>1. /\ \A n \in Node : Notify(q, S).status[n] \in {q.status[n], Notified(q.status[n])}
      /\ Notify(q, S).fault \in {"notify", q.fault}
  BY DEF Notify
<1> QED  BY <1>1 DEF KeepsDeleted, Free, Notified

LEMMA NotifyAvailableKeeps ==
  ASSUME NEW q, q.status \in [Node -> QueueStatus], NEW R
  PROVE  /\ KeepsDeleted(q, NotifyAvailable(q, R))
         /\ \A n \in Node : Free(q, n) => Free(NotifyAvailable(q, R), n)
<1> DEFINE new == NotifyAvailable(q, R)
<1>1. /\ new.status = [n \in Node |-> IF \E r \in R : n \in waiters[r]
                                      THEN Available(q.status[n]) ELSE q.status[n]]
      /\ new.fault = q.fault
  BY DEF NotifyAvailable
<1> HIDE DEF new
<1>2. \A n \in Node : new.status[n] \in {q.status[n], Available(q.status[n])}
  BY <1>1
<1> QED  BY <1>1, <1>2 DEF KeepsDeleted, Free, Available, new

LEMMA KeepsStill ==
  ASSUME NEW p, NEW q, NEW new, KeepsDeleted(p, q), KeepsDeleted(q, new)
  PROVE  KeepsDeleted(p, new)
BY DEF KeepsDeleted

LEMMA StatusNow ==
  ASSUME TypeOK
  PROVE  /\ queues.status = queueStatus /\ queues.candidates = candidateQueue
         /\ queues.fault = fault /\ queueStatus \in [Node -> QueueStatus]
BY DEF TypeOK, queues

\* A step that only notifies nodes.
LEMMA FinishedStay ==
  ASSUME FinishedAreSound, TypeOK, NEW q, QueuesBecome(q), KeepsDeleted(queues, q),
         UNCHANGED finishedRootNodes
  PROVE  FinishedAreSound'
<1>1. ToSet(finishedRootNodes) \subseteq Node
  BY ElementFacts DEF TypeOK
<1> QED  BY <1>1, StatusNow DEF FinishedAreSound, QueuesBecome, KeepsDeleted

\* A step that moves one node which is not to be deleted.
LEMMA OneStatusChanged ==
  ASSUME FinishedAreSound, TypeOK, NEW n \in Node, queueStatus[n] # "DELETE",
         \A m \in Node \ {n} : queueStatus[m] = "DELETE" => queueStatus'[m] = "DELETE",
         fault' # "not queueable", UNCHANGED finishedRootNodes
  PROVE  FinishedAreSound'
<1>1. ToSet(finishedRootNodes) \subseteq Node
  BY ElementFacts DEF TypeOK
<1> QED  BY <1>1 DEF FinishedAreSound

\* A failed check of a condition is no refusal.
LEMMA CheckedKeeps ==
  ASSUME NEW q, NEW n
  PROVE  /\ Checked(q, n).status = q.status /\ Checked(q, n).candidates = q.candidates
         /\ q.fault # "not queueable" => Checked(q, n).fault # "not queueable"
BY DEF Checked, WithFault

\* Queue statuses that differ in the status of n only, which is s.
Differ(old, new, n, s) ==
  /\ new \in [Node -> QueueStatus] /\ new[n] = s
  /\ \A m \in Node \ {n} : new[m] = old[m]

LEMMA WithStatusIs ==
  ASSUME NEW q, q.status \in [Node -> QueueStatus], NEW n \in Node, NEW s \in QueueStatus
  PROVE  /\ Differ(q.status, WithStatus(q, n, s).status, n, s)
         /\ WithStatus(q, n, s).fault = q.fault
<1>1. /\ WithStatus(q, n, s).status = [q.status EXCEPT ![n] = s]
      /\ WithStatus(q, n, s).fault = q.fault
  BY DEF WithStatus
<1> QED  BY <1>1 DEF Differ

\* A step concerns the queue status of n only.
OthersStay(n) == \A m \in Node \ {n} : queueStatus'[m] = queueStatus[m]

\* A node is put on the state change queue only with the status QUEUE_NONE.
LEMMA Queueable ==
  ASSUME NEW q, q.status \in [Node -> QueueStatus], NEW n \in Node, q.status[n] = "NONE"
  PROVE  /\ Differ(q.status, StateChangeStatus(q, n).status, n, "TRANSITION")
         /\ StateChangeStatus(q, n).fault = q.fault
<1>1. StateChangeStatus(q, n) = WithStatus(q, n, "TRANSITION")
  BY DEF StateChangeStatus
<1> QED  BY <1>1, WithStatusIs, OtherStatuses

LEMMA CheckCandidateRefusesNone ==
  ASSUME TypeOK, QueuesAreSound, FinishedAreSound, NEW n \in Node, CheckCandidate(n)
  PROVE  FinishedAreSound' /\ OthersStay(n)
<1> DEFINE popped == [queues EXCEPT !.status[n] = "NONE", !.candidates = Tail(@)]
           q == Checked(popped, n)
<1>1. queueStatus[n] = "CHECK"
  <2>1. n \in ToSet(candidateQueue)
    BY TailFacts DEF CheckCandidate, TypeOK
  <2> QED  BY <2>1 DEF QueuesAreSound, CandidatesAreSound
<1>2. popped.status = [queueStatus EXCEPT ![n] = "NONE"] /\ popped.fault = fault
  BY DEF queues
<1> HIDE DEF popped
<1>3. Differ(queueStatus, q.status, n, "NONE") /\ q.fault # "not queueable"
  <2>1. q.status = popped.status /\ q.fault # "not queueable"
    BY <1>2, CheckedKeeps DEF FinishedAreSound
  <2> QED  BY <2>1, <1>2, StatusNow DEF QueueStatus, Differ
<1>4. \/ QueuesBecome(q) \/ QueuesBecome(StateChangeStatus(q, n))
      \/ QueuesBecome(WithStatus(q, n, "PENDING_TRY"))
  BY DEF CheckCandidate, q, popped
<1> HIDE DEF q
<1>5. /\ Differ(q.status, StateChangeStatus(q, n).status, n, "TRANSITION")
      /\ StateChangeStatus(q, n).fault = q.fault
      /\ Differ(q.status, WithStatus(q, n, "PENDING_TRY").status, n, "PENDING_TRY")
      /\ WithStatus(q, n, "PENDING_TRY").fault = q.fault
  <2>1. q.status \in [Node -> QueueStatus] /\ q.status[n] = "NONE"
    BY <1>3 DEF Differ
  <2>2. /\ Differ(q.status, StateChangeStatus(q, n).status, n, "TRANSITION")
        /\ StateChangeStatus(q, n).fault = q.fault
    BY <2>1, Queueable
  <2> QED  BY <2>1, <2>2, WithStatusIs, OtherStatuses
<1>6. fault' # "not queueable" /\ \A m \in Node \ {n} : queueStatus'[m] = queueStatus[m]
  BY <1>3, <1>4, <1>5 DEF QueuesBecome, Differ
<1>7. UNCHANGED finishedRootNodes
  BY DEF CheckCandidate, planVars
<1> QED  BY <1>1, <1>6, <1>7, OneStatusChanged DEF OthersStay

LEMMA KeepPendingRefusesNone ==
  ASSUME TypeOK, QueuesAreSound, FinishedAreSound, NEW n \in Node, KeepPending(n)
  PROVE  FinishedAreSound' /\ OthersStay(n)
<1>1. queueStatus[n] # "DELETE"
  <2>1. n \in ToSet(pendingQueue)
    BY WalkFacts DEF KeepPending
  <2> QED  BY <2>1 DEF QueuesAreSound, PendingIsSound, IsPending, PendingStatus
<1>2. \A m \in Node \ {n} : queueStatus'[m] = queueStatus[m]
  BY DEF KeepPending, TypeOK
<1>3. fault' # "not queueable" /\ UNCHANGED finishedRootNodes
  <2>1. Checked(queues, n).fault # "not queueable"
    BY StatusNow, CheckedKeeps DEF FinishedAreSound
  <2>2. fault' \in {fault, Checked(queues, n).fault} /\ UNCHANGED finishedRootNodes
    BY DEF KeepPending, planVars
  <2> QED  BY <2>1, <2>2 DEF FinishedAreSound
<1> QED  BY <1>1, <1>2, <1>3, OneStatusChanged DEF OthersStay

LEMMA DropPendingRefusesNone ==
  ASSUME TypeOK, QueuesAreSound, FinishedAreSound, NEW n \in Node, DropPending(n)
  PROVE  FinishedAreSound' /\ OthersStay(n)
<1> DEFINE q == WithStatus(Checked(queues, n), n, "NONE")
           moved == IF next'[n].state = "NO_STATE" THEN q ELSE StateChangeStatus(q, n)
           new == IF queueStatus[n] = "PENDING_CHECK" THEN WithStatus(moved, n, "PENDING")
                  ELSE moved
           Others(p) == /\ p.status \in [Node -> QueueStatus]
                        /\ \A m \in Node \ {n} : p.status[m] = queueStatus[m]
<1>1. queueStatus[n] # "DELETE"
  BY DEF DropPending
<1>2. Differ(queueStatus, q.status, n, "NONE") /\ q.fault # "not queueable"
  <2>1. Checked(queues, n).status = queueStatus /\ Checked(queues, n).fault # "not queueable"
    BY StatusNow, CheckedKeeps DEF FinishedAreSound
  <2>2. /\ Differ(Checked(queues, n).status, q.status, n, "NONE")
        /\ q.fault = Checked(queues, n).fault
    BY <2>1, StatusNow, WithStatusIs, OtherStatuses
  <2> QED  BY <2>1, <2>2
<1> HIDE DEF q
<1>3. Others(moved) /\ moved.fault # "not queueable"
  <2>1. q.status \in [Node -> QueueStatus] /\ q.status[n] = "NONE"
    BY <1>2 DEF Differ
  <2>2. /\ Differ(q.status, StateChangeStatus(q, n).status, n, "TRANSITION")
        /\ StateChangeStatus(q, n).fault = q.fault
    BY <2>1, Queueable
  <2> QED  BY <1>2, <2>1, <2>2 DEF Differ
<1> HIDE DEF moved
<1>4. Others(new) /\ new.fault # "not queueable"
  <2>1. /\ Differ(moved.status, WithStatus(moved, n, "PENDING").status, n, "PENDING")
        /\ WithStatus(moved, n, "PENDING").fault = moved.fault
    BY <1>3, WithStatusIs, OtherStatuses
  <2> QED  BY <2>1, <1>3 DEF Differ
<1>5. QueuesBecome(new) /\ UNCHANGED finishedRootNodes
  BY DEF DropPending, new, moved, q, planVars
<1> HIDE DEF new
<1> QED  BY <1>1, <1>4, <1>5, OneStatusChanged DEF QueuesBecome, OthersStay

LEMMA AcquireResourcesRefusesNone ==
  ASSUME TypeOK, QueuesAreSound, FinishedAreSound, NEW n \in Node, AcquireResources(n)
  PROVE  FinishedAreSound' /\ OthersStay(n)
<1> DEFINE q == WithStatus(queues, n, "NONE")
<1>1. queueStatus[n] # "DELETE"
  <2>1. IsPending(n)
    BY FirstToTry DEF AcquireResources
  <2> QED  BY <2>1 DEF IsPending, PendingStatus
<1>2. Differ(queueStatus, q.status, n, "NONE") /\ q.fault = fault
  BY StatusNow, WithStatusIs, OtherStatuses
<1> HIDE DEF q
<1>3. /\ Differ(q.status, StateChangeStatus(q, n).status, n, "TRANSITION")
      /\ StateChangeStatus(q, n).fault = q.fault
  BY <1>2, Queueable DEF Differ
<1>4. QueuesBecome(StateChangeStatus(q, n)) /\ UNCHANGED finishedRootNodes
  BY DEF AcquireResources, q, planVars
<1>5. fault' # "not queueable" /\ \A m \in Node \ {n} : queueStatus'[m] = queueStatus[m]
  BY <1>2, <1>3, <1>4 DEF QueuesBecome, FinishedAreSound, Differ
<1> QED  BY <1>1, <1>4, <1>5, OneStatusChanged DEF OthersStay

LEMMA FailToAcquireRefusesNone ==
  ASSUME TypeOK, QueuesAreSound, FinishedAreSound, NEW n \in Node, FailToAcquire(n)
  PROVE  FinishedAreSound'
<1> DEFINE freed == NotifyAvailable(queues, Taken(n) \cup {m \in Mutexes(n) : holder[m] = n})
           q == WithStatus(freed, n, "PENDING")
<1>1. queueStatus[n] # "DELETE"
  <2>1. IsPending(n)
    BY FirstToTry DEF FailToAcquire
  <2> QED  BY <2>1 DEF IsPending, PendingStatus
<1>2. KeepsDeleted(queues, freed)
  BY StatusNow, NotifyAvailableKeeps
<1>3. freed.fault = fault
  BY DEF NotifyAvailable, queues
<1>4. freed.status \in [Node -> QueueStatus]
  BY QueuesTyped, NotifyAvailableTyped DEF TypedQueues
<1>5. Differ(freed.status, q.status, n, "PENDING") /\ q.fault = freed.fault
  BY <1>4, WithStatusIs, OtherStatuses
<1>6. /\ queueStatus' = q.status /\ fault' \in {q.fault, "recursive mutex"}
      /\ UNCHANGED finishedRootNodes
  BY DEF FailToAcquire, QueuesBecome, WithFault, planVars
<1> HIDE DEF freed, q
<1>7. \A m \in Node \ {n} : queueStatus[m] = "DELETE" => queueStatus'[m] = "DELETE"
  BY <1>2, <1>5, <1>6, StatusNow DEF KeepsDeleted, Differ
<1>8. fault' # "not queueable"
  BY <1>3, <1>5, <1>6 DEF FinishedAreSound
<1> QED  BY <1>1, <1>6, <1>7, <1>8, OneStatusChanged

\* addFinishedRootNode() takes a node that no queue has, or the candidate queue.
LEMMA FinishDeletes ==
  ASSUME NEW q, q.status \in [Node -> QueueStatus], NEW n \in Node, Free(q, n)
  PROVE  /\ Differ(q.status, Finish(q, n).status, n, "DELETE")
         /\ Finish(q, n).fault = q.fault
<1>1. CASE q.status[n] = "CHECK"
  <2>1. /\ Finish(q, n).status = [q.status EXCEPT ![n] = "DELETE"]
        /\ Finish(q, n).fault = q.fault
    BY <1>1 DEF Finish
  <2> QED  BY <2>1 DEF Differ, QueueStatus
<1>2. CASE q.status[n] = "NONE"
  <2>1. Finish(q, n) = WithStatus(q, n, "DELETE")
    BY <1>2 DEF Finish
  <2> QED  BY <2>1, WithStatusIs, OtherStatuses
<1> QED  BY <1>1, <1>2 DEF Free

\* What the transition of n does to the queues: it refuses nobody, keeps the nodes
\* to be deleted, and n is one of them if it is a root that has finished.
LEMMA MovedKeeps ==
  ASSUME TypeOK, QueuesAreSound, FinishedAreSound, NEW n \in Node,
         n \in ToSet(stateChangeQueue)
  PROVE  /\ \A m \in Node : queueStatus[m] = "DELETE" => Moved(n).status[m] = "DELETE"
         /\ Moved(n).fault # "not queueable"
         /\ IsFinish(n) => Moved(n).status[n] = "DELETE"
<1> DEFINE popped == WithStatus(queues, n, "NONE")
           rechecked == IF queueStatus[n] = "TRANSITION_CHECK" THEN Notify(popped, {n})
                        ELSE popped
           freed == NotifyAvailable(rechecked, ReleasedByHolder(n))
           ready == Notify(freed, Initialized(n))
           told == IF IsFinish(n) THEN Finish(ready, n) ELSE Notify(ready, {n})
           Kept(q) == /\ TypedQueues(q) /\ Free(q, n) /\ q.fault # "not queueable"
                      /\ \A m \in Node : queueStatus[m] = "DELETE" => q.status[m] = "DELETE"
<1>1. queueStatus[n] # "DELETE"
  BY DEF QueuesAreSound, ChangesAreSound, CanMove, PendingStatus
<1>2. Kept(popped)
  <2>1. TypedQueues(popped)
    BY QueuesTyped, WithStatusTyped, OtherStatuses
  <2>2. Differ(queueStatus, popped.status, n, "NONE") /\ popped.fault = fault
    BY StatusNow, WithStatusIs, OtherStatuses
  <2> HIDE DEF popped
  <2> QED  BY <2>1, <2>2, <1>1 DEF Differ, Free, FinishedAreSound
<1> HIDE DEF popped
<1>3. ASSUME NEW q, Kept(q), NEW S \in SUBSET Node PROVE Kept(Notify(q, S))
  BY <1>3, NotifyTyped, NotifyKeeps DEF KeepsDeleted
<1>4. Kept(rechecked)
  BY <1>2, <1>3
<1> HIDE DEF rechecked
<1>5. Kept(freed)
  <2>1. TypedQueues(freed)
    BY <1>4, NotifyAvailableTyped
  <2>2. KeepsDeleted(rechecked, freed) /\ Free(freed, n)
    BY <1>4, NotifyAvailableKeeps DEF TypedQueues
  <2> HIDE DEF freed
  <2> QED  BY <2>1, <2>2, <1>4 DEF KeepsDeleted
<1> HIDE DEF freed
<1>6. Kept(ready)
  <2>1. Initialized(n) \in SUBSET Node
    BY DEF Initialized, Listening, Listeners
  <2> QED  BY <2>1, <1>3, <1>5
<1> HIDE DEF ready
<1>7. /\ \A m \in Node : queueStatus[m] = "DELETE" => told.status[m] = "DELETE"
      /\ told.fault # "not queueable"
      /\ IsFinish(n) => told.status[n] = "DELETE"
  <2>1. CASE IsFinish(n)
    <3>1. Differ(ready.status, Finish(ready, n).status, n, "DELETE")
          /\ Finish(ready, n).fault = ready.fault
      BY <1>6, FinishDeletes DEF TypedQueues
    <3> QED  BY <2>1, <3>1, <1>6 DEF Differ
  <2>2. CASE ~IsFinish(n)
    BY <2>2, <1>3, <1>6
  <2> QED  BY <2>1, <2>2
<1> HIDE DEF told
<1>8. Moved(n) = IF Type[n] = "List" THEN Notify(told, ToldChildren(n)) ELSE told
  BY DEF Moved, told, ready, freed, rechecked, popped
<1>9. KeepsDeleted(told, Notify(told, ToldChildren(n)))
  BY NotifyKeeps DEF ToldChildren, Children
<1> QED  BY <1>7, <1>8, <1>9 DEF KeepsDeleted

LEMMA TransitionNodeRefusesNone ==
  ASSUME TypeOK, QueuesAreSound, FinishedAreSound, NEW n \in Node, TransitionNode(n)
  PROVE  FinishedAreSound'
<1>1. n \in ToSet(stateChangeQueue)
  BY TailFacts DEF TransitionNode, TypeOK
<1>2. queueStatus[n] # "DELETE"
  BY <1>1 DEF QueuesAreSound, ChangesAreSound, CanMove, PendingStatus
<1>3. PICK told \in SUBSET Node : QueuesBecome(Notify(Moved(n), told))
  BY DEF TransitionNode, Listening, Listeners
<1>4. KeepsDeleted(Moved(n), Notify(Moved(n), told))
  BY NotifyKeeps
<1>5. /\ \A m \in Node : queueStatus[m] = "DELETE" => queueStatus'[m] = "DELETE"
      /\ fault' # "not queueable"
      /\ IsFinish(n) => queueStatus'[n] = "DELETE"
  BY <1>1, <1>3, <1>4, MovedKeeps DEF KeepsDeleted, QueuesBecome
<1>6. ToSet(finishedRootNodes) \subseteq Node /\ finishedRootNodes \in Seq(Node)
  BY ElementFacts DEF TypeOK
<1>7. CASE IsFinish(n)
  <2>1. n \notin ToSet(finishedRootNodes)
    BY <1>2 DEF FinishedAreSound
  <2>2. finishedRootNodes' = Append(finishedRootNodes, n)
    BY <1>7 DEF TransitionNode
  <2>3. /\ IsInjective(finishedRootNodes')
        /\ ToSet(finishedRootNodes') = ToSet(finishedRootNodes) \cup {n}
    BY <2>1, <2>2, <1>6, AppendFacts DEF FinishedAreSound
  <2> QED  BY <2>3, <1>5, <1>6, <1>7 DEF FinishedAreSound
<1>8. CASE ~IsFinish(n)
  <2>1. UNCHANGED finishedRootNodes
    BY <1>8 DEF TransitionNode
  <2> QED  BY <2>1, <1>2, <1>5, OneStatusChanged
<1> QED  BY <1>7, <1>8

\* The phases of a step, its effects, and what comes in between steps leave the
\* queues their nodes: they notify, and only a new step looks at the queues at all.
LEMMA OtherStepsRefuseNone ==
  ASSUME TypeOK, QueuesAreSound, FinishedAreSound, Next,
         ~\E n \in Node :
             \/ CheckCandidate(n) \/ KeepPending(n) \/ DropPending(n)
             \/ AcquireResources(n) \/ FailToAcquire(n) \/ TransitionNode(n)
  PROVE  FinishedAreSound'
<1>1. \A source : Listening(source) \in SUBSET Node
  BY DEF Listening, Listeners
<1>2. ASSUME NEW S \in SUBSET Node, QueuesBecome(Notify(queues, S)), UNCHANGED finishedRootNodes
      PROVE  FinishedAreSound'
  BY <1>2, NotifyKeeps, FinishedStay
<1>3. ASSUME UNCHANGED <<queueStatus, fault, finishedRootNodes>>
      PROVE  FinishedAreSound'
  BY <1>3 DEF FinishedAreSound
<1>4. CASE StartStep \/ AllChecked \/ GroupDone \/ BatchDone \/ StepDone
  <2>1. CASE StartStep
    <3>1. stateChangeQueue = <<>>
      BY <2>1 DEF StartStep, QueuesAreSound, ChangesAreSound
    <3> QED  BY <2>1, <3>1, <1>3 DEF StartStep, planVars
  <2>2. CASE AllChecked \/ GroupDone \/ BatchDone \/ StepDone
    BY <2>2, <1>3 DEF AllChecked, GroupDone, BatchDone, StepDone, planVars, queueVars
  <2> QED  BY <1>4, <2>1, <2>2
<1>5. ASSUME NEW n \in Node, ExecuteAssignment(n) \/ RetractAssignment(n)
      PROVE  FinishedAreSound'
  <2>1. UNCHANGED finishedRootNodes
    BY <1>5 DEF ExecuteAssignment, RetractAssignment, EffectsUnchanged, planVars
  <2>2. PICK S \in SUBSET Node : QueuesBecome(Notify(Notify(queues, S), {n}))
    <3>1. \E v : SetVariable(n, v)
      BY <1>5 DEF ExecuteAssignment, RetractAssignment
    <3> QED  BY <3>1, <1>1 DEF SetVariable
  <2>3. KeepsDeleted(queues, Notify(Notify(queues, S), {n}))
    <3>1. /\ KeepsDeleted(queues, Notify(queues, S))
          /\ KeepsDeleted(Notify(queues, S), Notify(Notify(queues, S), {n}))
      BY NotifyKeeps
    <3> QED  BY <3>1, KeepsStill
  <2> QED  BY <2>1, <2>2, <2>3, FinishedStay
<1>6. ASSUME NEW n \in Node, ExecuteCommand(n) \/ \E h \in Handle : CommandHandleReturn(n, h)
      PROVE  FinishedAreSound'
  <2>1. UNCHANGED finishedRootNodes
    BY <1>6 DEF ExecuteCommand, CommandHandleReturn, EffectsUnchanged, planVars
  <2>2. CASE UNCHANGED queueVars
    BY <2>1, <2>2, <1>3 DEF queueVars
  <2>3. CASE \E h : SetCommandHandle(n, h)
    BY <2>1, <2>3, <1>2 DEF SetCommandHandle
  <2> QED  BY <1>6, <2>2, <2>3 DEF ExecuteCommand, CommandHandleReturn
<1>7. ASSUME NEW n \in Node, InvokeAbort(n) \/ ExecuteUpdate(n) PROVE FinishedAreSound'
  BY <1>7, <1>3 DEF InvokeAbort, ExecuteUpdate, EffectsUnchanged, planVars, queueVars
<1>8. ASSUME NEW n \in Node,
             \/ AddPlan(n)
             \/ \E v \in TruthValue : CommandReturn(n, v)
             \/ \E b \in BOOLEAN : CommandAbortAcknowledge(n, b) \/ UpdateAcknowledge(n, b)
      PROVE  FinishedAreSound'
  <2>1. UNCHANGED finishedRootNodes
    BY <1>8 DEF AddPlan, CommandReturn, CommandAbortAcknowledge, UpdateAcknowledge, planVars
  <2>2. \E S \in SUBSET Node : QueuesBecome(Notify(queues, S))
    BY <1>8, <1>1 DEF AddPlan, CommandReturn, CommandAbortAcknowledge, UpdateAcknowledge
  <2> QED  BY <2>1, <2>2, <1>2
<1>9. ASSUME NEW l \in Lookup, NEW v \in TruthValue, LookupReturn(l, v) PROVE FinishedAreSound'
  BY <1>9, <1>1, <1>2 DEF LookupReturn, planVars
<1>10. CASE DeleteFinishedPlans
  <2>1. finishedRootNodes' = <<>> /\ UNCHANGED <<queueStatus, fault>>
    BY <1>10 DEF DeleteFinishedPlans, queueVars
  <2>2. ToSet(<<>>) = {} /\ IsInjective(<<>>)
    BY DEF ToSet, IsInjective
  <2> QED  BY <2>1, <2>2 DEF FinishedAreSound
<1>11. CASE Step
  BY <1>4, <1>5, <1>6, <1>7, <1>11 DEF Step
<1>12. CASE World
  <2>1. ASSUME NEW n \in Node, \E h \in Handle \ {"NO_COMMAND_HANDLE"} : CommandHandleReturn(n, h)
        PROVE  FinishedAreSound'
    BY <2>1, <1>6
  <2> QED  BY <1>8, <1>9, <1>10, <1>12, <2>1 DEF World
<1> QED  BY <1>4, <1>11, <1>12 DEF Next

LEMMA FinishedStaySound ==
  ASSUME TypeOK, QueuesAreSound, FinishedAreSound, [Next]_vars
  PROVE  FinishedAreSound'
<1>1. CASE UNCHANGED vars
  BY <1>1 DEF vars, queueVars, planVars, FinishedAreSound
<1>2. CASE Next /\ \E n \in Node :
             \/ CheckCandidate(n) \/ KeepPending(n) \/ DropPending(n)
             \/ AcquireResources(n) \/ FailToAcquire(n) \/ TransitionNode(n)
  BY <1>2, CheckCandidateRefusesNone, KeepPendingRefusesNone, DropPendingRefusesNone,
     AcquireResourcesRefusesNone, FailToAcquireRefusesNone, TransitionNodeRefusesNone
<1>3. CASE Next /\ ~\E n \in Node :
             \/ CheckCandidate(n) \/ KeepPending(n) \/ DropPending(n)
             \/ AcquireResources(n) \/ FailToAcquire(n) \/ TransitionNode(n)
  BY <1>3, OtherStepsRefuseNone
<1> QED  BY <1>1, <1>2, <1>3

LEMMA FinishedAlways == Spec => []FinishedAreSound
<1>1. Init => FinishedAreSound
  BY DEF Init, FinishedAreSound, ToSet, IsInjective
<1>2. TypeOK /\ QueuesAreSound /\ FinishedAreSound /\ [Next]_vars => FinishedAreSound'
  BY FinishedStaySound
<1> QED  BY <1>1, <1>2, TypeCorrect, SoundQueuesAlways, PTL DEF Spec

\* The checks of addStateChangeNode(), addFinishedRootNode() and the assertion that
\* a step finds the state change queue empty never fail, in any plan.
THEOREM NothingRefused == Spec => [](fault # "not queueable")
<1>1. FinishedAreSound => fault # "not queueable"
  BY DEF FinishedAreSound
<1> QED  BY <1>1, FinishedAlways, PTL

\* Where an element stands in a queue without repetition: nowhere, or in one place.
LEMMA PlacesCounted ==
  ASSUME NEW S, NEW q \in Seq(S), IsInjective(q), NEW e
  PROVE  Cardinality({i \in DOMAIN q : q[i] = e}) = IF e \in ToSet(q) THEN 1 ELSE 0
<1>1. CASE e \in ToSet(q)
  <2>1. PICK i \in DOMAIN q : q[i] = e
    BY <1>1 DEF ToSet
  <2>2. {j \in DOMAIN q : q[j] = e} = {i}
    BY <2>1 DEF IsInjective
  <2> QED  BY <1>1, <2>2, FS_Singleton
<1>2. CASE e \notin ToSet(q)
  <2>1. {i \in DOMAIN q : q[i] = e} = {}
    BY <1>2 DEF ToSet
  <2> QED  BY <1>2, <2>1, FS_EmptySet
<1> QED  BY <1>1, <1>2

\* The queues are linked through one pointer of the node: it is on one of them.
THEOREM OneQueueAlways == Spec => []OneQueue
<1>1. ASSUME TypeOK, QueuesAreSound, FinishedAreSound PROVE OneQueue
  <2> SUFFICES ASSUME NEW n \in Node
               PROVE  Cardinality({i \in DOMAIN candidateQueue : candidateQueue[i] = n})
                        + Cardinality({i \in DOMAIN pendingQueue : pendingQueue[i] = n})
                        + Cardinality({i \in DOMAIN stateChangeQueue : stateChangeQueue[i] = n})
                        + Cardinality({i \in DOMAIN finishedRootNodes :
                                         finishedRootNodes[i] = n}) <= 1
    BY DEF OneQueue
  <2> DEFINE In(q) == IF n \in ToSet(q) THEN 1 ELSE 0
  <2>1. /\ Cardinality({i \in DOMAIN candidateQueue : candidateQueue[i] = n}) = In(candidateQueue)
        /\ Cardinality({i \in DOMAIN pendingQueue : pendingQueue[i] = n}) = In(pendingQueue)
        /\ Cardinality({i \in DOMAIN stateChangeQueue : stateChangeQueue[i] = n})
             = In(stateChangeQueue)
        /\ Cardinality({i \in DOMAIN finishedRootNodes : finishedRootNodes[i] = n})
             = In(finishedRootNodes)
    <3>1. /\ candidateQueue \in Seq(Node) /\ IsInjective(candidateQueue)
          /\ pendingQueue \in Seq(Node) /\ IsInjective(pendingQueue)
          /\ stateChangeQueue \in Seq(Node) /\ IsInjective(stateChangeQueue)
          /\ finishedRootNodes \in Seq(Node) /\ IsInjective(finishedRootNodes)
      BY <1>1 DEF TypeOK, QueuesAreSound, CandidatesAreSound, PendingIsSound, ChangesAreSound,
                  FinishedAreSound
    <3> QED  BY <3>1, PlacesCounted
  <2>2. /\ n \in ToSet(candidateQueue) => queueStatus[n] = "CHECK"
        /\ n \in ToSet(pendingQueue) => /\ queueStatus[n] \in PendingStatus
                                        /\ n \notin ToSet(stateChangeQueue)
        /\ n \in ToSet(stateChangeQueue) =>
             queueStatus[n] \in {"TRANSITION", "TRANSITION_CHECK"} \cup PendingStatus
        /\ n \in ToSet(finishedRootNodes) => queueStatus[n] = "DELETE"
    BY <1>1 DEF QueuesAreSound, CandidatesAreSound, PendingIsSound, IsPending, ChangesAreSound,
                CanMove, FinishedAreSound
  <2>3. In(candidateQueue) + In(pendingQueue) + In(stateChangeQueue) + In(finishedRootNodes) <= 1
    BY <2>2 DEF PendingStatus
  <2> HIDE DEF In
  <2> QED  BY <2>1, <2>3
<1> QED  BY <1>1, TypeCorrect, SoundQueuesAlways, FinishedAlways, PTL

-----------------------------------------------------------------------------
(* What is queued to be sent *)

QueuedFor(queue, type, states) ==
  /\ IsInjective(queue)
  /\ \A n \in ToSet(queue) : Type[n] = type /\ state[n] \in states

\* The nodes on the queues that the quiescence loop stops for.
Stopping == ToSet(assignmentsToExecute) \cup ToSet(assignmentsToRetract)
              \cup ToSet(commandsToExecute) \cup ToSet(commandsToAbort)

\* A node with something to be sent is not about to change its state, except that
\* an update may fail: the loop does not stop for updates.
EffectsAreSound ==
  /\ QueuedFor(assignmentsToExecute, "Assignment", {"EXECUTING"})
  /\ QueuedFor(assignmentsToRetract, "Assignment", {"FAILING"})
  /\ QueuedFor(commandsToExecute, "Command", {"EXECUTING"})
  /\ QueuedFor(commandsToAbort, "Command", {"FAILING"})
  /\ QueuedFor(updatesToExecute, "Update", {"EXECUTING", "FAILING"})
  /\ \A n \in ToSet(updatesToExecute) :
       /\ ~ack[n]
       /\ n \in ToSet(stateChangeQueue) => next[n].state = "FAILING"
  /\ Stopping \cap ToSet(stateChangeQueue) = {}
  /\ phase \notin {"transition", "effects"} => NothingQueued
  /\ phase = "idle" => updatesToExecute = <<>>

\* The conditions of the plans are those they were written with.
ConditionsStay == condition \in Conditions

LEMMA ConditionsUnchanged ==
  ASSUME [Next]_vars
  PROVE  condition' = condition
<1> USE DEF condVars
<1>1. StartStep \/ World => UNCHANGED condition
  BY DEF World, WorldUnchanged, AddPlan, DeleteFinishedPlans, LookupReturn,
         CommandHandleReturn, CommandReturn, CommandAbortAcknowledge, UpdateAcknowledge,
         StartStep
<1>2. ASSUME NEW n \in Node, TransitionNode(n) PROVE UNCHANGED condition
  BY <1>2 DEF TransitionNode
<1>3. Step => UNCHANGED condition \/ \E n \in Node : TransitionNode(n)
  BY DEF Step, CheckCandidate, KeepPending, DropPending, AcquireResources, FailToAcquire,
         ExecuteAssignment, RetractAssignment, ExecuteCommand, InvokeAbort, ExecuteUpdate,
         EffectsUnchanged, AllChecked, GroupDone, BatchDone, StepDone
<1> QED  BY <1>1, <1>2, <1>3 DEF Next, vars

LEMMA ConditionsAlways == Spec => []ConditionsStay
<1>1. Init => ConditionsStay
  BY DEF Init, ConditionsStay
<1>2. ConditionsStay /\ [Next]_vars => ConditionsStay'
  BY ConditionsUnchanged DEF ConditionsStay
<1> QED  BY <1>1, <1>2, PTL DEF Spec

\* An update that waits for its acknowledgement goes nowhere but to FAILING: it has
\* an end condition of its own, which is false until then.
LEMMA UpdatesWait ==
  ASSUME ConditionsStay, TypeOK, NEW n \in Node, Type[n] = "Update", ~ack[n],
         state[n] \in {"EXECUTING", "FAILING"}
  PROVE  Evaluated(n).state \in {"NO_STATE", "FAILING"}
<1>1. condition[n]["end"].kind # "default"
  BY ConditionsAssumption DEF ConditionsStay, ConditionName
<1>2. ValuesOf(n).end = "F" /\ ValuesOf(n).actionComplete = "F"
  <2>1. EndCondition(n) = AllOf({Truth(ack[n]), Value(condition[n]["end"])})
    BY <1>1 DEF EndCondition
  <2>2. Truth(ack[n]) = "F"
    BY DEF Truth
  <2>3. EndCondition(n) = "F"
    BY <2>1, <2>2 DEF AllOf
  <2>4. ActionComplete(n) = "F"
    BY <2>2 DEF ActionComplete
  <2> QED  BY <2>3, <2>4 DEF ValuesOf
<1>3. DestState("Update", state[n], ValuesOf(n)).state \in {"NO_STATE", "FAILING"}
  BY <1>2, UnacknowledgedFails
<1> QED  BY <1>3 DEF Evaluated

\* While the executive checks conditions and resources nothing is queued but updates.
LEMMA EffectsKept ==
  ASSUME TypeOK, EffectsAreSound, NothingQueued, phase' # "idle",
         UNCHANGED <<state, ack, effectVars>>,
         \A n \in ToSet(updatesToExecute) \cap ToSet(stateChangeQueue') :
           next'[n].state = "FAILING"
  PROVE  EffectsAreSound'
<1>1. /\ QueuedFor(assignmentsToExecute, "Assignment", {"EXECUTING"})'
      /\ QueuedFor(assignmentsToRetract, "Assignment", {"FAILING"})'
      /\ QueuedFor(commandsToExecute, "Command", {"EXECUTING"})'
      /\ QueuedFor(commandsToAbort, "Command", {"FAILING"})'
      /\ QueuedFor(updatesToExecute, "Update", {"EXECUTING", "FAILING"})'
  BY DEF EffectsAreSound, QueuedFor, effectVars
<1>2. NothingQueued' /\ Stopping' = {}
  BY DEF NothingQueued, Assigned, Stopping, ToSet, effectVars
<1>3. \A n \in ToSet(updatesToExecute)' : ~ack'[n]
  BY DEF EffectsAreSound, effectVars
<1> QED  BY <1>1, <1>2, <1>3 DEF EffectsAreSound, effectVars

\* Nothing changes but the phase.
LEMMA EffectsInPhase ==
  ASSUME EffectsAreSound, UNCHANGED <<state, ack, next, stateChangeQueue, effectVars>>,
         phase' \notin {"transition", "effects"} => NothingQueued,
         phase' = "idle" => updatesToExecute = <<>>
  PROVE  EffectsAreSound'
BY DEF EffectsAreSound, QueuedFor, Stopping, NothingQueued, Assigned, effectVars

\* What the executive does to candidates and to nodes that wait for resources.
LEMMA QueueingKeepsEffects ==
  ASSUME TypeOK, QueuesAreSound, ConditionsStay, EffectsAreSound, NEW n \in Node,
         \/ CheckCandidate(n) \/ KeepPending(n) \/ DropPending(n)
         \/ AcquireResources(n) \/ FailToAcquire(n)
  PROVE  EffectsAreSound'
<1> USE DEF condVars
<1>1. NothingQueued /\ phase' # "idle"
  BY DEF CheckCandidate, KeepPending, DropPending, AcquireResources, FailToAcquire, Advance,
         EffectsAreSound
<1>2. UNCHANGED <<state, ack, effectVars>>
  BY DEF CheckCandidate, KeepPending, DropPending, AcquireResources, FailToAcquire
<1>3. /\ ToSet(stateChangeQueue') \subseteq ToSet(stateChangeQueue) \cup {n}
      /\ \A m \in Node \ {n} : next'[m] = next[m]
  <2>1. stateChangeQueue' \in {stateChangeQueue, Append(stateChangeQueue, n)}
    BY DEF CheckCandidate, KeepPending, DropPending, AcquireResources, FailToAcquire
  <2>2. next' \in {next, [next EXCEPT ![n] = Evaluated(n)]}
    BY DEF CheckCandidate, KeepPending, DropPending, AcquireResources, FailToAcquire, nodeVars
  <2>3. ToSet(Append(stateChangeQueue, n)) = ToSet(stateChangeQueue) \cup {n}
    BY AppendFacts DEF TypeOK
  <2> QED  BY <2>1, <2>2, <2>3 DEF TypeOK
<1>4. ASSUME n \in ToSet(updatesToExecute), n \in ToSet(stateChangeQueue')
      PROVE  next'[n].state = "FAILING"
  <2>1. Type[n] = "Update" /\ ~ack[n] /\ state[n] \in {"EXECUTING", "FAILING"}
    BY <1>4 DEF EffectsAreSound, QueuedFor
  <2>2. CASE CheckCandidate(n)
    <3>1. n \notin ToSet(stateChangeQueue)
      <4>1. n \in ToSet(candidateQueue)
        BY <2>2, TailFacts DEF CheckCandidate, TypeOK
      <4> QED  BY <4>1 DEF QueuesAreSound, CandidatesAreSound, ChangesAreSound, CanMove,
                           PendingStatus
    <3>2. next'[n] = Evaluated(n) /\ next'[n].state # "NO_STATE"
      BY <2>2, <3>1, <1>4 DEF CheckCandidate, TypeOK
    <3> QED  BY <2>1, <3>2, UpdatesWait
  <2>3. CASE KeepPending(n) \/ DropPending(n)
    <3>1. state[n] = "WAITING"
      BY <2>3, WalkFacts DEF KeepPending, DropPending, QueuesAreSound, PendingIsSound, IsPending
    <3> QED  BY <2>1, <3>1
  <2>4. CASE AcquireResources(n) \/ FailToAcquire(n)
    <3>1. IsPending(n)
      BY <2>4, FirstToTry DEF AcquireResources, FailToAcquire
    <3> QED  BY <2>1, <3>1 DEF IsPending
  <2> QED  BY <2>2, <2>3, <2>4
<1>5. ToSet(updatesToExecute) \subseteq Node
  BY ElementFacts DEF TypeOK
<1>6. ASSUME NEW m \in ToSet(updatesToExecute) \cap ToSet(stateChangeQueue')
      PROVE  next'[m].state = "FAILING"
  <2>1. CASE m = n
    BY <1>4, <1>6, <2>1
  <2>2. CASE m # n
    <3>1. m \in ToSet(stateChangeQueue) /\ next'[m] = next[m]
      BY <1>3, <1>5, <1>6, <2>2
    <3> QED  BY <3>1, <1>6 DEF EffectsAreSound
  <2> QED  BY <2>1, <2>2
<1> QED  BY <1>1, <1>2, <1>6, EffectsKept

\* NodeImpl::transition() of a node that has nothing to be sent queues it for what
\* its new state calls for; an update with a request may only fail.
LEMMA TransitionKeepsEffects ==
  ASSUME TypeOK, QueuesAreSound, EffectsAreSound, NEW n \in Node, TransitionNode(n)
  PROVE  EffectsAreSound'
<1> DEFINE Moves(type, s) == Type[n] = type /\ next[n].state = s
<1>1. /\ phase' = "transition" /\ stateChangeQueue # <<>> /\ n = Head(stateChangeQueue)
      /\ stateChangeQueue' = Tail(stateChangeQueue)
      /\ state' = [state EXCEPT ![n] = next[n].state]
      /\ next' = [next EXCEPT ![n] = NoTransition]
      /\ assignmentsToExecute' = Enqueue(assignmentsToExecute, n, "Assignment", "EXECUTING")
      /\ assignmentsToRetract' = Enqueue(assignmentsToRetract, n, "Assignment", "FAILING")
      /\ commandsToExecute' = Enqueue(commandsToExecute, n, "Command", "EXECUTING")
      /\ commandsToAbort' = Enqueue(commandsToAbort, n, "Command", "FAILING")
      /\ updatesToExecute' = Enqueue(updatesToExecute, n, "Update", "EXECUTING")
  BY DEF TransitionNode
<1>2. /\ n \in ToSet(stateChangeQueue)
      /\ ToSet(stateChangeQueue') = ToSet(stateChangeQueue) \ {n}
  BY <1>1, TailFacts DEF TypeOK, QueuesAreSound, ChangesAreSound
<1>3. /\ state'[n] = next[n].state
      /\ \A m \in Node \ {n} : state'[m] = state[m] /\ next'[m] = next[m]
  BY <1>1 DEF TypeOK
<1>4. ASSUME NEW queue \in Seq(Node), NEW type, NEW s, IsInjective(queue),
             Moves(type, s) => n \notin ToSet(queue)
      PROVE  /\ IsInjective(Enqueue(queue, n, type, s))
             /\ ToSet(Enqueue(queue, n, type, s)) =
                  ToSet(queue) \cup (IF Moves(type, s) THEN {n} ELSE {})
  BY <1>4, AppendFacts DEF Enqueue
<1>5. /\ n \notin ToSet(assignmentsToExecute) /\ n \notin ToSet(assignmentsToRetract)
      /\ n \notin ToSet(commandsToExecute) /\ n \notin ToSet(commandsToAbort)
      /\ n \in ToSet(updatesToExecute) => next[n].state = "FAILING"
  BY <1>2 DEF EffectsAreSound, Stopping
<1>6. /\ ToSet(assignmentsToExecute) \subseteq Node /\ ToSet(assignmentsToRetract) \subseteq Node
      /\ ToSet(commandsToExecute) \subseteq Node /\ ToSet(commandsToAbort) \subseteq Node
      /\ ToSet(updatesToExecute) \subseteq Node
  BY ElementFacts DEF TypeOK
<1>7. /\ IsInjective(assignmentsToExecute')
      /\ ToSet(assignmentsToExecute') =
           ToSet(assignmentsToExecute) \cup (IF Moves("Assignment", "EXECUTING") THEN {n} ELSE {})
  BY <1>1, <1>4, <1>5 DEF EffectsAreSound, QueuedFor, TypeOK
<1>8. /\ IsInjective(assignmentsToRetract')
      /\ ToSet(assignmentsToRetract') =
           ToSet(assignmentsToRetract) \cup (IF Moves("Assignment", "FAILING") THEN {n} ELSE {})
  BY <1>1, <1>4, <1>5 DEF EffectsAreSound, QueuedFor, TypeOK
<1>9. /\ IsInjective(commandsToExecute')
      /\ ToSet(commandsToExecute') =
           ToSet(commandsToExecute) \cup (IF Moves("Command", "EXECUTING") THEN {n} ELSE {})
  BY <1>1, <1>4, <1>5 DEF EffectsAreSound, QueuedFor, TypeOK
<1>10. /\ IsInjective(commandsToAbort')
       /\ ToSet(commandsToAbort') =
            ToSet(commandsToAbort) \cup (IF Moves("Command", "FAILING") THEN {n} ELSE {})
  BY <1>1, <1>4, <1>5 DEF EffectsAreSound, QueuedFor, TypeOK
<1>11. /\ IsInjective(updatesToExecute')
       /\ ToSet(updatesToExecute') =
            ToSet(updatesToExecute) \cup (IF Moves("Update", "EXECUTING") THEN {n} ELSE {})
  BY <1>1, <1>4, <1>5 DEF EffectsAreSound, QueuedFor, TypeOK
<1>12. /\ QueuedFor(assignmentsToExecute, "Assignment", {"EXECUTING"})'
       /\ QueuedFor(assignmentsToRetract, "Assignment", {"FAILING"})'
       /\ QueuedFor(commandsToExecute, "Command", {"EXECUTING"})'
       /\ QueuedFor(commandsToAbort, "Command", {"FAILING"})'
  BY <1>3, <1>5, <1>6, <1>7, <1>8, <1>9, <1>10 DEF EffectsAreSound, QueuedFor
<1>13. QueuedFor(updatesToExecute, "Update", {"EXECUTING", "FAILING"})'
  BY <1>3, <1>5, <1>6, <1>11 DEF EffectsAreSound, QueuedFor
<1>14. ASSUME NEW m \in ToSet(updatesToExecute')
       PROVE  /\ ~ack'[m]
              /\ m \in ToSet(stateChangeQueue') => next'[m].state = "FAILING"
  <2>1. \A p \in Node \ {n} : ack'[p] = ack[p]
    BY DEF TransitionNode, TypeOK
  <2>2. next[n].state = "EXECUTING" => ~ack'[n]
    BY DEF TransitionNode, TypeOK
  <2>3. next[n].state # "EXECUTING" => ack' = ack
    BY DEF TransitionNode
  <2>4. CASE m = n
    BY <1>2, <1>11, <2>2, <2>3, <2>4 DEF EffectsAreSound
  <2>5. CASE m # n
    BY <1>2, <1>3, <1>6, <1>11, <2>1, <2>5 DEF EffectsAreSound
  <2> QED  BY <2>4, <2>5
<1>15. Stopping' \cap ToSet(stateChangeQueue') = {}
  BY <1>2, <1>7, <1>8, <1>9, <1>10 DEF EffectsAreSound, Stopping
<1> QED  BY <1>1, <1>12, <1>13, <1>14, <1>15 DEF EffectsAreSound

\* Sending what is queued empties the queues; nothing else goes on meanwhile.
LEMMA SendingKeepsEffects ==
  ASSUME TypeOK, QueuesAreSound, EffectsAreSound, NEW n \in Node,
         \/ ExecuteAssignment(n) \/ RetractAssignment(n) \/ ExecuteCommand(n)
         \/ InvokeAbort(n) \/ ExecuteUpdate(n)
  PROVE  EffectsAreSound'
<1> DEFINE Sent(queue, type, states) ==
             /\ IsInjective(Tail(queue)) /\ ToSet(Tail(queue)) \subseteq ToSet(queue)
             /\ \A m \in ToSet(Tail(queue)) : Type[m] = type /\ state'[m] \in states
<1>1. /\ UNCHANGED <<state, stateChangeQueue>> /\ phase' = "effects"
      /\ stateChangeQueue = <<>>
  BY DEF ExecuteAssignment, RetractAssignment, ExecuteCommand, InvokeAbort, ExecuteUpdate,
         EffectsUnchanged, QueuesAreSound, ChangesAreSound
<1>2. ASSUME NEW queue \in Seq(Node), queue # <<>>, NEW type, NEW states,
             QueuedFor(queue, type, states)
      PROVE  Sent(queue, type, states)
  BY <1>1, <1>2, TailFacts DEF QueuedFor
<1>3. CASE ExecuteAssignment(n)
  <2>1. /\ assignmentsToExecute # <<>> /\ n = Head(assignmentsToExecute)
        /\ assignmentsToExecute' = Tail(assignmentsToExecute)
        /\ ack' = [ack EXCEPT ![n] = TRUE]
        /\ UNCHANGED <<assignmentsToRetract, commandsToExecute, commandsToAbort,
                       updatesToExecute>>
    BY <1>3 DEF ExecuteAssignment
  <2>2. Type[n] = "Assignment"
    BY <2>1, TailFacts DEF TypeOK, EffectsAreSound, QueuedFor
  <2>3. QueuedFor(assignmentsToExecute, "Assignment", {"EXECUTING"})'
    <3>1. Sent(assignmentsToExecute, "Assignment", {"EXECUTING"})
      BY <2>1, <1>2 DEF EffectsAreSound, TypeOK
    <3> QED  BY <2>1, <3>1 DEF QueuedFor
  <2>4. \A m \in ToSet(updatesToExecute) : ~ack'[m]
    BY <2>1, <2>2 DEF EffectsAreSound, QueuedFor, TypeOK
  <2> QED  BY <1>1, <2>1, <2>3, <2>4 DEF EffectsAreSound, QueuedFor, ToSet
<1>4. CASE RetractAssignment(n)
  <2>1. /\ assignmentsToRetract # <<>>
        /\ assignmentsToRetract' = Tail(assignmentsToRetract)
        /\ UNCHANGED <<assignmentsToExecute, commandsToExecute, commandsToAbort,
                       updatesToExecute, ack>>
    BY <1>4 DEF RetractAssignment
  <2>2. QueuedFor(assignmentsToRetract, "Assignment", {"FAILING"})'
    <3>1. Sent(assignmentsToRetract, "Assignment", {"FAILING"})
      BY <2>1, <1>2 DEF EffectsAreSound, TypeOK
    <3> QED  BY <2>1, <3>1 DEF QueuedFor
  <2> QED  BY <1>1, <2>1, <2>2 DEF EffectsAreSound, QueuedFor, ToSet
<1>5. CASE ExecuteCommand(n)
  <2>1. /\ commandsToExecute # <<>>
        /\ commandsToExecute' = Tail(commandsToExecute)
        /\ UNCHANGED <<assignmentsToExecute, assignmentsToRetract, commandsToAbort,
                       updatesToExecute, ack>>
    BY <1>5 DEF ExecuteCommand
  <2>2. QueuedFor(commandsToExecute, "Command", {"EXECUTING"})'
    <3>1. Sent(commandsToExecute, "Command", {"EXECUTING"})
      BY <2>1, <1>2 DEF EffectsAreSound, TypeOK
    <3> QED  BY <2>1, <3>1 DEF QueuedFor
  <2> QED  BY <1>1, <2>1, <2>2 DEF EffectsAreSound, QueuedFor, ToSet
<1>6. CASE InvokeAbort(n)
  <2>1. /\ commandsToAbort # <<>>
        /\ commandsToAbort' = Tail(commandsToAbort)
        /\ UNCHANGED <<assignmentsToExecute, assignmentsToRetract, commandsToExecute,
                       updatesToExecute, ack>>
    BY <1>6 DEF InvokeAbort
  <2>2. QueuedFor(commandsToAbort, "Command", {"FAILING"})'
    <3>1. Sent(commandsToAbort, "Command", {"FAILING"})
      BY <2>1, <1>2 DEF EffectsAreSound, TypeOK
    <3> QED  BY <2>1, <3>1 DEF QueuedFor
  <2> QED  BY <1>1, <2>1, <2>2 DEF EffectsAreSound, QueuedFor, ToSet
<1>7. CASE ExecuteUpdate(n)
  <2>1. /\ updatesToExecute # <<>>
        /\ updatesToExecute' = Tail(updatesToExecute)
        /\ UNCHANGED <<assignmentsToExecute, assignmentsToRetract, commandsToExecute,
                       commandsToAbort, ack>>
    BY <1>7 DEF ExecuteUpdate
  <2>2. /\ QueuedFor(updatesToExecute, "Update", {"EXECUTING", "FAILING"})'
        /\ ToSet(updatesToExecute') \subseteq ToSet(updatesToExecute)
    <3>1. Sent(updatesToExecute, "Update", {"EXECUTING", "FAILING"})
      BY <2>1, <1>2 DEF EffectsAreSound, TypeOK
    <3> QED  BY <2>1, <3>1 DEF QueuedFor
  <2> QED  BY <1>1, <2>1, <2>2 DEF EffectsAreSound, QueuedFor, ToSet
<1> QED  BY <1>3, <1>4, <1>5, <1>6, <1>7

\* The phases follow each other when their queues are empty, and between steps all
\* of them are.
LEMMA PhasesKeepEffects ==
  ASSUME EffectsAreSound, StartStep \/ AllChecked \/ GroupDone \/ BatchDone \/ StepDone
  PROVE  EffectsAreSound'
<1>1. UNCHANGED <<state, ack, next, stateChangeQueue, effectVars>>
  BY DEF StartStep, AllChecked, GroupDone, BatchDone, StepDone, condVars, nodeVars
<1>2. /\ phase' \notin {"transition", "effects"} => NothingQueued
      /\ phase' = "idle" => updatesToExecute = <<>>
  BY DEF StartStep, AllChecked, AfterCheck, GroupDone, BatchDone, StepDone, Performed,
         NothingQueued, EffectsAreSound
<1> QED  BY <1>1, <1>2, EffectsInPhase

LEMMA WorldKeepsEffects ==
  ASSUME EffectsAreSound, World
  PROVE  EffectsAreSound'
<1>1. /\ phase = "idle" /\ phase' = "idle"
      /\ UNCHANGED <<state, next, stateChangeQueue, effectVars>>
  BY DEF World, WorldUnchanged, AddPlan, DeleteFinishedPlans, LookupReturn, nodeVars,
         CommandHandleReturn, CommandReturn, CommandAbortAcknowledge, UpdateAcknowledge
<1>2. NothingQueued /\ updatesToExecute = <<>>
  BY <1>1 DEF EffectsAreSound
<1>3. /\ UNCHANGED <<assignmentsToExecute, assignmentsToRetract, commandsToExecute,
                     commandsToAbort, updatesToExecute>>
  BY <1>1 DEF effectVars
<1>4. \A n \in ToSet(updatesToExecute)' : FALSE
  BY <1>2, <1>3 DEF ToSet
<1> QED
  BY <1>1, <1>2, <1>3, <1>4 DEF EffectsAreSound, QueuedFor, Stopping, NothingQueued, Assigned

LEMMA EffectsAlways == Spec => []EffectsAreSound
<1>1. Init => EffectsAreSound
  BY DEF Init, EffectsAreSound, QueuedFor, Stopping, NothingQueued, Assigned, ToSet, IsInjective
<1>2. TypeOK /\ QueuesAreSound /\ ConditionsStay /\ EffectsAreSound /\ [Next]_vars
        => EffectsAreSound'
  <2> SUFFICES ASSUME TypeOK, QueuesAreSound, ConditionsStay, EffectsAreSound, [Next]_vars
               PROVE  EffectsAreSound'
    OBVIOUS
  <2>1. CASE UNCHANGED vars
    <3>1. /\ UNCHANGED <<state, ack, next, stateChangeQueue, effectVars, phase>>
      BY <2>1 DEF vars, condVars, nodeVars
    <3> QED  BY <3>1, EffectsInPhase DEF EffectsAreSound
  <2>2. CASE Step
    BY <2>2, QueueingKeepsEffects, TransitionKeepsEffects, SendingKeepsEffects,
       PhasesKeepEffects DEF Step
  <2>3. CASE StartStep
    BY <2>3, PhasesKeepEffects
  <2>4. CASE World
    BY <2>4, WorldKeepsEffects
  <2> QED  BY <2>1, <2>2, <2>3, <2>4 DEF Next
<1> QED  BY <1>1, <1>2, TypeCorrect, SoundQueuesAlways, ConditionsAlways, PTL DEF Spec

\* What performAssignments() and executeOutboundQueue() find on their queues is what
\* the nodes there wait for, and nothing is sent twice.
THEOREM EffectsMatch == Spec => []EffectsMatchState
<1>1. ASSUME TypeOK, EffectsAreSound PROVE EffectsMatchState
  <2>1. /\ ToSet(assignmentsToExecute \o commandsToExecute) =
             ToSet(assignmentsToExecute) \cup ToSet(commandsToExecute)
        /\ ToSet(assignmentsToRetract \o commandsToAbort) =
             ToSet(assignmentsToRetract) \cup ToSet(commandsToAbort)
    BY <1>1, ConcatFacts DEF TypeOK
  <2> QED  BY <1>1, <2>1 DEF EffectsAreSound, QueuedFor, EffectsMatchState
<1> QED  BY <1>1, TypeCorrect, EffectsAlways, PTL

-----------------------------------------------------------------------------
(* Outcomes *)

\* What the transition of n will leave as its outcome and its failure type.
OutcomeAfter(n) == OutcomeLeft(state[n], next[n], outcome[n])
FailureAfter(n) == FailureLeft(state[n], next[n], failure[n])

\* The outcome and failure type of n fit its state, and will fit the next one; what
\* is left from an earlier evaluation is nothing.
OutcomeIsSound(n) ==
  /\ OutcomeFits(state[n], outcome[n], failure[n])
  /\ IF n \in ToSet(stateChangeQueue)
     THEN OutcomeFits(next[n].state, OutcomeAfter(n), FailureAfter(n))
     ELSE next[n].outcome = "NO_OUTCOME" /\ next[n].failure = "NO_FAILURE"

OutcomesAreSound == \A n \in Node : OutcomeIsSound(n)

\* The evaluation of a node that is not about to change its state.
LEMMA EvaluatedFits ==
  ASSUME TypeOK, NEW n \in Node, n \notin ToSet(stateChangeQueue), OutcomeIsSound(n)
  PROVE  /\ Evaluated(n).state \in {"NO_STATE", "EXECUTING"} =>
              Evaluated(n).outcome = "NO_OUTCOME" /\ Evaluated(n).failure = "NO_FAILURE"
         /\ Evaluated(n).state # "NO_STATE" =>
              OutcomeFits(Evaluated(n).state, OutcomeLeft(state[n], Evaluated(n), outcome[n]),
                          FailureLeft(state[n], Evaluated(n), failure[n]))
<1> DEFINE d == DestState(Type[n], state[n], ValuesOf(n))
<1>1. /\ OutcomeFits(state[n], outcome[n], failure[n])
      /\ next[n].outcome = "NO_OUTCOME" /\ next[n].failure = "NO_FAILURE"
  BY DEF OutcomeIsSound
<1>2. Type[n] \in NodeType /\ state[n] \in NodeState
  BY PlanAssumption DEF TypeOK
<1>3. /\ d.state \in {"NO_STATE", "EXECUTING"} =>
           d.outcome = "NO_OUTCOME" /\ d.failure = "NO_FAILURE"
      /\ d.state # "NO_STATE" =>
           OutcomeFits(d.state, OutcomeLeft(state[n], d, outcome[n]),
                       FailureLeft(state[n], d, failure[n]))
  BY <1>1, <1>2, DestStateFits
<1>4. /\ Evaluated(n).state = d.state /\ Evaluated(n).outcome = d.outcome
      /\ Evaluated(n).failure = d.failure
  BY <1>1 DEF Evaluated
<1> HIDE DEF d
<1> QED  BY <1>3, <1>4 DEF OutcomeLeft, FailureLeft

\* A step that evaluates one node, and puts no other on the state change queue.
LEMMA OneEvaluated ==
  ASSUME TypeOK, OutcomesAreSound, NEW n \in Node, UNCHANGED <<state, outcome, failure>>,
         \A m \in Node \ {n} :
           /\ next'[m] = next[m]
           /\ m \in ToSet(stateChangeQueue') <=> m \in ToSet(stateChangeQueue),
         OutcomeIsSound(n)'
  PROVE  OutcomesAreSound'
<1>1. ASSUME NEW m \in Node, m # n PROVE OutcomeIsSound(m)'
  BY <1>1 DEF OutcomesAreSound, OutcomeIsSound, OutcomeAfter, FailureAfter
<1> QED  BY <1>1 DEF OutcomesAreSound

LEMMA QueueingKeepsOutcomes ==
  ASSUME TypeOK, QueuesAreSound, OutcomesAreSound, NEW n \in Node,
         \/ CheckCandidate(n) \/ KeepPending(n) \/ DropPending(n)
         \/ AcquireResources(n) \/ FailToAcquire(n)
  PROVE  OutcomesAreSound'
<1> USE DEF condVars, nodeVars
<1>1. UNCHANGED <<state, outcome, failure>>
  BY DEF CheckCandidate, KeepPending, DropPending, AcquireResources, FailToAcquire
<1>2. OutcomeIsSound(n) /\ n \notin ToSet(stateChangeQueue)
  <2>1. CASE CheckCandidate(n)
    <3>1. n \in ToSet(candidateQueue)
      BY <2>1, TailFacts DEF CheckCandidate, TypeOK
    <3> QED  BY <3>1 DEF QueuesAreSound, CandidatesAreSound, ChangesAreSound, CanMove,
                         PendingStatus, OutcomesAreSound
  <2>2. CASE KeepPending(n) \/ DropPending(n)
    BY <2>2, WalkFacts DEF KeepPending, DropPending, QueuesAreSound, PendingIsSound, IsPending,
                           OutcomesAreSound
  <2>3. CASE AcquireResources(n) \/ FailToAcquire(n)
    <3>1. IsPending(n)
      BY <2>3, FirstToTry DEF AcquireResources, FailToAcquire
    <3> QED  BY <3>1 DEF IsPending, OutcomesAreSound
  <2> QED  BY <2>1, <2>2, <2>3
<1>3. /\ \/ stateChangeQueue' = stateChangeQueue
         \/ stateChangeQueue' = Append(stateChangeQueue, n) /\ next'[n].state # "NO_STATE"
      /\ \/ next' = next /\ n \notin ToSet(stateChangeQueue')
         \/ next' = next /\ next[n].state = "EXECUTING" /\ state[n] = "WAITING"
         \/ next' = [next EXCEPT ![n] = Evaluated(n)]
      /\ n \notin ToSet(stateChangeQueue') => next'[n].state \in {"NO_STATE", "EXECUTING"}
           \/ next' = next
  <2>1. ToSet(Append(stateChangeQueue, n)) = ToSet(stateChangeQueue) \cup {n}
    BY AppendFacts DEF TypeOK
  <2>2. CASE CheckCandidate(n)
    BY <1>2, <2>1, <2>2 DEF CheckCandidate, ResourceCheckRequired
  <2>3. CASE KeepPending(n)
    BY <1>2, <2>3 DEF KeepPending
  <2>4. CASE DropPending(n)
    BY <1>2, <2>1, <2>4 DEF DropPending
  <2>5. CASE AcquireResources(n)
    <3>1. next[n].state = "EXECUTING" /\ state[n] = "WAITING"
      BY <2>5, FirstToTry DEF AcquireResources, IsPending
    <3> QED  BY <1>2, <2>1, <2>5, <3>1 DEF AcquireResources
  <2>6. CASE FailToAcquire(n)
    BY <1>2, <2>6 DEF FailToAcquire
  <2> QED  BY <2>2, <2>3, <2>4, <2>5, <2>6
<1>4. \A m \in Node \ {n} :
        /\ next'[m] = next[m]
        /\ m \in ToSet(stateChangeQueue') <=> m \in ToSet(stateChangeQueue)
  <2>1. ToSet(Append(stateChangeQueue, n)) = ToSet(stateChangeQueue) \cup {n}
    BY AppendFacts DEF TypeOK
  <2> QED  BY <1>3, <2>1 DEF TypeOK
<1>5. OutcomeIsSound(n)'
  <2>1. CASE next' = [next EXCEPT ![n] = Evaluated(n)]
    <3>1. next'[n] = Evaluated(n)
      BY <2>1 DEF TypeOK
    <3>2. /\ next'[n].state \in {"NO_STATE", "EXECUTING"} =>
               next'[n].outcome = "NO_OUTCOME" /\ next'[n].failure = "NO_FAILURE"
          /\ next'[n].state # "NO_STATE" =>
               OutcomeFits(next'[n].state, OutcomeLeft(state[n], next'[n], outcome[n]),
                           FailureLeft(state[n], next'[n], failure[n]))
      BY <3>1, <1>2, EvaluatedFits
    <3>3. n \in ToSet(stateChangeQueue') => next'[n].state # "NO_STATE"
      BY <1>2, <1>3
    <3>4. n \notin ToSet(stateChangeQueue') =>
            next'[n].outcome = "NO_OUTCOME" /\ next'[n].failure = "NO_FAILURE"
      BY <1>2, <1>3, <3>2 DEF OutcomeIsSound
    <3> QED  BY <1>1, <1>2, <3>2, <3>3, <3>4 DEF OutcomeIsSound, OutcomeAfter, FailureAfter
  <2>2. CASE next' = next /\ n \notin ToSet(stateChangeQueue')
    BY <2>2, <1>1, <1>2 DEF OutcomeIsSound
  <2>3. CASE next' = next /\ next[n].state = "EXECUTING" /\ state[n] = "WAITING"
    <3>1. /\ OutcomeFits(state[n], outcome[n], failure[n])
          /\ next[n].outcome = "NO_OUTCOME" /\ next[n].failure = "NO_FAILURE"
      BY <1>2 DEF OutcomeIsSound
    <3>2. OutcomeAfter(n) = outcome[n] /\ FailureAfter(n) = failure[n]
      BY <2>3, <3>1 DEF OutcomeAfter, FailureAfter, OutcomeLeft, FailureLeft, ResetBy
    <3>3. OutcomeFits("EXECUTING", outcome[n], failure[n])
      BY <2>3, <3>1 DEF OutcomeFits
    <3>4. OutcomeAfter(n)' = OutcomeAfter(n) /\ FailureAfter(n)' = FailureAfter(n)
      BY <2>3, <1>1 DEF OutcomeAfter, FailureAfter
    <3> QED  BY <2>3, <1>1, <3>1, <3>2, <3>3, <3>4 DEF OutcomeIsSound
  <2> QED  BY <1>3, <2>1, <2>2, <2>3
<1> QED  BY <1>1, <1>4, <1>5, OneEvaluated

\* NodeImpl::transition() leaves the outcome and failure type it was to leave.
LEMMA TransitionKeepsOutcomes ==
  ASSUME TypeOK, QueuesAreSound, OutcomesAreSound, NEW n \in Node, TransitionNode(n)
  PROVE  OutcomesAreSound'
<1>1. /\ stateChangeQueue # <<>> /\ n = Head(stateChangeQueue)
      /\ stateChangeQueue' = Tail(stateChangeQueue)
      /\ state' = [state EXCEPT ![n] = next[n].state]
      /\ next' = [next EXCEPT ![n] = NoTransition]
  BY DEF TransitionNode
<1>2. /\ n \in ToSet(stateChangeQueue)
      /\ ToSet(stateChangeQueue') = ToSet(stateChangeQueue) \ {n}
  BY <1>1, TailFacts DEF TypeOK, QueuesAreSound, ChangesAreSound
<1>3. outcome' = [outcome EXCEPT ![n] = OutcomeAfter(n)]
  BY DEF TransitionNode, OutcomeAfter, OutcomeLeft, ResetBy, Reset
<1>4. failure' = [failure EXCEPT ![n] = FailureAfter(n)]
  BY DEF TransitionNode, FailureAfter, FailureLeft, ResetBy, Reset
<1>5. OutcomeIsSound(n)'
  <2>1. OutcomeFits(next[n].state, OutcomeAfter(n), FailureAfter(n))
    BY <1>2 DEF OutcomesAreSound, OutcomeIsSound
  <2>2. /\ state'[n] = next[n].state /\ outcome'[n] = OutcomeAfter(n)
        /\ failure'[n] = FailureAfter(n) /\ next'[n] = NoTransition
    BY <1>1, <1>3, <1>4 DEF TypeOK
  <2> QED  BY <1>2, <2>1, <2>2 DEF OutcomeIsSound, NoTransition, ToState, To
<1>6. ASSUME NEW m \in Node \ {n} PROVE OutcomeIsSound(m)'
  <2>1. /\ state'[m] = state[m] /\ outcome'[m] = outcome[m]
        /\ failure'[m] = failure[m] /\ next'[m] = next[m]
    BY <1>1, <1>3, <1>4 DEF TypeOK
  <2> QED  BY <1>2, <2>1 DEF OutcomesAreSound, OutcomeIsSound, OutcomeAfter, FailureAfter
<1> QED  BY <1>5, <1>6 DEF OutcomesAreSound

LEMMA OutcomesAlways == Spec => []OutcomesAreSound
<1> USE DEF condVars, nodeVars
<1>1. Init => OutcomesAreSound
  BY DEF Init, OutcomesAreSound, OutcomeIsSound, OutcomeFits, Agree, NoTransition, ToState, To,
         ToSet
<1>2. TypeOK /\ QueuesAreSound /\ OutcomesAreSound /\ [Next]_vars => OutcomesAreSound'
  <2> SUFFICES ASSUME TypeOK, QueuesAreSound, OutcomesAreSound, [Next]_vars
               PROVE  OutcomesAreSound'
    OBVIOUS
  <2>1. ASSUME UNCHANGED <<state, outcome, failure, next, stateChangeQueue>>
        PROVE  OutcomesAreSound'
    BY <2>1 DEF OutcomesAreSound, OutcomeIsSound, OutcomeAfter, FailureAfter
  <2>2. CASE UNCHANGED vars
    BY <2>1, <2>2 DEF vars
  <2>3. CASE World \/ StartStep
    BY <2>1, <2>3 DEF World, WorldUnchanged, AddPlan, DeleteFinishedPlans, LookupReturn,
         CommandHandleReturn, CommandReturn, CommandAbortAcknowledge, UpdateAcknowledge,
         StartStep
  <2>4. CASE \E n \in Node :
               \/ CheckCandidate(n) \/ KeepPending(n) \/ DropPending(n)
               \/ AcquireResources(n) \/ FailToAcquire(n) \/ TransitionNode(n)
    BY <2>4, QueueingKeepsOutcomes, TransitionKeepsOutcomes
  <2>5. CASE \/ AllChecked \/ GroupDone \/ BatchDone \/ StepDone
             \/ \E n \in Node :
                  \/ ExecuteAssignment(n) \/ RetractAssignment(n) \/ ExecuteCommand(n)
                  \/ InvokeAbort(n) \/ ExecuteUpdate(n)
    BY <2>1, <2>5 DEF ExecuteAssignment, RetractAssignment, ExecuteCommand, InvokeAbort,
         ExecuteUpdate, EffectsUnchanged, AllChecked, GroupDone, BatchDone, StepDone
  <2> QED  BY <2>2, <2>3, <2>4, <2>5 DEF Next, Step
<1> QED  BY <1>1, <1>2, TypeCorrect, SoundQueuesAlways, PTL DEF Spec

\* A node that has ended has an outcome and, exactly when it failed or was interrupted,
\* a failure type: what checkConditions() and later transitions overwrite or keep of
\* m_nextOutcome and m_nextFailureType never mixes two iterations.
THEOREM OutcomesMatch == Spec => []OutcomeMatchesFailure
<1>1. OutcomesAreSound => OutcomeMatchesFailure
  BY DEF OutcomesAreSound, OutcomeIsSound, OutcomeFits, Agree, OutcomeMatchesFailure
<1> QED  BY <1>1, OutcomesAlways, PTL

-----------------------------------------------------------------------------
(* Assignments *)

\* An assignment that has been executed, or retracted, finds its variable as it left it,
\* and cannot move on before.
AssignmentIsSound(n) ==
  /\ state[n] # "FINISHING"
  /\ state[n] = "EXECUTING" /\ ack[n] => value[Dest[n]] = Rhs[n]
  /\ state[n] = "FAILING" /\ abortComplete[n] => value[Dest[n]] = saved[Dest[n]]
  /\ n \in ToSet(stateChangeQueue) =>
       /\ state[n] = "EXECUTING" => ack[n]
       /\ state[n] = "FAILING" => abortComplete[n]

\* Only commands are told to abort.
AssignmentsAreSound ==
  /\ \A n \in Node : Type[n] = "Assignment" => AssignmentIsSound(n)
  /\ \A n \in aborts : Type[n] = "Command"

\* What an assignment that runs relies on is the same after the step.
Undisturbed(n) ==
  /\ UNCHANGED <<state[n], ack[n], abortComplete[n]>>
  /\ state[n] \in Running => UNCHANGED <<value[Dest[n]], saved[Dest[n]]>>
  /\ n \in ToSet(stateChangeQueue') => n \in ToSet(stateChangeQueue)

LEMMA UndisturbedIsSound ==
  ASSUME NEW n \in Node, AssignmentIsSound(n), Undisturbed(n)
  PROVE  AssignmentIsSound(n)'
BY DEF AssignmentIsSound, Undisturbed, Running

\* The variable of an assignment that runs, or is about to, is its own.
LEMMA VariableIsOwn ==
  ASSUME QueuesAreSound, NEW m \in Node, NEW n \in Node, m # n,
         Type[m] = "Assignment", Type[n] = "Assignment", state[m] \in Running,
         state[n] \in Running \/ (n \in ToSet(stateChangeQueue) /\ next[n].state = "EXECUTING")
  PROVE  Dest[m] # Dest[n]
<1>1. Holds(m) /\ Holds(n)
  BY DEF QueuesAreSound, MutualExclusion, ChangesAreSound, CanMove
<1>2. Dest[m] \in Resources(m) /\ Dest[n] \in Resources(n)
  BY DEF Resources
<1> QED  BY <1>1, <1>2 DEF Holds

\* A step that changes no variable and no node but n.
LEMMA NothingAssigned ==
  ASSUME TypeOK, AssignmentsAreSound, NEW n \in Node,
         UNCHANGED <<state, ack, abortComplete, value, saved, aborts>>,
         ToSet(stateChangeQueue') \subseteq ToSet(stateChangeQueue) \cup {n},
         Type[n] = "Assignment" => AssignmentIsSound(n)'
  PROVE  AssignmentsAreSound'
<1>1. ASSUME NEW m \in Node \ {n}, Type[m] = "Assignment" PROVE AssignmentIsSound(m)'
  <2>1. Undisturbed(m)
    BY <1>1 DEF Undisturbed
  <2> QED  BY <1>1, <2>1, UndisturbedIsSound DEF AssignmentsAreSound
<1> QED  BY <1>1 DEF AssignmentsAreSound

\* An assignment is not moved before it is done.
LEMMA QueueingKeepsAssignments ==
  ASSUME TypeOK, QueuesAreSound, AssignmentsAreSound, NEW n \in Node,
         \/ CheckCandidate(n) \/ KeepPending(n) \/ DropPending(n)
         \/ AcquireResources(n) \/ FailToAcquire(n)
  PROVE  AssignmentsAreSound'
<1> USE DEF condVars, nodeVars, worldVars
<1>1. UNCHANGED <<state, ack, abortComplete, value, saved, aborts>>
  BY DEF CheckCandidate, KeepPending, DropPending, AcquireResources, FailToAcquire
<1>2. ToSet(stateChangeQueue') \subseteq ToSet(stateChangeQueue) \cup {n}
  <2>1. stateChangeQueue' \in {stateChangeQueue, Append(stateChangeQueue, n)}
    BY DEF CheckCandidate, KeepPending, DropPending, AcquireResources, FailToAcquire
  <2>2. ToSet(Append(stateChangeQueue, n)) = ToSet(stateChangeQueue) \cup {n}
    BY AppendFacts DEF TypeOK
  <2> QED  BY <2>1, <2>2
<1>3. ASSUME Type[n] = "Assignment", n \in ToSet(stateChangeQueue'),
             n \notin ToSet(stateChangeQueue)
      PROVE  /\ state[n] = "EXECUTING" => ack[n]
             /\ state[n] = "FAILING" => abortComplete[n]
  <2>1. CASE CheckCandidate(n)
    <3>1. Evaluated(n).state # "NO_STATE"
      BY <1>3, <2>1 DEF CheckCandidate, TypeOK
    <3>2. DestState("Assignment", state[n], ValuesOf(n)).state # "NO_STATE"
      BY <1>3, <3>1 DEF Evaluated
    <3>3. /\ state[n] = "EXECUTING" => ValuesOf(n).actionComplete = "T"
          /\ state[n] = "FAILING" => ValuesOf(n).abortComplete = "T"
      BY <3>2, AssignmentWaits
    <3>4. /\ ValuesOf(n).actionComplete = Truth(ack[n])
          /\ ValuesOf(n).abortComplete = Truth(abortComplete[n])
      BY <1>3 DEF ValuesOf, ActionComplete
    <3> QED  BY <3>3, <3>4 DEF Truth
  <2>2. CASE KeepPending(n) \/ DropPending(n)
    <3>1. state[n] = "WAITING"
      BY <2>2, WalkFacts DEF KeepPending, DropPending, QueuesAreSound, PendingIsSound, IsPending
    <3> QED  BY <3>1
  <2>3. CASE AcquireResources(n) \/ FailToAcquire(n)
    <3>1. IsPending(n)
      BY <2>3, FirstToTry DEF AcquireResources, FailToAcquire
    <3> QED  BY <3>1 DEF IsPending
  <2> QED  BY <2>1, <2>2, <2>3
<1>4. Type[n] = "Assignment" => AssignmentIsSound(n)'
  BY <1>1, <1>3 DEF AssignmentsAreSound, AssignmentIsSound
<1> QED  BY <1>1, <1>2, <1>4, NothingAssigned

\* NodeImpl::transition() starts and ends assignments; it gives initial values only to
\* variables that nobody has active, and saves the value of a variable nobody else has.
LEMMA TransitionKeepsAssignments ==
  ASSUME TypeOK, QueuesAreSound, AssignmentsAreSound, NEW n \in Node, TransitionNode(n)
  PROVE  AssignmentsAreSound'
<1>1. /\ stateChangeQueue # <<>> /\ n = Head(stateChangeQueue)
      /\ stateChangeQueue' = Tail(stateChangeQueue)
      /\ state' = [state EXCEPT ![n] = next[n].state]
      /\ aborts' = aborts
      /\ abortComplete' = [abortComplete EXCEPT ![n] =
           @ /\ <<Type[n], next[n].state>> \notin
                  {<<"Command", "EXECUTING">>, <<"Assignment", "FAILING">>}]
  BY DEF TransitionNode, worldVars
<1>2. /\ n \in ToSet(stateChangeQueue)
      /\ ToSet(stateChangeQueue') = ToSet(stateChangeQueue) \ {n}
  BY <1>1, TailFacts DEF TypeOK, QueuesAreSound, ChangesAreSound
<1>3. IF next[n].state = "EXECUTING"
      THEN /\ value' = [v \in Variable |-> IF v \in Activated(n) THEN Initial[v] ELSE value[v]]
           /\ saved' = IF Type[n] = "Assignment"
                       THEN [saved EXCEPT ![Dest[n]] = value'[Dest[n]]] ELSE saved
           /\ ack' = [ack EXCEPT ![n] = FALSE]
      ELSE UNCHANGED <<value, saved, ack>>
  BY DEF TransitionNode
<1>4. ASSUME NEW m \in Node \ {n}, Type[m] = "Assignment" PROVE AssignmentIsSound(m)'
  <2>1. UNCHANGED <<state[m], ack[m], abortComplete[m]>>
    BY <1>1, <1>3 DEF TypeOK
  <2>2. ASSUME state[m] \in Running PROVE UNCHANGED <<value[Dest[m]], saved[Dest[m]]>>
    <3>1. Dest[m] \in Variable /\ Dest[m] \notin Activated(n)
      BY <1>4, <2>2, PlanAssumption DEF Activated, VariableActive
    <3>2. next[n].state = "EXECUTING" /\ Type[n] = "Assignment" => Dest[m] # Dest[n]
      BY <1>2, <1>4, <2>2, VariableIsOwn
    <3> QED  BY <1>3, <3>1, <3>2 DEF TypeOK
  <2>3. Undisturbed(m)
    BY <1>2, <2>1, <2>2 DEF Undisturbed
  <2> QED  BY <1>4, <2>3, UndisturbedIsSound DEF AssignmentsAreSound
<1>5. ASSUME Type[n] = "Assignment" PROVE AssignmentIsSound(n)'
  <2>1. state'[n] = next[n].state /\ n \notin ToSet(stateChangeQueue')
    BY <1>1, <1>2 DEF TypeOK
  <2>2. state'[n] # "FINISHING"
    <3>1. next[n].state \in LegalSuccessor("Assignment", state[n]) /\ state[n] \in NodeState
      BY <1>2, <1>5 DEF QueuesAreSound, ChangesAreSound, CanMove, TypeOK
    <3> QED  BY <2>1, <3>1 DEF LegalSuccessor, NodeState
  <2>3. state'[n] = "EXECUTING" => ~ack'[n]
    BY <2>1, <1>3 DEF TypeOK
  <2>4. state'[n] = "FAILING" => ~abortComplete'[n]
    BY <2>1, <1>1, <1>5 DEF TypeOK
  <2> QED  BY <2>1, <2>2, <2>3, <2>4 DEF AssignmentIsSound
<1> QED  BY <1>1, <1>4, <1>5 DEF AssignmentsAreSound

\* performAssignments() sets or restores the variable of the assignment, and no other's.
LEMMA PerformingKeepsAssignments ==
  ASSUME TypeOK, QueuesAreSound, EffectsAreSound, AssignmentsAreSound, NEW n \in Node,
         ExecuteAssignment(n) \/ RetractAssignment(n)
  PROVE  AssignmentsAreSound'
<1> DEFINE v == IF state[n] = "EXECUTING" THEN Rhs[n] ELSE saved[Dest[n]]
<1>1. /\ Type[n] = "Assignment" /\ Dest[n] \in Variable
      /\ ExecuteAssignment(n) => state[n] = "EXECUTING"
      /\ RetractAssignment(n) => state[n] = "FAILING"
  <2>1. ExecuteAssignment(n) => n \in ToSet(assignmentsToExecute)
    BY TailFacts DEF ExecuteAssignment, TypeOK
  <2>2. RetractAssignment(n) => n \in ToSet(assignmentsToRetract)
    BY TailFacts DEF RetractAssignment, TypeOK
  <2> QED  BY <2>1, <2>2, PlanAssumption DEF EffectsAreSound, QueuedFor
<1>2. /\ UNCHANGED <<state, saved, aborts, stateChangeQueue>> /\ stateChangeQueue = <<>>
      /\ value' = [value EXCEPT ![Dest[n]] = v]
      /\ \A m \in Node \ {n} : ack'[m] = ack[m] /\ abortComplete'[m] = abortComplete[m]
  BY <1>1 DEF ExecuteAssignment, RetractAssignment, SetVariable, EffectsUnchanged, worldVars,
              QueuesAreSound, ChangesAreSound, TypeOK
<1>3. value'[Dest[n]] = v
  BY <1>1, <1>2 DEF TypeOK
<1>4. AssignmentIsSound(n)'
  BY <1>1, <1>2, <1>3 DEF AssignmentIsSound, ToSet
<1>5. ASSUME NEW m \in Node \ {n}, Type[m] = "Assignment" PROVE AssignmentIsSound(m)'
  <2>1. state[m] \in Running => value'[Dest[m]] = value[Dest[m]]
    <3>1. ASSUME state[m] \in Running PROVE Dest[m] # Dest[n]
      <4>1. state[n] \in Running
        BY <1>1 DEF Running
      <4> QED  BY <1>1, <1>5, <3>1, <4>1, VariableIsOwn
    <3> QED  BY <1>2, <3>1, <1>5, PlanAssumption DEF TypeOK
  <2>2. Undisturbed(m)
    BY <1>2, <2>1 DEF Undisturbed
  <2> QED  BY <1>5, <2>2, UndisturbedIsSound DEF AssignmentsAreSound
<1> QED  BY <1>2, <1>4, <1>5 DEF AssignmentsAreSound

\* No result is written into the variable of an assignment that runs.
NoResultMeanwhile ==
  \A m, n \in Node, v \in TruthValue :
    Type[n] = "Assignment" /\ state[n] \in Running /\ CommandReturn(m, v)
      => Dest[m] # Dest[n]

\* Sending commands and updates, and what comes in between steps.
LEMMA OthersKeepAssignments ==
  ASSUME TypeOK, EffectsAreSound, AssignmentsAreSound, Next, NoResultMeanwhile,
         ~\E n \in Node :
             \/ CheckCandidate(n) \/ KeepPending(n) \/ DropPending(n)
             \/ AcquireResources(n) \/ FailToAcquire(n) \/ TransitionNode(n)
             \/ ExecuteAssignment(n) \/ RetractAssignment(n)
  PROVE  AssignmentsAreSound'
<1> USE DEF condVars, nodeVars, worldVars
<1>1. ASSUME UNCHANGED <<state, ack, abortComplete, value, saved, stateChangeQueue>>,
             \A n \in aborts' : Type[n] = "Command"
      PROVE  AssignmentsAreSound'
  BY <1>1 DEF AssignmentsAreSound, AssignmentIsSound
<1>2. CASE StartStep \/ AllChecked \/ GroupDone \/ BatchDone \/ StepDone
  BY <1>1, <1>2 DEF AssignmentsAreSound, StartStep, AllChecked, GroupDone, BatchDone, StepDone
<1>3. ASSUME NEW n \in Node, ExecuteCommand(n) \/ ExecuteUpdate(n) PROVE AssignmentsAreSound'
  BY <1>1, <1>3 DEF AssignmentsAreSound, ExecuteCommand, ExecuteUpdate, EffectsUnchanged
<1>4. ASSUME NEW n \in Node, InvokeAbort(n) PROVE AssignmentsAreSound'
  <2>1. n \in ToSet(commandsToAbort)
    BY <1>4, TailFacts DEF InvokeAbort, TypeOK
  <2>2. Type[n] = "Command"
    BY <2>1 DEF EffectsAreSound, QueuedFor
  <2> QED  BY <1>1, <1>4, <2>2 DEF AssignmentsAreSound, InvokeAbort, EffectsUnchanged
<1>5. ASSUME NEW n \in Node,
             AddPlan(n) \/ \E h \in Handle : CommandHandleReturn(n, h)
      PROVE  AssignmentsAreSound'
  BY <1>1, <1>5 DEF AssignmentsAreSound, AddPlan, CommandHandleReturn, WorldUnchanged
<1>6. CASE DeleteFinishedPlans \/ \E l \in Lookup, v \in TruthValue : LookupReturn(l, v)
  BY <1>1, <1>6 DEF AssignmentsAreSound, DeleteFinishedPlans, LookupReturn, WorldUnchanged
<1>7. ASSUME NEW n \in Node, NEW b \in BOOLEAN,
             CommandAbortAcknowledge(n, b) \/ UpdateAcknowledge(n, b)
      PROVE  AssignmentsAreSound'
  <2>1. /\ UNCHANGED <<state, value, saved, stateChangeQueue, aborts>>
        /\ \A m \in Node \ {n} : ack'[m] = ack[m] /\ abortComplete'[m] = abortComplete[m]
    BY <1>7 DEF CommandAbortAcknowledge, UpdateAcknowledge, WorldUnchanged, TypeOK
  <2>2. Type[n] # "Assignment"
    BY <1>7 DEF CommandAbortAcknowledge, UpdateAcknowledge, AssignmentsAreSound
  <2>3. ASSUME NEW m \in Node, Type[m] = "Assignment" PROVE AssignmentIsSound(m)'
    <3>1. Undisturbed(m)
      BY <2>1, <2>2, <2>3 DEF Undisturbed
    <3> QED  BY <2>3, <3>1, UndisturbedIsSound DEF AssignmentsAreSound
  <2> QED  BY <2>1, <2>3 DEF AssignmentsAreSound
<1>8. ASSUME NEW n \in Node, NEW v \in TruthValue, CommandReturn(n, v)
      PROVE  AssignmentsAreSound'
  <2>1. /\ UNCHANGED <<state, ack, abortComplete, saved, stateChangeQueue, aborts>>
        /\ value' = [value EXCEPT ![Dest[n]] = v]
    BY <1>8 DEF CommandReturn, WorldUnchanged
  <2>2. ASSUME NEW m \in Node, Type[m] = "Assignment" PROVE AssignmentIsSound(m)'
    <3>1. state[m] \in Running => Dest[n] # Dest[m]
      BY <1>8, <2>2 DEF NoResultMeanwhile
    <3>2. state[m] \in Running => value'[Dest[m]] = value[Dest[m]]
      BY <2>1, <2>2, <3>1, PlanAssumption DEF TypeOK
    <3>3. Undisturbed(m)
      BY <2>1, <3>2 DEF Undisturbed
    <3> QED  BY <2>2, <3>3, UndisturbedIsSound DEF AssignmentsAreSound
  <2> QED  BY <2>1, <2>2 DEF AssignmentsAreSound
<1>9. CASE Step
  BY <1>2, <1>3, <1>4, <1>9 DEF Step
<1>10. CASE World
  <2>1. ASSUME NEW n \in Node, \E h \in Handle \ {"NO_COMMAND_HANDLE"} : CommandHandleReturn(n, h)
        PROVE  AssignmentsAreSound'
    BY <2>1, <1>5
  <2> QED  BY <1>5, <1>6, <1>7, <1>8, <1>10, <2>1 DEF World
<1> QED  BY <1>2, <1>9, <1>10 DEF Next

LEMMA AssignmentsStaySound ==
  ASSUME TypeOK, QueuesAreSound, EffectsAreSound, AssignmentsAreSound, [Next]_vars,
         [NoResultMeanwhile]_vars
  PROVE  AssignmentsAreSound'
<1> DEFINE Moves(n) == \/ CheckCandidate(n) \/ KeepPending(n) \/ DropPending(n)
                       \/ AcquireResources(n) \/ FailToAcquire(n) \/ TransitionNode(n)
                       \/ ExecuteAssignment(n) \/ RetractAssignment(n)
<1>1. CASE UNCHANGED vars
  BY <1>1 DEF vars, condVars, nodeVars, worldVars, AssignmentsAreSound, AssignmentIsSound
<1>2. CASE Next /\ ~UNCHANGED vars /\ \E n \in Node : Moves(n)
  BY <1>2, QueueingKeepsAssignments, TransitionKeepsAssignments, PerformingKeepsAssignments
<1>3. CASE Next /\ ~UNCHANGED vars /\ ~\E n \in Node : Moves(n)
  BY <1>3, OthersKeepAssignments
<1> QED  BY <1>1, <1>2, <1>3

\* An assignment that runs has its variable to itself, whatever else happens, if no
\* command returns a result into it meanwhile: CommandImpl::returnValue() writes the
\* variable without asking who has reserved it, so only the plan can see to that.
THEOREM AssignmentsAreAtomic == Spec /\ ResultsComeApart => AssignmentIsAtomic
<1>1. Init => AssignmentsAreSound
  BY DEF Init, AssignmentsAreSound, AssignmentIsSound, ToSet
<1>2. TypeOK /\ QueuesAreSound /\ EffectsAreSound /\ AssignmentsAreSound /\ [Next]_vars
        /\ [NoResultMeanwhile]_vars => AssignmentsAreSound'
  BY AssignmentsStaySound
<1>3. ASSUME TypeOK, AssignmentsAreSound, Next, NEW n \in Node, Type[n] = "Assignment",
             state[n] \in Running, state'[n] \notin Running
      PROVE  value[Dest[n]] = IF state[n] = "EXECUTING" THEN Rhs[n] ELSE saved[Dest[n]]
  <2>1. PICK m \in Node : TransitionNode(m)
    <3>1. state' # state
      BY <1>3
    <3>2. \A m \in Node : AcquireResources(m) \/ FailToAcquire(m) => UNCHANGED state
      BY DEF AcquireResources, FailToAcquire, condVars
    <3> QED  BY <1>3, <3>1, <3>2, OtherStepsStutter
  <2>2. /\ stateChangeQueue # <<>> /\ m = Head(stateChangeQueue)
        /\ state' = [state EXCEPT ![m] = next[m].state]
    BY <2>1 DEF TransitionNode
  <2>3. n = m
    BY <1>3, <2>2 DEF TypeOK
  <2>4. n \in ToSet(stateChangeQueue)
    BY <1>3, <2>2, <2>3, TailFacts DEF TypeOK
  <2> QED  BY <1>3, <2>4 DEF AssignmentsAreSound, AssignmentIsSound, Running
<1>4. TypeOK /\ AssignmentsAreSound /\ [Next]_vars =>
        [\A n \in Node :
           Type[n] = "Assignment" /\ state[n] \in Running /\ state'[n] \notin Running =>
             value[Dest[n]] = IF state[n] = "EXECUTING" THEN Rhs[n] ELSE saved[Dest[n]]]_vars
  BY <1>3
<1>5. ResultsComeApart => [][NoResultMeanwhile]_vars
  BY PTL DEF ResultsComeApart, NoResultMeanwhile
<1> QED
  BY <1>1, <1>2, <1>4, <1>5, TypeCorrect, SoundQueuesAlways, EffectsAlways, PTL
     DEF Spec, AssignmentIsAtomic

-----------------------------------------------------------------------------
(* Priorities.  A node whose mutexes or variable somebody holds waits; the *)
(* others try, in the order of the pending queue, those of one priority    *)
(* after those of a better one have all had their turn.                    *)

Blocked(n) == \E r \in Resources(n) : holder[r] # None

\* Of a node on the pending queue that will not try before a resource is released.
Awaiting == {"PENDING", "PENDING_CHECK"}

InPriorityOrder ==
  \A m, n \in Node : Precedes(pendingQueue, m, n) => Priority[m] <= Priority[n]

\* A node that does not try need not, and is told when it should.
WaitersAreBlocked ==
  \A n \in ToSet(pendingQueue) : queueStatus[n] \in Awaiting =>
    Blocked(n) /\ \A r \in Resources(n) : n \in waiters[r]

\* Those the walk has passed try, or are blocked; those it gathers are of one
\* priority, and while they try those of a better one are blocked.
PassedAreBlocked ==
  /\ phase = "gather" => \A n \in ToSet(priorityNodes) : Priority[n] = Priority[cursor]
  /\ phase \in {"gather", "acquire"} =>
       \A m \in Node : Precedes(pendingQueue, m, cursor) =>
         m \in ToSet(priorityNodes) \/ Blocked(m)
  /\ phase = "acquire" =>
       \A n \in ToSet(priorityNodes), m \in ToSet(pendingQueue) :
         Priority[m] < Priority[n] => Blocked(m)

PrioritiesAreSound == InPriorityOrder /\ WaitersAreBlocked /\ PassedAreBlocked

LEMMA BetterIsAhead ==
  ASSUME TypeOK, InPriorityOrder, NEW m \in ToSet(pendingQueue), NEW n \in ToSet(pendingQueue),
         Priority[m] < Priority[n]
  PROVE  Precedes(pendingQueue, m, n)
<1>1. pendingQueue \in Seq(Node) /\ m \in Node /\ n \in Node
  BY ElementFacts DEF TypeOK
<1>2. Priority[m] \in Nat /\ Priority[n] \in Nat
  BY <1>1, PlanAssumption
<1>3. PICK i, j \in DOMAIN pendingQueue : pendingQueue[i] = m /\ pendingQueue[j] = n
  BY DEF ToSet
<1>4. i \in Nat /\ j \in Nat
  BY <1>1
<1>5. CASE i < j
  BY <1>3, <1>5 DEF Precedes
<1>6. CASE j < i
  <2>1. Precedes(pendingQueue, n, m)
    BY <1>3, <1>6 DEF Precedes
  <2> QED  BY <2>1, <1>1, <1>2 DEF InPriorityOrder
<1>7. CASE i = j
  BY <1>2, <1>3, <1>7
<1> QED  BY <1>4, <1>5, <1>6, <1>7

LEMMA WithoutOrder ==
  ASSUME NEW q \in Seq(Node), NEW n \in ToSet(q), NEW a, NEW b, Precedes(Without(q, n), a, b)
  PROVE  Precedes(q, a, b)
<1> DEFINE i == CHOOSE j \in DOMAIN q : q[j] = n
<1>1. i \in DOMAIN q
  BY DEF ToSet
<1>2. Without(q, n) = RemoveAt(q, i)
  BY DEF Without
<1> HIDE DEF i
<1> QED  BY <1>1, <1>2, RemoveOrder

\* A resource that is not released keeps whoever waits for it blocked.
LEMMA StillBlocked ==
  ASSUME \A r \in Resource : holder[r] # None => holder'[r] # None
  PROVE  \A m \in Node : Blocked(m) => Blocked(m)'
BY ResourcesAreResources DEF Blocked

\* Where the walk stands, every node of better priority is blocked.
LEMMA BetterAreBlocked ==
  ASSUME TypeOK, QueuesAreSound, PrioritiesAreSound, phase = "gather",
         NEW m \in ToSet(pendingQueue), Priority[m] < Priority[cursor]
  PROVE  Blocked(m)
<1>1. cursor \in ToSet(pendingQueue)
  BY WalkFacts
<1>2. m \in Node /\ cursor \in Node
  BY <1>1, ElementFacts DEF TypeOK
<1>3. Precedes(pendingQueue, m, cursor)
  BY <1>1, BetterIsAhead DEF PrioritiesAreSound
<1>4. m \in ToSet(priorityNodes) \/ Blocked(m)
  BY <1>2, <1>3 DEF PrioritiesAreSound, PassedAreBlocked
<1>5. m \in ToSet(priorityNodes) => Priority[m] = Priority[cursor]
  BY DEF PrioritiesAreSound, PassedAreBlocked
<1> QED  BY <1>2, <1>4, <1>5, PlanAssumption

\* A new node joins the pending queue behind those of its priority, and will try.
LEMMA CheckCandidateInOrder ==
  ASSUME TypeOK, QueuesAreSound, FinishedAreSound, PrioritiesAreSound, NEW n \in Node,
         CheckCandidate(n)
  PROVE  PrioritiesAreSound'
<1>1. /\ phase = "check" /\ phase' = "check" /\ UNCHANGED <<holder, waiters>>
      /\ n = Head(candidateQueue) /\ candidateQueue # <<>>
  BY DEF CheckCandidate, resourceVars
<1>2. pendingQueue \in Seq(Node) /\ DOMAIN pendingQueue = 1..Len(pendingQueue)
      /\ Len(pendingQueue) \in Nat /\ \A j \in DOMAIN pendingQueue : pendingQueue[j] \in Node
  BY DEF TypeOK
<1>3. n \notin ToSet(pendingQueue)
  <2>1. n \in ToSet(candidateQueue)
    BY <1>1, TailFacts DEF TypeOK
  <2> QED  BY <2>1 DEF QueuesAreSound, CandidatesAreSound, PendingIsSound, IsPending,
                       PendingStatus
<1>4. OthersStay(n)
  BY CheckCandidateRefusesNone
<1>5. CASE UNCHANGED pendingQueue
  <2>1. InPriorityOrder'
    BY <1>5 DEF PrioritiesAreSound, InPriorityOrder
  <2>2. WaitersAreBlocked'
    <3>1. \A m \in ToSet(pendingQueue) : queueStatus'[m] = queueStatus[m]
      BY <1>2, <1>3, <1>4, ElementFacts DEF OthersStay
    <3> QED  BY <1>1, <1>5, <3>1 DEF PrioritiesAreSound, WaitersAreBlocked, Blocked
  <2>3. PassedAreBlocked'
    BY <1>1 DEF PassedAreBlocked
  <2> QED  BY <2>1, <2>2, <2>3 DEF PrioritiesAreSound
<1>6. ASSUME NEW i \in Places(pendingQueue, n), pendingQueue' = InsertAt(pendingQueue, i, n),
             queueStatus'[n] = "PENDING_TRY"
      PROVE  PrioritiesAreSound'
  <2>1. /\ i \in 1..Len(pendingQueue) + 1
        /\ \A j \in 1..i - 1 : Priority[pendingQueue[j]] <= Priority[n]
        /\ i <= Len(pendingQueue) => Priority[pendingQueue[i]] > Priority[n]
    BY <1>6 DEF Places
  <2>2. ToSet(pendingQueue') = ToSet(pendingQueue) \cup {n}
    BY <1>2, <1>6, <2>1, InsertFacts
  <2>3. ASSUME NEW a \in Node, NEW b \in Node, Precedes(pendingQueue', a, b)
        PROVE  Priority[a] <= Priority[b]
    <3>0. Priority[a] \in Nat /\ Priority[b] \in Nat
      BY PlanAssumption
    <3>1. \/ Precedes(pendingQueue, a, b)
          \/ a = n /\ \E k \in i..Len(pendingQueue) : pendingQueue[k] = b
          \/ b = n /\ \E k \in 1..i - 1 : pendingQueue[k] = a
      BY <1>2, <1>6, <2>1, <2>3, InsertOrder
    <3>2. CASE Precedes(pendingQueue, a, b)
      BY <3>2 DEF PrioritiesAreSound, InPriorityOrder
    <3>3. ASSUME a = n, NEW k \in i..Len(pendingQueue), pendingQueue[k] = b
          PROVE  Priority[a] <= Priority[b]
      <4>1. i \in DOMAIN pendingQueue /\ k \in DOMAIN pendingQueue /\ i <= k
            /\ i <= Len(pendingQueue)
        BY <1>2, <2>1, <3>3
      <4>2. Priority[pendingQueue[i]] > Priority[n] /\ pendingQueue[i] \in Node
            /\ Priority[pendingQueue[i]] \in Nat
        BY <1>2, <2>1, <4>1, PlanAssumption
      <4>3. CASE k = i
        BY <3>0, <3>3, <4>2, <4>3
      <4>4. CASE i < k
        <5>1. Precedes(pendingQueue, pendingQueue[i], b)
          BY <3>3, <4>1, <4>4 DEF Precedes
        <5>2. Priority[pendingQueue[i]] <= Priority[b]
          BY <4>2, <5>1 DEF PrioritiesAreSound, InPriorityOrder
        <5> QED  BY <3>0, <3>3, <4>2, <5>2
      <4>5. k = i \/ i < k
        BY <1>2, <2>1, <3>3
      <4> QED  BY <4>3, <4>4, <4>5
    <3>4. ASSUME b = n, NEW k \in 1..i - 1, pendingQueue[k] = a
          PROVE  Priority[a] <= Priority[b]
      BY <2>1, <3>4
    <3> QED  BY <3>1, <3>2, <3>3, <3>4
  <2>4. InPriorityOrder'
    BY <2>3 DEF InPriorityOrder
  <2>5. WaitersAreBlocked'
    <3>1. \A m \in ToSet(pendingQueue) : m # n /\ queueStatus'[m] = queueStatus[m]
      BY <1>2, <1>3, <1>4, ElementFacts DEF OthersStay
    <3>2. queueStatus'[n] \notin Awaiting
      BY <1>6 DEF Awaiting
    <3> QED  BY <1>1, <2>2, <3>1, <3>2 DEF PrioritiesAreSound, WaitersAreBlocked, Blocked
  <2>6. PassedAreBlocked'
    BY <1>1 DEF PassedAreBlocked
  <2> QED  BY <2>4, <2>5, <2>6 DEF PrioritiesAreSound
<1>7. ASSUME ~UNCHANGED pendingQueue
      PROVE  /\ \E i \in Places(pendingQueue, n) : pendingQueue' = InsertAt(pendingQueue, i, n)
             /\ queueStatus'[n] = "PENDING_TRY"
  <2> DEFINE popped == [queues EXCEPT !.status[n] = "NONE", !.candidates = Tail(@)]
             q == Checked(popped, n)
  <2>1. QueuesBecome(WithStatus(q, n, "PENDING_TRY"))
        /\ \E i \in Places(pendingQueue, n) : pendingQueue' = InsertAt(pendingQueue, i, n)
    BY <1>7 DEF CheckCandidate
  <2>2. q.status = [queueStatus EXCEPT ![n] = "NONE"]
    <3>1. popped.status = [queueStatus EXCEPT ![n] = "NONE"]
      BY DEF queues
    <3> HIDE DEF popped
    <3> QED  BY <3>1, CheckedKeeps
  <2> HIDE DEF q
  <2>3. q.status \in [Node -> QueueStatus]
    BY <2>2, StatusNow, OtherStatuses
  <2>4. Differ(q.status, WithStatus(q, n, "PENDING_TRY").status, n, "PENDING_TRY")
    BY <2>3, WithStatusIs, OtherStatuses
  <2> QED  BY <2>1, <2>4 DEF QueuesBecome, Differ
<1> QED  BY <1>5, <1>6, <1>7

\* The walk starts at the head of the queue, and goes on behind the last group.
LEMMA WalkInOrder ==
  ASSUME TypeOK, QueuesAreSound, PrioritiesAreSound, AllChecked \/ GroupDone
  PROVE  PrioritiesAreSound'
<1> USE DEF queueVars, resourceVars, resolveVars
<1>1. UNCHANGED <<queueStatus, holder, waiters, pendingQueue, priorityNodes>>
  BY DEF AllChecked, GroupDone
<1>2. InPriorityOrder' /\ WaitersAreBlocked'
  BY <1>1 DEF PrioritiesAreSound, InPriorityOrder, WaitersAreBlocked, Blocked
<1>3. priorityNodes = <<>> /\ phase' # "acquire"
  BY DEF AllChecked, GroupDone, AfterCheck, QueuesAreSound, WalkIsSound
<1>4. ToSet(priorityNodes') = {}
  BY <1>1, <1>3 DEF ToSet
<1>5. ASSUME phase' = "gather", NEW m \in Node, Precedes(pendingQueue', m, cursor')
      PROVE  Blocked(m)'
  <2>1. CASE AllChecked
    <3>1. pendingQueue # <<>> /\ cursor' = Head(pendingQueue)
      BY <1>5, <2>1 DEF AllChecked, AfterCheck
    <3>2. /\ DOMAIN pendingQueue = 1..Len(pendingQueue) /\ Len(pendingQueue) \in Nat
          /\ \A i, j \in DOMAIN pendingQueue : pendingQueue[i] = pendingQueue[j] => i = j
          /\ 1 \in DOMAIN pendingQueue /\ cursor' = pendingQueue[1]
      BY <3>1 DEF TypeOK, QueuesAreSound, PendingIsSound, IsInjective
    <3>3. PICK i, j \in DOMAIN pendingQueue : i < j /\ pendingQueue[j] = cursor'
      BY <1>1, <1>5 DEF Precedes
    <3> QED  BY <3>2, <3>3
  <2>2. CASE GroupDone
    <3>1. phase = "acquire" /\ UNCHANGED cursor
      BY <2>2 DEF GroupDone
    <3>2. m \in ToSet(priorityNodes) \/ Blocked(m)
      BY <1>1, <1>5, <3>1 DEF PrioritiesAreSound, PassedAreBlocked
    <3> QED  BY <1>1, <1>4, <3>2 DEF Blocked
  <2> QED  BY <2>1, <2>2
<1>6. PassedAreBlocked'
  BY <1>3, <1>4, <1>5 DEF PassedAreBlocked
<1> QED  BY <1>2, <1>6 DEF PrioritiesAreSound

\* The walk passes a node, which tries or is blocked.
LEMMA KeepPendingInOrder ==
  ASSUME TypeOK, QueuesAreSound, FinishedAreSound, PrioritiesAreSound, NEW n \in Node,
         KeepPending(n)
  PROVE  PrioritiesAreSound'
<1>1. /\ phase = "gather" /\ n = cursor
      /\ UNCHANGED <<holder, waiters, pendingQueue>>
  BY DEF KeepPending, resourceVars
<1>2. n \in ToSet(pendingQueue) /\ priorityNodes \in Seq(Node)
  BY <1>1, WalkFacts DEF TypeOK
<1>3. queueStatus[n] \in PendingStatus
  BY <1>2 DEF QueuesAreSound, PendingIsSound, IsPending
<1>4. OthersStay(n)
  BY KeepPendingRefusesNone
<1>5. \/ /\ ToSet(priorityNodes') = ToSet(priorityNodes) \cup {n}
         /\ queueStatus'[n] \notin Awaiting
      \/ /\ priorityNodes' = priorityNodes
         /\ queueStatus[n] \in Awaiting
  <2>1. CASE queueStatus[n] \in {"PENDING_TRY", "PENDING_TRY_CHECK"}
    <3>1. priorityNodes' = Append(priorityNodes, n) /\ UNCHANGED queueStatus
      BY <2>1 DEF KeepPending
    <3>2. ToSet(Append(priorityNodes, n)) = ToSet(priorityNodes) \cup {n}
      BY <1>2, AppendFacts
    <3> QED  BY <2>1, <3>1, <3>2 DEF Awaiting
  <2>2. CASE queueStatus[n] \notin {"PENDING_TRY", "PENDING_TRY_CHECK"}
    BY <1>3, <2>2 DEF KeepPending, PendingStatus, Awaiting
  <2> QED  BY <2>1, <2>2
<1>6. InPriorityOrder'
  BY <1>1 DEF PrioritiesAreSound, InPriorityOrder
<1>7. WaitersAreBlocked'
  <2>1. ASSUME NEW m \in ToSet(pendingQueue), queueStatus'[m] \in Awaiting
        PROVE  queueStatus[m] \in Awaiting
    <3>1. m \in Node
      BY ElementFacts DEF TypeOK
    <3> QED  BY <1>4, <1>5, <2>1, <3>1 DEF OthersStay
  <2> QED  BY <1>1, <2>1 DEF PrioritiesAreSound, WaitersAreBlocked, Blocked
<1>8. n \in ToSet(priorityNodes') \/ Blocked(n)
  BY <1>2, <1>5 DEF PrioritiesAreSound, WaitersAreBlocked
<1>9. ToSet(priorityNodes) \subseteq ToSet(priorityNodes')
      /\ \A m \in ToSet(priorityNodes') : Priority[m] = Priority[n]
  BY <1>1, <1>5 DEF PrioritiesAreSound, PassedAreBlocked
<1>10. PICK i \in DOMAIN pendingQueue : pendingQueue[i] = n /\ Advance(NextInQueue(i))
  BY DEF KeepPending
<1>11. ASSUME NEW m \in Node, Precedes(pendingQueue, m, cursor')
       PROVE  m \in ToSet(priorityNodes') \/ Blocked(m)
  <2>1. /\ DOMAIN pendingQueue = 1..Len(pendingQueue) /\ Len(pendingQueue) \in Nat
        /\ \A j, k \in DOMAIN pendingQueue : pendingQueue[j] = pendingQueue[k] => j = k
        /\ \A j \in DOMAIN pendingQueue : pendingQueue[j] # None
    <3>1. pendingQueue \in Seq(Node) /\ IsInjective(pendingQueue) /\ None \notin Node
      BY PlanAssumption DEF TypeOK, QueuesAreSound, PendingIsSound
    <3> QED  BY <3>1 DEF IsInjective
  <2>2. PICK j, k \in DOMAIN pendingQueue :
          j < k /\ pendingQueue[j] = m /\ pendingQueue[k] = cursor'
    BY <1>11 DEF Precedes
  <2>3. i < Len(pendingQueue) /\ cursor' = pendingQueue[i + 1] /\ k = i + 1
    BY <1>10, <2>1, <2>2 DEF Advance, NextInQueue
  <2>4. CASE j = i
    BY <1>8, <1>10, <2>2, <2>4
  <2>5. CASE j < i
    <3>1. Precedes(pendingQueue, m, cursor)
      BY <1>1, <1>10, <2>2, <2>5 DEF Precedes
    <3> QED  BY <1>1, <1>9, <3>1 DEF PrioritiesAreSound, PassedAreBlocked
  <2> QED  BY <2>1, <2>2, <2>3, <2>4, <2>5
<1>12. \A m \in ToSet(pendingQueue) : Priority[m] < Priority[n] => Blocked(m)
  BY <1>1, BetterAreBlocked
<1>13. phase' = "gather" => Priority[cursor'] = Priority[n]
  BY <1>1, <1>10 DEF Advance
<1>14. PassedAreBlocked'
  <2>1. \A m \in Node : Blocked(m)' = Blocked(m)
    BY <1>1 DEF Blocked
  <2>2. ToSet(pendingQueue) \subseteq Node
    BY ElementFacts DEF TypeOK
  <2> QED  BY <1>1, <1>9, <1>11, <1>12, <1>13, <2>1, <2>2 DEF PassedAreBlocked
<1> QED  BY <1>6, <1>7, <1>14 DEF PrioritiesAreSound

\* The walk ends at a node that leaves the queue: who has been gathered tries.
LEMMA DropPendingInOrder ==
  ASSUME TypeOK, QueuesAreSound, FinishedAreSound, PrioritiesAreSound, NEW n \in Node,
         DropPending(n)
  PROVE  PrioritiesAreSound'
<1>1. /\ phase = "gather" /\ n = cursor /\ phase' = "acquire" /\ cursor' = None
      /\ pendingQueue' = Without(pendingQueue, n)
      /\ waiters' = [r \in Resource |-> waiters[r] \ (IF r \in Resources(n) THEN {n} ELSE {})]
      /\ UNCHANGED <<holder, priorityNodes>>
  BY DEF DropPending, Advance
<1>2. n \in ToSet(pendingQueue) /\ pendingQueue \in Seq(Node)
  BY <1>1, WalkFacts DEF TypeOK
<1>3. ToSet(pendingQueue') = ToSet(pendingQueue) \ {n} /\ ToSet(pendingQueue') \subseteq Node
  BY <1>1, <1>2, WithoutFacts, ElementFacts DEF QueuesAreSound, PendingIsSound
<1>4. OthersStay(n)
  BY DropPendingRefusesNone
<1>5. \A a, b \in Node : Precedes(pendingQueue', a, b) => Precedes(pendingQueue, a, b)
  BY <1>1, <1>2, WithoutOrder
<1>6. InPriorityOrder'
  BY <1>5 DEF PrioritiesAreSound, InPriorityOrder
<1>7. WaitersAreBlocked'
  <2>1. \A m \in ToSet(pendingQueue') : queueStatus'[m] = queueStatus[m]
    BY <1>3, <1>4 DEF OthersStay
  <2>2. \A m \in ToSet(pendingQueue'), r \in Resource : m \in waiters[r] => m \in waiters'[r]
    BY <1>1, <1>3
  <2> QED  BY <1>1, <1>3, <2>1, <2>2, ResourcesAreResources
              DEF PrioritiesAreSound, WaitersAreBlocked, Blocked
<1>8. ~\E m \in Node : Precedes(pendingQueue', m, cursor')
  <2>1. None \notin ToSet(pendingQueue')
    BY <1>3, PlanAssumption
  <2> QED  BY <1>1, <2>1 DEF Precedes, ToSet
<1>9. \A m \in ToSet(priorityNodes) : Priority[m] = Priority[n]
  BY <1>1 DEF PrioritiesAreSound, PassedAreBlocked
<1>10. \A m \in ToSet(pendingQueue) : Priority[m] < Priority[n] => Blocked(m)
  BY <1>1, BetterAreBlocked
<1>11. PassedAreBlocked'
  BY <1>1, <1>3, <1>8, <1>9, <1>10 DEF PassedAreBlocked, Blocked
<1> QED  BY <1>6, <1>7, <1>11 DEF PrioritiesAreSound

\* A node that gets its resources leaves the queue, and blocks others.
LEMMA AcquireResourcesInOrder ==
  ASSUME TypeOK, QueuesAreSound, FinishedAreSound, PrioritiesAreSound, NEW n \in Node,
         AcquireResources(n)
  PROVE  PrioritiesAreSound'
<1>1. /\ phase = "acquire" /\ phase' = "acquire" /\ priorityNodes # <<>>
      /\ n = Head(priorityNodes) /\ priorityNodes' = Tail(priorityNodes)
      /\ pendingQueue' = Without(pendingQueue, n)
      /\ holder' = [r \in Resource |-> IF r \in Resources(n) THEN n ELSE holder[r]]
      /\ waiters' = [r \in Resource |-> waiters[r] \ (IF r \in Resources(n) THEN {n} ELSE {})]
      /\ UNCHANGED cursor
  BY DEF AcquireResources
<1>2. n \in ToSet(pendingQueue) /\ pendingQueue \in Seq(Node)
      /\ ToSet(priorityNodes') = ToSet(priorityNodes) \ {n}
  BY <1>1, FirstToTry DEF TypeOK
<1>3. ToSet(pendingQueue') = ToSet(pendingQueue) \ {n} /\ ToSet(pendingQueue') \subseteq Node
  BY <1>1, <1>2, WithoutFacts, ElementFacts DEF QueuesAreSound, PendingIsSound
<1>4. OthersStay(n)
  BY AcquireResourcesRefusesNone
<1>5. \A a, b : Precedes(pendingQueue', a, b) => Precedes(pendingQueue, a, b)
  BY <1>1, <1>2, WithoutOrder
<1>6. \A m \in Node : Blocked(m) => Blocked(m)'
  <2>1. \A r \in Resource : holder[r] # None => holder'[r] # None
    BY <1>1, PlanAssumption
  <2> QED  BY <2>1, StillBlocked
<1>7. InPriorityOrder'
  BY <1>5 DEF PrioritiesAreSound, InPriorityOrder
<1>8. WaitersAreBlocked'
  <2>1. \A m \in ToSet(pendingQueue') : queueStatus'[m] = queueStatus[m]
    BY <1>3, <1>4 DEF OthersStay
  <2>2. \A m \in ToSet(pendingQueue'), r \in Resource : m \in waiters[r] => m \in waiters'[r]
    BY <1>1, <1>3
  <2> QED  BY <1>3, <1>6, <2>1, <2>2, ResourcesAreResources
              DEF PrioritiesAreSound, WaitersAreBlocked
<1>9. ASSUME NEW m \in Node, Precedes(pendingQueue', m, cursor')
      PROVE  m \in ToSet(priorityNodes') \/ Blocked(m)'
  <2>1. m \in ToSet(pendingQueue')
    BY <1>9 DEF Precedes, ToSet
  <2>2. Precedes(pendingQueue, m, cursor)
    BY <1>1, <1>5, <1>9
  <2>3. m \in ToSet(priorityNodes) \/ Blocked(m)
    BY <1>1, <2>2 DEF PrioritiesAreSound, PassedAreBlocked
  <2> QED  BY <1>2, <1>3, <1>6, <2>1, <2>3
<1>10. PassedAreBlocked'
  BY <1>1, <1>2, <1>3, <1>6, <1>9 DEF PrioritiesAreSound, PassedAreBlocked
<1> QED  BY <1>7, <1>8, <1>10 DEF PrioritiesAreSound

\* Mutexes and variables are held by nodes that do not wait for any.
PendingHoldNothing == \A n \in ToSet(pendingQueue), r \in Resource : holder[r] # n

\* A node that does not get its resources gives back what it took in this attempt.
LEMMA FailToAcquireInOrder ==
  ASSUME TypeOK, QueuesAreSound, PrioritiesAreSound, PendingHoldNothing, NEW n \in Node,
         FailToAcquire(n)
  PROVE  PrioritiesAreSound'
<1> DEFINE released == Taken(n) \cup {m \in Mutexes(n) : holder[m] = n}
           freed == NotifyAvailable(queues, released)
           q == WithStatus(freed, n, "PENDING")
<1>1. /\ phase = "acquire" /\ phase' = "acquire" /\ priorityNodes # <<>>
      /\ n = Head(priorityNodes) /\ priorityNodes' = Tail(priorityNodes)
      /\ Blocked(n)
      /\ holder' = [r \in Resource |-> IF r \in released THEN None ELSE holder[r]]
      /\ waiters' = [r \in Resource |-> waiters[r] \cup (IF r \in Resources(n) THEN {n} ELSE {})]
      /\ queueStatus' = q.status
      /\ UNCHANGED <<cursor, pendingQueue>>
  BY DEF FailToAcquire, Blocked, QueuesBecome, WithFault
<1>2. n \in ToSet(pendingQueue) /\ ToSet(pendingQueue) \subseteq Node
      /\ ToSet(priorityNodes') = ToSet(priorityNodes) \ {n}
  BY <1>1, FirstToTry, ElementFacts DEF TypeOK
<1>3. \A r \in Resource : holder'[r] = holder[r]
  <2>1. \A r \in Taken(n) : holder[r] = None
    <3>1. \A k \in DOMAIN Wanted(n) : k \in 1..k
      BY PlanAssumption DEF Wanted
    <3> QED  BY <3>1 DEF Taken
  <2>2. \A r \in Mutexes(n) : r \in Resource /\ holder[r] # n
    BY <1>2, ResourcesAreResources DEF PendingHoldNothing, Resource
  <2> QED  BY <1>1, <2>1, <2>2
<1>4. \A m \in Node : Blocked(m)' <=> Blocked(m)
  BY <1>3, ResourcesAreResources DEF Blocked
<1>5. \A m \in Node \ {n} : queueStatus'[m] \in Awaiting => queueStatus[m] \in Awaiting
  <2>1. freed.status \in [Node -> QueueStatus]
    BY QueuesTyped, NotifyAvailableTyped DEF TypedQueues
  <2>2. Differ(freed.status, q.status, n, "PENDING")
    BY <2>1, WithStatusIs, OtherStatuses
  <2>3. \A m \in Node : freed.status[m] \in {queueStatus[m], Available(queueStatus[m])}
    BY DEF NotifyAvailable, queues
  <2> HIDE DEF q, freed
  <2> QED  BY <1>1, <2>2, <2>3 DEF Differ, Available, Awaiting
<1> HIDE DEF q
<1>6. InPriorityOrder'
  BY <1>1 DEF PrioritiesAreSound, InPriorityOrder
<1>7. WaitersAreBlocked'
  <2>1. ASSUME NEW m \in ToSet(pendingQueue), queueStatus'[m] \in Awaiting
        PROVE  Blocked(m) /\ \A r \in Resources(m) : m \in waiters'[r]
    <3>1. CASE m = n
      BY <1>1, <1>2, <3>1, ResourcesAreResources
    <3>2. CASE m # n
      <4>1. Blocked(m) /\ \A r \in Resources(m) : m \in waiters[r]
        BY <1>2, <1>5, <2>1, <3>2 DEF PrioritiesAreSound, WaitersAreBlocked
      <4> QED  BY <1>1, <1>2, <4>1, ResourcesAreResources
    <3> QED  BY <3>1, <3>2
  <2> QED  BY <1>1, <1>2, <1>4, <2>1 DEF WaitersAreBlocked
<1>8. PassedAreBlocked'
  BY <1>1, <1>2, <1>4 DEF PrioritiesAreSound, PassedAreBlocked
<1> QED  BY <1>6, <1>7, <1>8 DEF PrioritiesAreSound

\* Being told of a change does not make a node wait, and being told of a release
\* makes it try.
LEMMA NotifyAwaiting ==
  ASSUME NEW q, NEW S \in SUBSET Node, NEW m \in Node, Notify(q, S).status[m] \in Awaiting
  PROVE  q.status[m] \in Awaiting
<1>1. Notify(q, S).status[m] \in {q.status[m], Notified(q.status[m])}
  BY DEF Notify
<1> QED  BY <1>1 DEF Notified, Awaiting

LEMMA NotifyAvailableAwaiting ==
  ASSUME NEW q, NEW R, NEW m \in Node, NotifyAvailable(q, R).status[m] \in Awaiting
  PROVE  q.status[m] \in Awaiting /\ \A r \in R : m \notin waiters[r]
<1>1. NotifyAvailable(q, R).status[m] =
        IF \E r \in R : m \in waiters[r] THEN Available(q.status[m]) ELSE q.status[m]
  BY DEF NotifyAvailable
<1> QED  BY <1>1 DEF Available, Awaiting

\* So nobody who awaits a resource that n releases is left waiting.
LEMMA MovedAwaiting ==
  ASSUME TypeOK, NEW n \in Node, NEW m \in Node \ {n}, Moved(n).status[m] \in Awaiting
  PROVE  queueStatus[m] \in Awaiting /\ \A r \in ReleasedByHolder(n) : m \notin waiters[r]
<1> DEFINE popped == WithStatus(queues, n, "NONE")
           rechecked == IF queueStatus[n] = "TRANSITION_CHECK" THEN Notify(popped, {n})
                        ELSE popped
           freed == NotifyAvailable(rechecked, ReleasedByHolder(n))
           ready == Notify(freed, Initialized(n))
           told == IF IsFinish(n) THEN Finish(ready, n) ELSE Notify(ready, {n})
           Was(q, p) == q.status[m] \in Awaiting => p.status[m] \in Awaiting
<1>1. TypedQueues(popped) /\ Was(popped, queues)
  <2>1. TypedQueues(popped)
    BY QueuesTyped, WithStatusTyped, OtherStatuses
  <2>2. Differ(queueStatus, popped.status, n, "NONE") /\ queues.status = queueStatus
    BY StatusNow, WithStatusIs, OtherStatuses
  <2> HIDE DEF popped
  <2> QED  BY <2>1, <2>2 DEF Differ
<1>2. TypedQueues(rechecked) /\ Was(rechecked, popped)
  <2>1. TypedQueues(Notify(popped, {n})) /\ Was(Notify(popped, {n}), popped)
    BY <1>1, NotifyTyped, NotifyAwaiting
  <2> HIDE DEF popped
  <2> QED  BY <1>1, <2>1
<1>3. /\ TypedQueues(freed) /\ Was(freed, rechecked)
      /\ freed.status[m] \in Awaiting => \A r \in ReleasedByHolder(n) : m \notin waiters[r]
  <2> HIDE DEF rechecked
  <2> QED  BY <1>2, NotifyAvailableTyped, NotifyAvailableAwaiting
<1>4. TypedQueues(ready) /\ Was(ready, freed)
  <2>1. Initialized(n) \in SUBSET Node
    BY DEF Initialized, Listening, Listeners
  <2> HIDE DEF freed
  <2> QED  BY <1>3, <2>1, NotifyTyped, NotifyAwaiting
<1>5. Was(told, ready)
  <2> HIDE DEF ready
  <2>1. Was(Notify(ready, {n}), ready)
    BY NotifyAwaiting
  <2>2. Finish(ready, n).status[m] = ready.status[m]
    <3>1. ready.status \in [Node -> QueueStatus]
      BY <1>4 DEF TypedQueues
    <3>2. Finish(ready, n).status \in {ready.status, [ready.status EXCEPT ![n] = "DELETE"]}
      BY DEF Finish, WithStatus, WithFault
    <3> QED  BY <3>1, <3>2
  <2> QED  BY <2>1, <2>2
<1>6. Was(Moved(n), told)
  <2>1. ToldChildren(n) \in SUBSET Node
    BY DEF ToldChildren, Children
  <2>2. Was(Notify(told, ToldChildren(n)), told)
    <3> HIDE DEF told
    <3> QED  BY <2>1, NotifyAwaiting
  <2>3. Moved(n) = IF Type[n] = "List" THEN Notify(told, ToldChildren(n)) ELSE told
    BY DEF Moved
  <2> HIDE DEF told
  <2> QED  BY <2>2, <2>3
<1>7. queues.status = queueStatus
  BY StatusNow
<1> HIDE DEF popped, rechecked, freed, ready, told
<1> QED  BY <1>1, <1>2, <1>3, <1>4, <1>5, <1>6, <1>7

\* A node that ends tells who waits for what it held.
LEMMA TransitionNodeInOrder ==
  ASSUME TypeOK, QueuesAreSound, PrioritiesAreSound, NEW n \in Node, TransitionNode(n)
  PROVE  PrioritiesAreSound'
<1>1. /\ phase = "transition" /\ phase' = "transition"
      /\ holder' = [r \in Resource |-> IF r \in ReleasedByHolder(n) THEN None ELSE holder[r]]
      /\ UNCHANGED <<waiters, pendingQueue>>
  BY DEF TransitionNode
<1>2. n \notin ToSet(pendingQueue) /\ ToSet(pendingQueue) \subseteq Node
  <2>1. n \in ToSet(stateChangeQueue)
    BY TailFacts DEF TransitionNode, TypeOK
  <2> QED  BY <2>1, ElementFacts DEF QueuesAreSound, PendingIsSound, IsPending, TypeOK
<1>3. InPriorityOrder' /\ PassedAreBlocked'
  BY <1>1 DEF PrioritiesAreSound, InPriorityOrder, PassedAreBlocked
<1>4. ASSUME NEW m \in ToSet(pendingQueue), queueStatus'[m] \in Awaiting
      PROVE  Blocked(m)' /\ \A r \in Resources(m) : m \in waiters[r]
  <2>1. PICK told \in SUBSET Node : QueuesBecome(Notify(Moved(n), told))
    BY DEF TransitionNode, Listening, Listeners
  <2>2. m \in Node \ {n}
    BY <1>2
  <2>3. Notify(Moved(n), told).status[m] \in Awaiting
    BY <1>4, <2>1 DEF QueuesBecome
  <2>4. Moved(n).status[m] \in Awaiting
    BY <2>2, <2>3, NotifyAwaiting
  <2>5. queueStatus[m] \in Awaiting /\ \A r \in ReleasedByHolder(n) : m \notin waiters[r]
    BY <2>2, <2>4, MovedAwaiting
  <2>6. Blocked(m) /\ \A r \in Resources(m) : m \in waiters[r]
    BY <2>5 DEF PrioritiesAreSound, WaitersAreBlocked
  <2>7. \A r \in Resources(m) : holder'[r] = holder[r]
    BY <1>1, <2>2, <2>5, <2>6, ResourcesAreResources
  <2> QED  BY <2>6, <2>7 DEF Blocked
<1>5. WaitersAreBlocked'
  BY <1>1, <1>4 DEF WaitersAreBlocked
<1> QED  BY <1>3, <1>5 DEF PrioritiesAreSound

\* The other steps leave the pending queue and the resources alone, and notify nodes.
LEMMA OtherStepsInOrder ==
  ASSUME TypeOK, PrioritiesAreSound, Next, ~AllChecked, ~GroupDone,
         ~\E n \in Node :
             \/ CheckCandidate(n) \/ KeepPending(n) \/ DropPending(n)
             \/ AcquireResources(n) \/ FailToAcquire(n) \/ TransitionNode(n)
  PROVE  PrioritiesAreSound' /\ UNCHANGED stateChangeQueue
<1> DEFINE NobodyWaits ==
             \A m \in Node : queueStatus'[m] \in Awaiting => queueStatus[m] \in Awaiting
<1> USE DEF queueVars, resourceVars, resolveVars
<1>1. \A source : Listening(source) \in SUBSET Node
  BY DEF Listening, Listeners
<1>2. ASSUME NEW S \in SUBSET Node, QueuesBecome(Notify(queues, S)) PROVE NobodyWaits
  BY <1>2, StatusNow, NotifyAwaiting DEF QueuesBecome
<1>3. ASSUME NEW n \in Node, ExecuteAssignment(n) \/ RetractAssignment(n) PROVE NobodyWaits
  <2>1. PICK S \in SUBSET Node : QueuesBecome(Notify(Notify(queues, S), {n}))
    <3>1. \E v : SetVariable(n, v)
      BY <1>3 DEF ExecuteAssignment, RetractAssignment
    <3> QED  BY <3>1, <1>1 DEF SetVariable
  <2>2. ASSUME NEW m \in Node, queueStatus'[m] \in Awaiting PROVE queueStatus[m] \in Awaiting
    <3>1. Notify(Notify(queues, S), {n}).status[m] \in Awaiting
      BY <2>1, <2>2 DEF QueuesBecome
    <3>2. Notify(queues, S).status[m] \in Awaiting
      BY <3>1, NotifyAwaiting
    <3> QED  BY <3>2, StatusNow, NotifyAwaiting
  <2> QED  BY <2>2
<1>4. ASSUME NEW n \in Node, ExecuteCommand(n) \/ \E h \in Handle : CommandHandleReturn(n, h)
      PROVE  NobodyWaits
  <2>1. CASE UNCHANGED queueVars
    BY <2>1
  <2>2. CASE \E h : SetCommandHandle(n, h)
    <3>1. \E S \in SUBSET Node : QueuesBecome(Notify(queues, S))
      BY <2>2 DEF SetCommandHandle
    <3> QED  BY <3>1, <1>2
  <2> QED  BY <1>4, <2>1, <2>2 DEF ExecuteCommand, CommandHandleReturn
<1>5. ASSUME NEW n \in Node,
             \/ AddPlan(n)
             \/ \E v \in TruthValue : CommandReturn(n, v)
             \/ \E b \in BOOLEAN : CommandAbortAcknowledge(n, b) \/ UpdateAcknowledge(n, b)
      PROVE  NobodyWaits
  <2>1. \E S \in SUBSET Node : QueuesBecome(Notify(queues, S))
    BY <1>1, <1>5 DEF AddPlan, CommandReturn, CommandAbortAcknowledge, UpdateAcknowledge
  <2> QED  BY <2>1, <1>2
<1>6. ASSUME NEW l \in Lookup, NEW v \in TruthValue, LookupReturn(l, v) PROVE NobodyWaits
  BY <1>1, <1>2, <1>6 DEF LookupReturn
<1>7. CASE World
  <2>1. UNCHANGED <<holder, waiters, pendingQueue, priorityNodes, stateChangeQueue>>
        /\ phase' = "idle"
    BY <1>7 DEF World, WorldUnchanged, AddPlan, DeleteFinishedPlans, LookupReturn,
                CommandHandleReturn, CommandReturn, CommandAbortAcknowledge, UpdateAcknowledge
  <2>2. ASSUME NEW n \in Node,
               \E h \in Handle \ {"NO_COMMAND_HANDLE"} : CommandHandleReturn(n, h)
        PROVE  NobodyWaits
    BY <1>4, <2>2
  <2>3. ASSUME DeleteFinishedPlans PROVE NobodyWaits
    <3>1. UNCHANGED queueStatus
      BY <2>3 DEF DeleteFinishedPlans
    <3> QED  BY <3>1
  <2>4. NobodyWaits
    <3> HIDE DEF NobodyWaits
    <3> QED  BY <1>5, <1>6, <1>7, <2>2, <2>3 DEF World
  <2> QED  BY <2>1, <2>4, ElementFacts
              DEF PrioritiesAreSound, InPriorityOrder, WaitersAreBlocked, PassedAreBlocked, Blocked,
                  TypeOK
<1>8. CASE Step \/ StartStep
  <2>1. /\ UNCHANGED <<holder, waiters, pendingQueue, priorityNodes, stateChangeQueue>>
        /\ phase' \in {"check", "effects", "idle"}
    BY <1>8 DEF Step, StartStep, ExecuteAssignment, RetractAssignment, ExecuteCommand,
                InvokeAbort, ExecuteUpdate, EffectsUnchanged, BatchDone, StepDone
  <2>2. ASSUME NEW n \in Node, InvokeAbort(n) \/ ExecuteUpdate(n) PROVE NobodyWaits
    BY <2>2 DEF InvokeAbort, ExecuteUpdate
  <2>3. ASSUME StartStep \/ BatchDone \/ StepDone PROVE NobodyWaits
    BY <2>3 DEF StartStep, BatchDone, StepDone
  <2>4. NobodyWaits
    <3> HIDE DEF NobodyWaits
    <3> QED  BY <1>3, <1>4, <1>8, <2>2, <2>3 DEF Step
  <2> QED  BY <2>1, <2>4, ElementFacts
              DEF PrioritiesAreSound, InPriorityOrder, WaitersAreBlocked, PassedAreBlocked, Blocked,
                  TypeOK
<1> QED  BY <1>7, <1>8 DEF Next

LEMMA PrioritiesStaySound ==
  ASSUME TypeOK, QueuesAreSound, FinishedAreSound, PrioritiesAreSound, PendingHoldNothing,
         [Next]_vars
  PROVE  PrioritiesAreSound'
<1>1. CASE UNCHANGED vars
  BY <1>1 DEF vars, queueVars, resourceVars, resolveVars, PrioritiesAreSound, InPriorityOrder,
              WaitersAreBlocked, PassedAreBlocked, Blocked
<1>2. ASSUME NEW n \in Node,
             \/ CheckCandidate(n) \/ KeepPending(n) \/ DropPending(n)
             \/ AcquireResources(n) \/ FailToAcquire(n) \/ TransitionNode(n)
      PROVE  PrioritiesAreSound'
  BY <1>2, CheckCandidateInOrder, KeepPendingInOrder, DropPendingInOrder,
     AcquireResourcesInOrder, FailToAcquireInOrder, TransitionNodeInOrder
<1>3. CASE AllChecked \/ GroupDone
  BY <1>3, WalkInOrder
<1> QED  BY <1>1, <1>2, <1>3, OtherStepsInOrder

\* When n goes from the pending queue to its execution, or is about to and then has
\* somewhere else to go, those of better priority are blocked.
LEMMA NobodyPassedOver ==
  ASSUME TypeOK, QueuesAreSound, FinishedAreSound, PrioritiesAreSound, Next,
         NEW n \in ToSet(pendingQueue), n \in ToSet(stateChangeQueue'),
         NEW m \in ToSet(pendingQueue'), Priority[m] < Priority[n]
  PROVE  Blocked(m)
<1>1. n \in Node /\ n \notin ToSet(stateChangeQueue) /\ queueStatus[n] # "CHECK"
  BY ElementFacts DEF TypeOK, QueuesAreSound, PendingIsSound, IsPending, PendingStatus
<1>2. stateChangeQueue \in Seq(Node) /\ pendingQueue \in Seq(Node)
  BY DEF TypeOK
<1>3. PICK k \in Node : /\ \/ CheckCandidate(k) \/ KeepPending(k) \/ DropPending(k)
                           \/ AcquireResources(k) \/ FailToAcquire(k) \/ TransitionNode(k)
                        /\ stateChangeQueue' = Append(stateChangeQueue, k)
  <2>1. CASE AllChecked \/ GroupDone
    BY <1>1, <2>1 DEF AllChecked, GroupDone
  <2>2. ASSUME NEW k \in Node, TransitionNode(k) PROVE FALSE
    <3>1. ToSet(stateChangeQueue') \subseteq ToSet(stateChangeQueue)
      BY <1>2, <2>2, TailFacts DEF TransitionNode
    <3> QED  BY <1>1, <3>1
  <2>3. ASSUME NEW k \in Node, \/ CheckCandidate(k) \/ KeepPending(k) \/ DropPending(k)
                               \/ AcquireResources(k) \/ FailToAcquire(k)
        PROVE  stateChangeQueue' \in {stateChangeQueue, Append(stateChangeQueue, k)}
    BY <2>3 DEF CheckCandidate, KeepPending, DropPending, AcquireResources, FailToAcquire
  <2>4. \E k \in Node : \/ CheckCandidate(k) \/ KeepPending(k) \/ DropPending(k)
                        \/ AcquireResources(k) \/ FailToAcquire(k) \/ TransitionNode(k)
    BY <1>1, <2>1, OtherStepsInOrder
  <2> QED  BY <1>1, <2>2, <2>3, <2>4
<1>4. k = n
  <2>1. ToSet(stateChangeQueue') = ToSet(stateChangeQueue) \cup {k}
    BY <1>2, <1>3, AppendFacts
  <2> QED  BY <1>1, <2>1
<1>5. ToSet(Without(pendingQueue, n)) \subseteq ToSet(pendingQueue)
  BY <1>2, WithoutFacts DEF QueuesAreSound, PendingIsSound
<1>6. CASE CheckCandidate(n)
  <2>1. n \in ToSet(candidateQueue)
    BY <1>6, TailFacts DEF CheckCandidate, TypeOK
  <2> QED  BY <1>1, <2>1 DEF QueuesAreSound, CandidatesAreSound
<1>7. CASE DropPending(n)
  <2>1. phase = "gather" /\ n = cursor /\ m \in ToSet(pendingQueue)
    BY <1>5, <1>7 DEF DropPending
  <2> QED  BY <2>1, BetterAreBlocked
<1>8. CASE AcquireResources(n)
  <2>1. phase = "acquire" /\ priorityNodes # <<>> /\ n = Head(priorityNodes)
        /\ m \in ToSet(pendingQueue)
    BY <1>5, <1>8 DEF AcquireResources
  <2>2. n \in ToSet(priorityNodes)
    BY <2>1, FirstToTry
  <2> QED  BY <2>1, <2>2 DEF PrioritiesAreSound, PassedAreBlocked
<1>9. CASE KeepPending(n) \/ FailToAcquire(n) \/ TransitionNode(n)
  <2>1. stateChangeQueue' \in {stateChangeQueue, Tail(stateChangeQueue)}
    BY <1>9 DEF KeepPending, FailToAcquire, TransitionNode
  <2>2. Len(Append(stateChangeQueue, n)) = Len(stateChangeQueue) + 1
        /\ Len(stateChangeQueue) \in Nat /\ Append(stateChangeQueue, n) # stateChangeQueue
    BY <1>1, <1>2
  <2>3. CASE KeepPending(n) \/ FailToAcquire(n)
    BY <1>3, <1>4, <2>2, <2>3 DEF KeepPending, FailToAcquire
  <2>4. CASE TransitionNode(n)
    <3>1. stateChangeQueue # <<>> /\ n = Head(stateChangeQueue)
      BY <2>4 DEF TransitionNode
    <3> QED  BY <1>1, <1>2, <3>1, TailFacts
  <2> QED  BY <1>9, <2>3, <2>4
<1> QED  BY <1>3, <1>4, <1>6, <1>7, <1>8, <1>9

\* Nodes get their resources in the order of their priority, if no node waits for
\* resources while it holds some.  A node that ends under an ancestor which is
\* interrupted keeps its mutexes (transitionToFinished() releases none); when it runs
\* again, tryResourceAcquisition() finds its own mutex taken, releases it and waits,
\* and a node of worse priority that is waiting finds it free.
THEOREM PrioritiesRespected == Spec /\ []PendingHoldNothing => PriorityRespected
<1>1. Init => PrioritiesAreSound
  BY DEF Init, PrioritiesAreSound, InPriorityOrder, WaitersAreBlocked, PassedAreBlocked,
         Precedes, ToSet
<1>2. TypeOK /\ QueuesAreSound /\ FinishedAreSound /\ PrioritiesAreSound /\ PendingHoldNothing
        /\ [Next]_vars => PrioritiesAreSound'
  BY PrioritiesStaySound
<1>3. TypeOK /\ QueuesAreSound /\ FinishedAreSound /\ PrioritiesAreSound /\ [Next]_vars =>
        [\A n, m \in Node :
           /\ n \in ToSet(pendingQueue) /\ n \in ToSet(stateChangeQueue') /\ next[n].state = "EXECUTING"
           /\ m \in ToSet(pendingQueue') /\ Priority[m] < Priority[n]
           /\ Resources(m) \cap Resources(n) # {}
           => \E r \in Resources(m) : holder[r] # None]_vars
  BY NobodyPassedOver DEF Blocked
<1> QED
  BY <1>1, <1>2, <1>3, TypeCorrect, SoundQueuesAlways, FinishedAlways, PTL
     DEF Spec, PriorityRespected

-----------------------------------------------------------------------------
(* Holders *)

\* No node that uses mutexes is interrupted by what happens to its ancestors: when it
\* has run it ends its iteration, and transitionToIterationEnded() releases them.
KeepsNone == \A n \in Node : state[n] \in Running /\ state'[n] = "FINISHED" => Mutexes(n) = {}

NoMutexKept == [][KeepsNone]_vars

\* A resource is held by a node that uses it, and runs or is about to.
HolderIsSound(r) ==
  LET n == holder[r]
  IN  n # None => /\ r \in Resources(n)
                  /\ \/ state[n] \in Running
                     \/ /\ n \in ToSet(stateChangeQueue) /\ state[n] = "WAITING"
                        /\ next[n].state = "EXECUTING"

HoldersAreSound == \A r \in Resource : HolderIsSound(r)

\* A node on no queue but the candidate queue or the pending queue moves to another.
LEMMA QueueingKeepsHolders ==
  ASSUME TypeOK, QueuesAreSound, HoldersAreSound, NEW n \in Node,
         CheckCandidate(n) \/ KeepPending(n) \/ DropPending(n)
  PROVE  HoldersAreSound'
<1>1. UNCHANGED <<state, holder>>
  BY DEF CheckCandidate, KeepPending, DropPending, condVars, resourceVars
<1>2. n \notin ToSet(stateChangeQueue)
  <2>1. CASE CheckCandidate(n)
    <3>1. n \in ToSet(candidateQueue)
      BY <2>1, TailFacts DEF CheckCandidate, TypeOK
    <3> QED  BY <3>1 DEF QueuesAreSound, CandidatesAreSound, ChangesAreSound, CanMove,
                         PendingStatus
  <2>2. CASE KeepPending(n) \/ DropPending(n)
    BY <2>2, WalkFacts DEF KeepPending, DropPending, QueuesAreSound, PendingIsSound, IsPending
  <2> QED  BY <2>1, <2>2
<1>3. ToSet(stateChangeQueue) \subseteq ToSet(stateChangeQueue')
  <2>1. stateChangeQueue' \in {stateChangeQueue, Append(stateChangeQueue, n)}
    BY DEF CheckCandidate, KeepPending, DropPending
  <2>2. ToSet(Append(stateChangeQueue, n)) = ToSet(stateChangeQueue) \cup {n}
    BY AppendFacts DEF TypeOK
  <2> QED  BY <2>1, <2>2
<1>4. \A m \in Node \ {n} : next'[m] = next[m]
  <2>1. next' \in {next, [next EXCEPT ![n] = Evaluated(n)]}
    BY DEF CheckCandidate, KeepPending, DropPending
  <2> QED  BY <2>1 DEF TypeOK
<1>5. \A r \in Resource : holder[r] # None => holder[r] \in Node
  BY DEF TypeOK
<1> QED  BY <1>1, <1>2, <1>3, <1>4, <1>5 DEF HoldersAreSound, HolderIsSound

LEMMA AcquisitionKeepsHolders ==
  ASSUME TypeOK, QueuesAreSound, HoldersAreSound, NEW n \in Node,
         AcquireResources(n) \/ FailToAcquire(n)
  PROVE  HoldersAreSound'
<1>1. UNCHANGED <<state, next>> /\ IsPending(n)
  BY FirstToTry DEF AcquireResources, FailToAcquire, condVars, nodeVars
<1>2. CASE AcquireResources(n)
  <2>1. \A r \in Resource : holder'[r] = IF r \in Resources(n) THEN n ELSE holder[r]
    BY <1>2 DEF AcquireResources
  <2>2. ToSet(stateChangeQueue') = ToSet(stateChangeQueue) \cup {n}
    BY <1>2, AppendFacts DEF AcquireResources, TypeOK
  <2> QED  BY <1>1, <2>1, <2>2 DEF HoldersAreSound, HolderIsSound, IsPending
<1>3. CASE FailToAcquire(n)
  <2>1. \A r \in Resource : holder'[r] \in {None, holder[r]}
    BY <1>3 DEF FailToAcquire
  <2>2. UNCHANGED stateChangeQueue
    BY <1>3 DEF FailToAcquire
  <2> QED  BY <1>1, <2>1, <2>2 DEF HoldersAreSound, HolderIsSound
<1> QED  BY <1>2, <1>3

\* A node that ends gives up all it holds, unless it is interrupted with a mutex.
LEMMA TransitionKeepsHolders ==
  ASSUME TypeOK, QueuesAreSound, HoldersAreSound, NEW n \in Node, TransitionNode(n), KeepsNone
  PROVE  HoldersAreSound'
<1>1. /\ stateChangeQueue # <<>> /\ n = Head(stateChangeQueue)
      /\ stateChangeQueue' = Tail(stateChangeQueue)
      /\ state' = [state EXCEPT ![n] = next[n].state]
      /\ next' = [next EXCEPT ![n] = NoTransition]
      /\ holder' = [r \in Resource |-> IF r \in ReleasedByHolder(n) THEN None ELSE holder[r]]
  BY DEF TransitionNode
<1>2. n \in ToSet(stateChangeQueue) /\ ToSet(stateChangeQueue') = ToSet(stateChangeQueue) \ {n}
  BY <1>1, TailFacts DEF TypeOK, QueuesAreSound, ChangesAreSound
<1>3. /\ next[n].state \in LegalSuccessor(Type[n], state[n])
      /\ Type[n] \in NodeType /\ state[n] \in NodeState
  BY <1>2, PlanAssumption DEF QueuesAreSound, ChangesAreSound, CanMove, TypeOK
<1>4. /\ state'[n] = next[n].state
      /\ \A m \in Node \ {n} : state'[m] = state[m] /\ next'[m] = next[m]
  BY <1>1 DEF TypeOK
<1>5. ASSUME NEW r \in Resource, holder'[r] # None
      PROVE  HolderIsSound(r)'
  <2>1. holder'[r] = holder[r] /\ r \notin ReleasedByHolder(n) /\ holder[r] \in Node
    BY <1>1, <1>5 DEF TypeOK
  <2>2. CASE holder[r] # n
    BY <1>2, <1>4, <2>1, <2>2 DEF HoldersAreSound, HolderIsSound
  <2>3. CASE holder[r] = n
    <3>1. r \in Resources(n) /\ r \notin Released(n)
      BY <2>1, <2>3, <1>5 DEF HoldersAreSound, HolderIsSound, ReleasedByHolder
    <3>2. \/ state[n] \in Running
          \/ state[n] = "WAITING" /\ next[n].state = "EXECUTING"
      BY <2>1, <2>3, <1>5 DEF HoldersAreSound, HolderIsSound
    <3>3. next[n].state \in Running
      <4>1. CASE state[n] = "WAITING" /\ next[n].state = "EXECUTING"
        BY <4>1 DEF Running
      <4>2. CASE state[n] \in Running
        <5>1. next[n].state \in {"FINISHING", "FAILING", "FINISHED", "ITERATION_ENDED"}
          BY <1>3, <4>2 DEF LegalSuccessor, Running
        <5>2. next[n].state # "ITERATION_ENDED"
          BY <3>1, <4>2 DEF Released, Running
        <5>3. next[n].state # "FINISHED"
          <6>1. SUFFICES ASSUME next[n].state = "FINISHED" PROVE FALSE
            OBVIOUS
          <6>2. Mutexes(n) = {}
            BY <1>4, <4>2, <6>1 DEF KeepsNone
          <6>3. Type[n] = "Assignment" /\ r = Dest[n]
            BY <3>1, <6>2 DEF Resources
          <6>4. state[n] = "FAILING"
            BY <1>3, <4>2, <6>1, <6>3 DEF LegalSuccessor, Running
          <6>5. Released(n) = Resources(n) \cap Variable
            BY <6>1, <6>4 DEF Released
          <6> QED  BY <3>1, <6>3, <6>5, PlanAssumption
        <5> QED  BY <5>1, <5>2, <5>3 DEF Running
      <4> QED  BY <3>2, <4>1, <4>2
    <3> QED  BY <1>4, <2>1, <2>3, <3>1, <3>3 DEF HolderIsSound
  <2> QED  BY <2>2, <2>3
<1> QED  BY <1>5 DEF HoldersAreSound, HolderIsSound

LEMMA HoldersStaySound ==
  ASSUME TypeOK, QueuesAreSound, HoldersAreSound, [Next]_vars, [KeepsNone]_vars
  PROVE  HoldersAreSound'
<1> USE DEF condVars, resourceVars, nodeVars
<1>1. ASSUME UNCHANGED <<holder, state, next, stateChangeQueue>> PROVE HoldersAreSound'
  BY <1>1 DEF HoldersAreSound, HolderIsSound
<1>2. CASE UNCHANGED vars
  BY <1>1, <1>2 DEF vars
<1>3. ASSUME NEW n \in Node,
             \/ CheckCandidate(n) \/ KeepPending(n) \/ DropPending(n)
             \/ AcquireResources(n) \/ FailToAcquire(n)
      PROVE  HoldersAreSound'
  BY <1>3, QueueingKeepsHolders, AcquisitionKeepsHolders
<1>4. ASSUME NEW n \in Node, TransitionNode(n), KeepsNone PROVE HoldersAreSound'
  BY <1>4, TransitionKeepsHolders
<1>5. CASE StartStep \/ World
  BY <1>1, <1>5 DEF World, WorldUnchanged, AddPlan, DeleteFinishedPlans, LookupReturn,
       CommandHandleReturn, CommandReturn, CommandAbortAcknowledge, UpdateAcknowledge, StartStep
<1>6. ASSUME NEW n \in Node,
             \/ ExecuteAssignment(n) \/ RetractAssignment(n) \/ ExecuteCommand(n)
             \/ InvokeAbort(n) \/ ExecuteUpdate(n)
      PROVE  HoldersAreSound'
  BY <1>1, <1>6 DEF ExecuteAssignment, RetractAssignment, ExecuteCommand, InvokeAbort,
                    ExecuteUpdate, EffectsUnchanged
<1>7. CASE AllChecked \/ GroupDone \/ BatchDone \/ StepDone
  BY <1>1, <1>7 DEF AllChecked, GroupDone, BatchDone, StepDone
<1> QED  BY <1>2, <1>3, <1>4, <1>5, <1>6, <1>7 DEF Next, Step

LEMMA HoldersAlways == Spec /\ NoMutexKept => []HoldersAreSound
<1>1. Init => HoldersAreSound
  BY DEF Init, HoldersAreSound, HolderIsSound
<1>2. TypeOK /\ QueuesAreSound /\ HoldersAreSound /\ [Next]_vars /\ [KeepsNone]_vars
        => HoldersAreSound'
  BY HoldersStaySound
<1> QED  BY <1>1, <1>2, TypeCorrect, SoundQueuesAlways, PTL DEF Spec, NoMutexKept

\* Whoever holds a mutex or a variable runs or is about to, unless a node that uses a
\* mutex is interrupted: transitionToFinished() is the one way out of a run that does
\* not release the mutexes.
THEOREM HoldersRun == Spec /\ NoMutexKept => []HolderIsRunning
<1>1. HoldersAreSound => HolderIsRunning
  BY DEF HoldersAreSound, HolderIsSound, HolderIsRunning
<1> QED  BY <1>1, HoldersAlways, PTL

\* Then nobody who waits for a resource holds another, and priorities are respected.
THEOREM InTurn == Spec /\ NoMutexKept => PriorityRespected
<1>1. TypeOK /\ QueuesAreSound /\ HolderIsRunning => PendingHoldNothing
  <2>1. SUFFICES ASSUME TypeOK, QueuesAreSound, HolderIsRunning,
                        NEW n \in ToSet(pendingQueue), NEW r \in Resource, holder[r] = n
                 PROVE  FALSE
    BY DEF PendingHoldNothing
  <2>2. n \in Node /\ n # None
    BY <2>1, ElementFacts, PlanAssumption DEF TypeOK
  <2>3. state[n] = "WAITING" /\ n \notin ToSet(stateChangeQueue)
    BY <2>1 DEF QueuesAreSound, PendingIsSound, IsPending
  <2> QED  BY <2>1, <2>2, <2>3 DEF HolderIsRunning, Running
<1> QED  BY <1>1, HoldersRun, TypeCorrect, SoundQueuesAlways, PrioritiesRespected, PTL

-----------------------------------------------------------------------------
(* Rest.  When the executive comes to rest every node that waits for a     *)
(* resource waits for a node that runs.                                    *)

\* The ancestors of a node are its parent and the parent's: the recursion has a
\* solution whatever the parents are.
LEMMA AncestorsAre ==
  ASSUME NEW n \in Node
  PROVE  Ancestors[n] = IF IsRoot(n) THEN {} ELSE {Parent[n]} \cup Ancestors[Parent[n]]
<1> DEFINE Closed(S) == \A m \in S : IsRoot(m) \/ Parent[m] \in S
           above == [m \in Node |-> IF IsRoot(m) THEN {}
                       ELSE {a \in Node : \A S \in SUBSET Node :
                               Parent[m] \in S /\ Closed(S) => a \in S}]
           Solves(f) == f = [m \in Node |-> IF IsRoot(m) THEN {}
                                            ELSE {Parent[m]} \cup f[Parent[m]]]
<1>0. \A m \in Node : IsRoot(m) \/ Parent[m] \in Node
  BY PlanAssumption DEF IsRoot
<1>1. ASSUME NEW m \in Node, ~IsRoot(m)
      PROVE  above[m] = {Parent[m]} \cup above[Parent[m]]
  <2> DEFINE p == Parent[m]
             Known == {p} \cup above[p]
  <2>1. p \in Node
    BY <1>0, <1>1
  <2>2. above[p] \subseteq Node /\ p \in above[m]
    BY <1>1, <2>1
  <2>3. above[p] \subseteq above[m]
    <3>1. SUFFICES ASSUME ~IsRoot(p), NEW a \in above[p], NEW S \in SUBSET Node, p \in S, Closed(S)
                   PROVE  a \in S
      BY <1>1, <2>1
    <3>2. Parent[p] \in S
      BY <3>1
    <3> QED  BY <2>1, <3>1, <3>2
  <2>4. Closed(Known)
    <3>1. ASSUME ~IsRoot(p) PROVE Parent[p] \in above[p]
      BY <1>0, <2>1, <3>1
    <3>2. ASSUME NEW a \in above[p], ~IsRoot(a) PROVE Parent[a] \in above[p]
      <4>1. ~IsRoot(p) /\ a \in Node /\ Parent[a] \in Node
        BY <1>0, <2>1, <2>2, <3>2
      <4>2. ASSUME NEW S \in SUBSET Node, Parent[p] \in S, Closed(S) PROVE Parent[a] \in S
        <5>1. a \in S
          BY <2>1, <3>2, <4>1, <4>2
        <5> QED  BY <3>2, <4>2, <5>1
      <4> QED  BY <2>1, <4>1, <4>2
    <3> HIDE DEF above
    <3> QED  BY <3>1, <3>2
  <2>5. above[m] \subseteq Known
    <3>1. Known \in SUBSET Node /\ p \in Known
      BY <2>1, <2>2
    <3>2. \A a \in above[m] : \A S \in SUBSET Node : p \in S /\ Closed(S) => a \in S
      BY <1>1
    <3> HIDE DEF above, Known, Closed
    <3> QED  BY <2>4, <3>1, <3>2
  <2> HIDE DEF above
  <2> QED  BY <2>2, <2>3, <2>5
<1>2. \A m \in Node : IsRoot(m) => above[m] = {}
  OBVIOUS
<1>3. above = [m \in Node |-> above[m]]
  OBVIOUS
<1> HIDE DEF above
<1>4. Solves(above)
  BY <1>1, <1>2, <1>3
<1>5. Ancestors = CHOOSE f : Solves(f)
  BY DEF Ancestors
<1> HIDE DEF Solves
<1>6. Solves(Ancestors)
  BY <1>4, <1>5
<1> QED  BY <1>6 DEF Solves

\* Whatever holds of a node whenever it holds of its parent holds of all.
LEMMA DownTheTree ==
  ASSUME NEW S \in SUBSET Node, \A n \in Node : (IsRoot(n) \/ Parent[n] \in S) => n \in S
  PROVE  S = Node
<1>1. ASSUME Node \ S # {} PROVE FALSE
  <2>1. PICK n \in Node \ S : Parent[n] \notin Node \ S
    BY <1>1, ForestAssumption
  <2>2. IsRoot(n) \/ Parent[n] \in S
    BY <2>1, PlanAssumption DEF IsRoot
  <2> QED  BY <2>1, <2>2
<1> QED  BY <1>1

LEMMA ParentFacts ==
  ASSUME NEW n \in Node, ~IsRoot(n)
  PROVE  /\ Parent[n] \in Node /\ Type[Parent[n]] = "List"
         /\ Ancestors[n] = {Parent[n]} \cup Ancestors[Parent[n]]
BY AncestorsAre, PlanAssumption, ForestAssumption DEF IsRoot

\* The ancestors of a node are lists, and theirs are its own.
LEMMA AncestorFacts ==
  ASSUME NEW n \in Node, NEW a \in Ancestors[n]
  PROVE  a \in Node /\ Type[a] = "List" /\ Ancestors[a] \subseteq Ancestors[n]
<1> DEFINE Fine == {m \in Node : \A b \in Ancestors[m] :
                      b \in Node /\ Type[b] = "List" /\ Ancestors[b] \subseteq Ancestors[m]}
<1>1. ASSUME NEW m \in Node, IsRoot(m) \/ Parent[m] \in Fine PROVE m \in Fine
  <2>1. CASE IsRoot(m)
    BY <2>1, AncestorsAre
  <2>2. CASE ~IsRoot(m)
    BY <1>1, <2>2, ParentFacts
  <2> QED  BY <2>1, <2>2
<1>2. Fine \in SUBSET Node
  OBVIOUS
<1> HIDE DEF Fine
<1>3. Fine = Node
  BY <1>1, <1>2, DownTheTree
<1> QED  BY <1>3 DEF Fine

\* No root is interrupted by what happens to its ancestors: it has none.  In a steady plan
\* nothing happens to them.
EndsAlone(n) ==
  IsRoot(n) \/ Steady =>
               /\ failure[n] \notin ParentEnded /\ next[n].failure \notin ParentEnded
               /\ state[n] \in Running => next[n].state # "FINISHED"

AllEndAlone == \A n \in Node : EndsAlone(n)

LEMMA NothingFromAncestors ==
  ASSUME NEW n \in Node, IsRoot(n) \/ Steady
  PROVE  AncestorExit(n) # "T" /\ AncestorInvariant(n) # "F"
<1>1. \A a \in Ancestors[n] : /\ Value(condition[a]["exit"]) # "T"
                              /\ Value(condition[a]["invariant"]) # "F"
  <2>1. CASE IsRoot(n)
    BY <2>1, AncestorsAre
  <2>2. CASE Steady
    BY <2>2, AncestorFacts DEF Steady, Never, Value
  <2> QED  BY <2>1, <2>2
<1>2. \A vs : (AnyOf(vs) = "T" => "T" \in vs) /\ (AllOf(vs) = "F" => "F" \in vs)
  BY DEF AnyOf, AllOf
<1> QED  BY <1>1, <1>2 DEF AncestorExit, AncestorInvariant

LEMMA EvaluatedAlone ==
  ASSUME TypeOK, NEW n \in Node, IsRoot(n) \/ Steady, EndsAlone(n)
  PROVE  /\ Evaluated(n).failure \notin ParentEnded
         /\ state[n] \in Running => Evaluated(n).state # "FINISHED"
<1> DEFINE c == ValuesOf(n)
           d == DestState(Type[n], state[n], c)
<1>1. c.ancestorExit # "T" /\ c.ancestorInvariant # "F" /\ c.failure = failure[n]
  BY NothingFromAncestors DEF ValuesOf
<1>2. Type[n] \in NodeType /\ state[n] \in NodeState /\ failure[n] \notin ParentEnded
      /\ next[n].failure \notin ParentEnded
  BY PlanAssumption DEF TypeOK, EndsAlone
<1> HIDE DEF c
<1>3. /\ d.failure \notin ParentEnded
      /\ state[n] \in Running => d.state # "FINISHED"
  <2> USE DEF To, ToState, NoTransition, ParentEnded, InterruptedTo, IterationOver, Running
  <2>1. CASE state[n] = "EXECUTING"
    BY <1>1, <1>2, <2>1 DEF DestState, FromExecuting, Interrupted
  <2>2. CASE state[n] \in {"FINISHING", "FAILING"}
    BY <1>1, <1>2, <2>2 DEF DestState, FromFinishing, FromFailing, Interrupted
  <2>3. CASE state[n] \in {"INACTIVE", "WAITING"}
    BY <1>1, <1>2, <2>3 DEF DestState, FromInactive, FromWaiting
  <2>4. CASE state[n] \in {"ITERATION_ENDED", "FINISHED"}
    BY <1>1, <1>2, <2>4 DEF DestState, FromIterationEnded, FromFinished
  <2> QED  BY <1>2, <2>1, <2>2, <2>3, <2>4 DEF NodeState
<1> HIDE DEF d
<1>4. /\ Evaluated(n).failure \in {d.failure, next[n].failure}
      /\ Evaluated(n).state = d.state
  BY DEF Evaluated, d, c
<1> QED  BY <1>2, <1>3, <1>4

LEMMA AllStayAlone ==
  ASSUME TypeOK, AllEndAlone, [Next]_vars
  PROVE  AllEndAlone'
<1> USE DEF condVars, nodeVars
<1>0. Steady' <=> Steady
  BY ConditionsUnchanged DEF Steady
<1>1. ASSUME UNCHANGED <<state, failure, next>> PROVE AllEndAlone'
  BY <1>0, <1>1 DEF AllEndAlone, EndsAlone
<1>2. CASE UNCHANGED vars
  BY <1>1, <1>2 DEF vars
<1>3. ASSUME NEW n \in Node, UNCHANGED <<state, failure>>,
             next' \in {next, [next EXCEPT ![n] = Evaluated(n)]}
      PROVE  AllEndAlone'
  <2>1. next'[n] \in {next[n], Evaluated(n)} /\ \A m \in Node \ {n} : next'[m] = next[m]
    BY <1>3 DEF TypeOK
  <2>2. EndsAlone(n)'
    BY <1>0, <1>3, <2>1, EvaluatedAlone DEF AllEndAlone, EndsAlone
  <2> QED  BY <1>0, <1>3, <2>1, <2>2 DEF AllEndAlone, EndsAlone
<1>4. ASSUME NEW n \in Node,
             \/ CheckCandidate(n) \/ KeepPending(n) \/ DropPending(n)
             \/ AcquireResources(n) \/ FailToAcquire(n)
      PROVE  AllEndAlone'
  <2>1. UNCHANGED <<state, failure>> /\ next' \in {next, [next EXCEPT ![n] = Evaluated(n)]}
    BY <1>4 DEF CheckCandidate, KeepPending, DropPending, AcquireResources, FailToAcquire
  <2> QED  BY <1>3, <2>1
<1>5. ASSUME NEW n \in Node, TransitionNode(n) PROVE AllEndAlone'
  <2>1. /\ next' = [next EXCEPT ![n] = NoTransition]
        /\ state' = [state EXCEPT ![n] = next[n].state]
    BY <1>5 DEF TransitionNode
  <2>2. \A m \in Node : failure'[m] = IF m = n THEN failure'[n] ELSE failure[m]
    BY <1>5 DEF TransitionNode, TypeOK
  <2>3. failure'[n] \in {next[n].failure, failure[n], "NO_FAILURE"}
    BY <1>5 DEF TransitionNode, TypeOK
  <2>4. next'[n] = NoTransition /\ \A m \in Node \ {n} : next'[m] = next[m] /\ state'[m] = state[m]
    BY <2>1 DEF TypeOK
  <2> QED  BY <1>0, <2>2, <2>3, <2>4 DEF AllEndAlone, EndsAlone, NoTransition, ToState, To,
                                   ParentEnded
<1>6. CASE StartStep \/ World
  BY <1>1, <1>6 DEF World, WorldUnchanged, AddPlan, DeleteFinishedPlans, LookupReturn,
       CommandHandleReturn, CommandReturn, CommandAbortAcknowledge, UpdateAcknowledge, StartStep
<1>7. ASSUME NEW n \in Node,
             \/ ExecuteAssignment(n) \/ RetractAssignment(n) \/ ExecuteCommand(n)
             \/ InvokeAbort(n) \/ ExecuteUpdate(n)
      PROVE  AllEndAlone'
  BY <1>1, <1>7 DEF ExecuteAssignment, RetractAssignment, ExecuteCommand, InvokeAbort,
                    ExecuteUpdate, EffectsUnchanged
<1>8. CASE AllChecked \/ GroupDone \/ BatchDone \/ StepDone
  BY <1>1, <1>8 DEF AllChecked, GroupDone, BatchDone, StepDone
<1> QED  BY <1>2, <1>4, <1>5, <1>6, <1>7, <1>8 DEF Next, Step

\* A walk over the pending queue that stops at a node which leaves it, before the end,
\* is followed by another: the node changes its state and is told so.  It is not if the
\* node goes nowhere, or is a root that ends.
GoesOn == \A n \in Node : DropPending(n) /\ n # pendingQueue[Len(pendingQueue)] =>
            next'[n].state # "NO_STATE" /\ ~(IsRoot(n) /\ next'[n].state = "FINISHED")

WalksGoOn == [][GoesOn]_vars

\* A node will change its state and be a candidate for it.
MoreToCome == \E n \in ToSet(stateChangeQueue) : ~IsFinish(n)

AllBlocked == \A m \in ToSet(pendingQueue) : Blocked(m)

\* Behind the walk, who is not blocked still tries, or there will be another walk.
AllHaveTried ==
  /\ phase = "acquire" /\ cursor = None =>
       MoreToCome \/ \A m \in ToSet(pendingQueue) : m \in ToSet(priorityNodes) \/ Blocked(m)
  /\ phase = "transition" => candidateQueue # <<>> \/ MoreToCome \/ AllBlocked
  /\ phase = "effects" => candidateQueue # <<>> \/ AllBlocked
  /\ phase = "idle" => AllBlocked

\* A candidate stays one, and a node that is told of a change becomes one.
LEMMA NotifyChecks ==
  ASSUME NEW q, NEW S \in SUBSET Node, NEW m \in Node
  PROVE  /\ q.status[m] = "CHECK" => Notify(q, S).status[m] = "CHECK"
         /\ q.status[m] = "NONE" => Notify(q, S).status[m] \in {"NONE", "CHECK"}
         /\ m \in S /\ q.status[m] = "NONE" => Notify(q, S).status[m] = "CHECK"
<1>1. Notify(q, S).status[m] = IF m \in S THEN Notified(q.status[m]) ELSE q.status[m]
  BY DEF Notify
<1> QED  BY <1>1 DEF Notified

LEMMA NotifyAvailableChecks ==
  ASSUME NEW q, NEW R, NEW m \in Node, q.status[m] \in {"NONE", "CHECK"}
  PROVE  NotifyAvailable(q, R).status[m] = q.status[m]
<1>1. NotifyAvailable(q, R).status[m] \in {q.status[m], Available(q.status[m])}
  BY DEF NotifyAvailable
<1> QED  BY <1>1 DEF Available

\* A transition takes nobody off the candidate queue but a root that has finished, and
\* puts the node there that it is about.
LEMMA MovedChecks ==
  ASSUME TypeOK, NEW n \in Node
  PROVE  /\ \A m \in Node \ {n} : queueStatus[m] = "CHECK" => Moved(n).status[m] = "CHECK"
         /\ ~IsFinish(n) => Moved(n).status[n] = "CHECK"
<1> DEFINE popped == WithStatus(queues, n, "NONE")
           rechecked == IF queueStatus[n] = "TRANSITION_CHECK" THEN Notify(popped, {n})
                        ELSE popped
           freed == NotifyAvailable(rechecked, ReleasedByHolder(n))
           ready == Notify(freed, Initialized(n))
           told == IF IsFinish(n) THEN Finish(ready, n) ELSE Notify(ready, {n})
           Keeps(p, q) == \A m \in Node \ {n} : p.status[m] = "CHECK" => q.status[m] = "CHECK"
           Idle(q) == q.status[n] \in {"NONE", "CHECK"}
<1>1. TypedQueues(popped) /\ Keeps(queues, popped) /\ Idle(popped)
  <2>1. TypedQueues(popped)
    BY QueuesTyped, WithStatusTyped, OtherStatuses
  <2>2. Differ(queueStatus, popped.status, n, "NONE") /\ queues.status = queueStatus
    BY StatusNow, WithStatusIs, OtherStatuses
  <2> HIDE DEF popped
  <2> QED  BY <2>1, <2>2 DEF Differ
<1>2. TypedQueues(rechecked) /\ Keeps(popped, rechecked) /\ Idle(rechecked)
  <2> HIDE DEF popped
  <2>1. /\ TypedQueues(Notify(popped, {n})) /\ Keeps(popped, Notify(popped, {n}))
        /\ Idle(Notify(popped, {n}))
    BY <1>1, NotifyTyped, NotifyChecks
  <2> QED  BY <1>1, <2>1
<1>3. TypedQueues(freed) /\ Keeps(rechecked, freed) /\ Idle(freed)
  <2> HIDE DEF rechecked
  <2> QED  BY <1>2, NotifyAvailableTyped, NotifyAvailableChecks
<1>4. TypedQueues(ready) /\ Keeps(freed, ready) /\ Idle(ready)
  <2>1. Initialized(n) \in SUBSET Node
    BY DEF Initialized, Listening, Listeners
  <2> HIDE DEF freed
  <2> QED  BY <1>3, <2>1, NotifyTyped, NotifyChecks
<1>5. Keeps(ready, told) /\ (~IsFinish(n) => told.status[n] = "CHECK")
  <2> HIDE DEF ready
  <2>1. Keeps(ready, Notify(ready, {n})) /\ Notify(ready, {n}).status[n] = "CHECK"
    BY <1>4, NotifyChecks
  <2>2. Keeps(ready, Finish(ready, n))
    <3>1. ready.status \in [Node -> QueueStatus]
      BY <1>4 DEF TypedQueues
    <3>2. Finish(ready, n).status \in {ready.status, [ready.status EXCEPT ![n] = "DELETE"]}
      BY DEF Finish, WithStatus, WithFault
    <3> QED  BY <3>1, <3>2
  <2> QED  BY <2>1, <2>2
<1>6. Keeps(told, Moved(n)) /\ (told.status[n] = "CHECK" => Moved(n).status[n] = "CHECK")
  <2>1. ToldChildren(n) \in SUBSET Node
    BY DEF ToldChildren, Children
  <2>2. Moved(n) = IF Type[n] = "List" THEN Notify(told, ToldChildren(n)) ELSE told
    BY DEF Moved
  <2> HIDE DEF told
  <2> QED  BY <2>1, <2>2, NotifyChecks
<1>7. queues.status = queueStatus
  BY StatusNow
<1> HIDE DEF popped, rechecked, freed, ready, told
<1> QED  BY <1>1, <1>2, <1>3, <1>4, <1>5, <1>6, <1>7

LEMMA TransitionKeepsCandidates ==
  ASSUME TypeOK, QueuesAreSound, QueuesAreSound', NEW n \in Node, TransitionNode(n)
  PROVE  /\ candidateQueue # <<>> => candidateQueue' # <<>>
         /\ ~IsFinish(n) => candidateQueue' # <<>>
<1>1. PICK told \in SUBSET Node : QueuesBecome(Notify(Moved(n), told))
  BY DEF TransitionNode, Listening, Listeners
<1>2. queueStatus' = Notify(Moved(n), told).status
  BY <1>1 DEF QueuesBecome
<1>3. \A m \in Node : Moved(n).status[m] = "CHECK" => m \in ToSet(candidateQueue')
  <2>1. \A m \in Node : Moved(n).status[m] = "CHECK" => queueStatus'[m] = "CHECK"
    BY <1>2, NotifyChecks
  <2> QED  BY <2>1 DEF QueuesAreSound, CandidatesAreSound
<1>4. \A m : m \in ToSet(candidateQueue') => candidateQueue' # <<>>
  BY DEF ToSet
<1>5. ASSUME candidateQueue # <<>> PROVE candidateQueue' # <<>>
  <2>1. PICK m \in ToSet(candidateQueue) : m \in Node
    BY <1>5, TailFacts DEF TypeOK
  <2>2. queueStatus[m] = "CHECK"
    BY <2>1 DEF QueuesAreSound, CandidatesAreSound
  <2>3. m # n
    <3>1. n \in ToSet(stateChangeQueue)
      BY TailFacts DEF TransitionNode, TypeOK
    <3> QED  BY <2>2, <3>1 DEF QueuesAreSound, ChangesAreSound, CanMove, PendingStatus
  <2> QED  BY <1>3, <1>4, <2>1, <2>2, <2>3, MovedChecks
<1> QED  BY <1>3, <1>4, <1>5, MovedChecks

\* A root that finishes releases nothing: it would have to be interrupted.
LEMMA RootsReleaseNothing ==
  ASSUME TypeOK, QueuesAreSound, HoldersAreSound, AllEndAlone, NEW n \in Node,
         TransitionNode(n), IsFinish(n)
  PROVE  \A r \in Resource : holder'[r] = holder[r]
<1>1. next[n].state = "FINISHED" /\ state[n] \notin Running
  BY DEF IsFinish, AllEndAlone, EndsAlone
<1>2. \A r \in Resource : holder[r] # n
  BY <1>1, PlanAssumption DEF HoldersAreSound, HolderIsSound
<1>3. holder' = [r \in Resource |-> IF r \in ReleasedByHolder(n) THEN None ELSE holder[r]]
  BY DEF TransitionNode
<1> QED  BY <1>2, <1>3 DEF ReleasedByHolder

LEMMA TransitionLeavesAllTried ==
  ASSUME TypeOK, QueuesAreSound, QueuesAreSound', HoldersAreSound, AllEndAlone, AllHaveTried,
         NEW n \in Node, TransitionNode(n)
  PROVE  AllHaveTried'
<1>1. /\ phase = "transition" /\ phase' = "transition" /\ UNCHANGED pendingQueue
      /\ stateChangeQueue # <<>> /\ n = Head(stateChangeQueue)
      /\ stateChangeQueue' = Tail(stateChangeQueue)
      /\ next' = [next EXCEPT ![n] = NoTransition]
  BY DEF TransitionNode
<1>2. CASE ~IsFinish(n)
  BY <1>1, <1>2, TransitionKeepsCandidates DEF AllHaveTried
<1>3. CASE IsFinish(n)
  <2>1. MoreToCome => MoreToCome'
    <3>1. SUFFICES ASSUME NEW m \in ToSet(stateChangeQueue), ~IsFinish(m) PROVE MoreToCome'
      BY DEF MoreToCome
    <3>2. m \in Node /\ m # n /\ m \in ToSet(stateChangeQueue')
      BY <1>1, <1>3, <3>1, TailFacts DEF TypeOK, QueuesAreSound, ChangesAreSound
    <3>3. next'[m] = next[m]
      BY <1>1, <3>2 DEF TypeOK
    <3> QED  BY <3>1, <3>2, <3>3 DEF MoreToCome, IsFinish
  <2>2. AllBlocked => AllBlocked'
    <3>1. \A r \in Resource : holder'[r] = holder[r]
      BY <1>3, RootsReleaseNothing
    <3>2. ToSet(pendingQueue) \subseteq Node
      BY ElementFacts DEF TypeOK
    <3>3. \A m \in Node : Blocked(m) => Blocked(m)'
      BY <3>1, StillBlocked
    <3> QED  BY <1>1, <3>2, <3>3 DEF AllBlocked
  <2> QED  BY <1>1, <2>1, <2>2, TransitionKeepsCandidates DEF AllHaveTried
<1> QED  BY <1>2, <1>3

\* The walk has come to the end of the queue, or it is followed by another.
LEMMA WalkLeavesAllTried ==
  ASSUME TypeOK, QueuesAreSound, PrioritiesAreSound, NEW n \in Node,
         KeepPending(n) \/ DropPending(n), GoesOn
  PROVE  AllHaveTried'
<1>1. phase = "gather" /\ n = cursor /\ phase' \in {"gather", "acquire"} /\ UNCHANGED holder
  BY DEF KeepPending, DropPending, Advance, resourceVars
<1>2. /\ n \in ToSet(pendingQueue) /\ ToSet(pendingQueue) \subseteq Node
      /\ pendingQueue \in Seq(Node) /\ priorityNodes \in Seq(Node)
      /\ DOMAIN pendingQueue = 1..Len(pendingQueue) /\ Len(pendingQueue) \in Nat
      /\ \A i, j \in DOMAIN pendingQueue : pendingQueue[i] = pendingQueue[j] => i = j
  <2>1. pendingQueue \in Seq(Node) /\ IsInjective(pendingQueue)
    BY DEF TypeOK, QueuesAreSound, PendingIsSound
  <2> QED  BY <1>1, <2>1, WalkFacts, ElementFacts DEF TypeOK, IsInjective
<1>3. ASSUME n = pendingQueue[Len(pendingQueue)], NEW m \in ToSet(pendingQueue) \ {n}
      PROVE  m \in ToSet(priorityNodes) \/ Blocked(m)
  <2>1. PICK i, j \in DOMAIN pendingQueue : pendingQueue[i] = m /\ pendingQueue[j] = n
    BY <1>2, <1>3 DEF ToSet
  <2>2. i < j
    BY <1>2, <1>3, <2>1
  <2>3. Precedes(pendingQueue, m, cursor)
    BY <1>1, <2>1, <2>2 DEF Precedes
  <2> QED  BY <1>1, <1>2, <2>3 DEF PrioritiesAreSound, PassedAreBlocked
<1>4. CASE KeepPending(n)
  <2>1. SUFFICES ASSUME cursor' = None, NEW m \in ToSet(pendingQueue)
                 PROVE  m \in ToSet(priorityNodes') \/ Blocked(m)
    BY <1>1, <1>4 DEF AllHaveTried, Blocked, KeepPending
  <2>2. n = pendingQueue[Len(pendingQueue)]
    <3>1. PICK i \in DOMAIN pendingQueue : pendingQueue[i] = n /\ cursor' = NextInQueue(i)
      BY <1>4 DEF KeepPending, Advance
    <3>2. i \in Nat /\ ~(i < Len(pendingQueue))
      <4>1. i < Len(pendingQueue) => pendingQueue[i + 1] \in Node
        BY <1>2
      <4> QED  BY <1>2, <2>1, <3>1, <4>1, PlanAssumption DEF NextInQueue
    <3> QED  BY <1>2, <3>1, <3>2
  <2>3. ToSet(Append(priorityNodes, n)) = ToSet(priorityNodes) \cup {n}
    BY <1>2, AppendFacts
  <2>4. CASE queueStatus[n] \in {"PENDING_TRY", "PENDING_TRY_CHECK"}
    <3>1. priorityNodes' = Append(priorityNodes, n)
      BY <1>4, <2>4 DEF KeepPending
    <3> QED  BY <1>3, <2>2, <2>3, <3>1
  <2>5. CASE queueStatus[n] \notin {"PENDING_TRY", "PENDING_TRY_CHECK"}
    <3>1. priorityNodes' = priorityNodes
      BY <1>4, <2>5 DEF KeepPending
    <3>2. queueStatus[n] \in Awaiting
      BY <1>2, <2>5 DEF QueuesAreSound, PendingIsSound, IsPending, PendingStatus, Awaiting
    <3>3. Blocked(n)
      BY <1>2, <3>2 DEF PrioritiesAreSound, WaitersAreBlocked
    <3> QED  BY <1>3, <2>2, <3>1, <3>3
  <2> QED  BY <2>4, <2>5
<1>5. CASE DropPending(n)
  <2>1. ToSet(pendingQueue') = ToSet(pendingQueue) \ {n} /\ UNCHANGED priorityNodes
        /\ phase' = "acquire"
    BY <1>2, <1>5, WithoutFacts DEF DropPending, Advance, QueuesAreSound, PendingIsSound
  <2>2. CASE n = pendingQueue[Len(pendingQueue)]
    BY <1>1, <1>3, <2>1, <2>2 DEF AllHaveTried, Blocked
  <2>3. CASE n # pendingQueue[Len(pendingQueue)]
    <3>1. next'[n].state # "NO_STATE" /\ ~(IsRoot(n) /\ next'[n].state = "FINISHED")
      BY <1>5, <2>3 DEF GoesOn
    <3>2. stateChangeQueue' = Append(stateChangeQueue, n)
      BY <1>5, <3>1 DEF DropPending
    <3>3. n \in ToSet(stateChangeQueue')
      BY <3>2, AppendFacts DEF TypeOK
    <3>4. MoreToCome'
      BY <3>1, <3>3 DEF MoreToCome, IsFinish
    <3> QED  BY <2>1, <3>4 DEF AllHaveTried
  <2> QED  BY <2>2, <2>3
<1> QED  BY <1>4, <1>5

\* A node that does not get its resources takes none, and gives back none that it had.
LEMMA FailureFreesNothing ==
  ASSUME TypeOK, QueuesAreSound, PendingHoldNothing, NEW n \in Node, FailToAcquire(n)
  PROVE  \A r \in Resource : holder'[r] = holder[r]
<1> DEFINE released == Taken(n) \cup {m \in Mutexes(n) : holder[m] = n}
<1>1. /\ holder' = [r \in Resource |-> IF r \in released THEN None ELSE holder[r]]
      /\ priorityNodes # <<>> /\ n = Head(priorityNodes) /\ phase = "acquire"
  BY DEF FailToAcquire
<1>2. n \in ToSet(pendingQueue)
  BY <1>1, FirstToTry
<1>3. \A r \in Taken(n) : holder[r] = None
  <2>1. \A k \in DOMAIN Wanted(n) : k \in 1..k
    BY PlanAssumption DEF Wanted
  <2> QED  BY <2>1 DEF Taken
<1>4. \A r \in Mutexes(n) : r \in Resource /\ holder[r] # n
  BY <1>2, ResourcesAreResources DEF PendingHoldNothing, Resource
<1> QED  BY <1>1, <1>3, <1>4

\* Who gets its resources will change its state; who does not is blocked.
LEMMA AcquisitionLeavesAllTried ==
  ASSUME TypeOK, QueuesAreSound, PendingHoldNothing, AllHaveTried, NEW n \in Node,
         AcquireResources(n) \/ FailToAcquire(n)
  PROVE  AllHaveTried'
<1>1. phase = "acquire" /\ phase' = "acquire" /\ priorityNodes # <<>> /\ n = Head(priorityNodes)
      /\ priorityNodes' = Tail(priorityNodes) /\ UNCHANGED <<cursor, next>>
  BY DEF AcquireResources, FailToAcquire, nodeVars
<1>2. IsPending(n) /\ ToSet(priorityNodes') = ToSet(priorityNodes) \ {n}
      /\ ToSet(pendingQueue) \subseteq Node
  BY <1>1, FirstToTry, ElementFacts DEF TypeOK
<1>3. CASE AcquireResources(n)
  <2>1. n \in ToSet(stateChangeQueue')
    BY <1>3, AppendFacts DEF AcquireResources, TypeOK
  <2>2. ~IsFinish(n)'
    BY <1>1, <1>2 DEF IsFinish, IsPending
  <2> QED  BY <1>1, <2>1, <2>2 DEF AllHaveTried, MoreToCome
<1>4. CASE FailToAcquire(n)
  <2>1. \A m \in Node : Blocked(m)' <=> Blocked(m)
    BY <1>4, FailureFreesNothing, ResourcesAreResources DEF Blocked
  <2>2. Blocked(n) /\ UNCHANGED <<pendingQueue, stateChangeQueue>>
    BY <1>4 DEF FailToAcquire, Blocked
  <2>3. MoreToCome' = MoreToCome
    BY <1>1, <2>2 DEF MoreToCome, IsFinish
  <2> QED  BY <1>1, <1>2, <2>1, <2>2, <2>3 DEF AllHaveTried
<1> QED  BY <1>3, <1>4

\* Between its loops the executive goes where there is something left to do.
LEMMA PhasesLeaveAllTried ==
  ASSUME TypeOK, QueuesAreSound, AllHaveTried,
         AllChecked \/ GroupDone \/ BatchDone \/ StepDone \/ StartStep
  PROVE  AllHaveTried'
<1>1. UNCHANGED <<holder, candidateQueue, pendingQueue, stateChangeQueue, next>>
  BY DEF AllChecked, GroupDone, BatchDone, StepDone, StartStep, queueVars, resourceVars, nodeVars
<1>2. AllBlocked' = AllBlocked /\ MoreToCome' = MoreToCome
  BY <1>1 DEF AllBlocked, Blocked, MoreToCome, IsFinish
<1>3. stateChangeQueue = <<>> => ~MoreToCome
  BY DEF MoreToCome, ToSet
<1>4. CASE AllChecked
  <2>1. phase' = AfterCheck(pendingQueue, stateChangeQueue)
    BY <1>4 DEF AllChecked
  <2>2. pendingQueue = <<>> => AllBlocked
    BY DEF AllBlocked, ToSet
  <2> QED  BY <1>2, <2>1, <2>2 DEF AllHaveTried, AfterCheck
<1>5. CASE GroupDone
  <2>1. /\ phase = "acquire" /\ priorityNodes = <<>>
        /\ phase' = IF cursor # None THEN "gather"
                    ELSE IF stateChangeQueue # <<>> THEN "transition" ELSE "effects"
    BY <1>5 DEF GroupDone
  <2>2. cursor = None => MoreToCome \/ AllBlocked
    BY <2>1 DEF AllHaveTried, AllBlocked, ToSet
  <2> QED  BY <1>2, <1>3, <2>1, <2>2 DEF AllHaveTried
<1>6. CASE BatchDone
  BY <1>1, <1>2, <1>3, <1>6 DEF AllHaveTried, BatchDone
<1>7. CASE StepDone
  BY <1>1, <1>2, <1>7 DEF AllHaveTried, StepDone
<1>8. CASE StartStep
  BY <1>8 DEF AllHaveTried, StartStep
<1> QED  BY <1>4, <1>5, <1>6, <1>7, <1>8

\* What is sent, or comes in from outside, makes candidates and takes none away.
LEMMA SendingKeepsCandidates ==
  ASSUME TypeOK, QueuesAreSound, QueuesAreSound', NEW n \in Node,
         \/ ExecuteAssignment(n) \/ RetractAssignment(n) \/ ExecuteCommand(n)
         \/ InvokeAbort(n) \/ ExecuteUpdate(n)
  PROVE  candidateQueue # <<>> => candidateQueue' # <<>>
<1> DEFINE CandidatesStay ==
             \A m \in Node : queueStatus[m] = "CHECK" => queueStatus'[m] = "CHECK"
<1>1. \A source : Listening(source) \in SUBSET Node
  BY DEF Listening, Listeners
<1>2. ASSUME ExecuteAssignment(n) \/ RetractAssignment(n) PROVE CandidatesStay
  <2>1. PICK S \in SUBSET Node : QueuesBecome(Notify(Notify(queues, S), {n}))
    <3>1. \E v : SetVariable(n, v)
      BY <1>2 DEF ExecuteAssignment, RetractAssignment
    <3> QED  BY <3>1, <1>1 DEF SetVariable
  <2>2. queueStatus' = Notify(Notify(queues, S), {n}).status
    BY <2>1 DEF QueuesBecome
  <2>3. ASSUME NEW m \in Node, queueStatus[m] = "CHECK" PROVE queueStatus'[m] = "CHECK"
    <3>1. Notify(queues, S).status[m] = "CHECK"
      BY <2>3, StatusNow, NotifyChecks
    <3> QED  BY <2>2, <3>1, NotifyChecks
  <2> QED  BY <2>3
<1>3. ASSUME ExecuteCommand(n) PROVE CandidatesStay
  <2>1. CASE UNCHANGED queueVars
    BY <2>1 DEF queueVars
  <2>2. CASE SetCommandHandle(n, "COMMAND_FAILED")
    <3>1. PICK S \in SUBSET Node : QueuesBecome(Notify(queues, S))
      BY <2>2 DEF SetCommandHandle
    <3> QED  BY <3>1, StatusNow, NotifyChecks DEF QueuesBecome
  <2> QED  BY <1>3, <2>1, <2>2 DEF ExecuteCommand
<1>4. ASSUME InvokeAbort(n) \/ ExecuteUpdate(n) PROVE CandidatesStay
  BY <1>4 DEF InvokeAbort, ExecuteUpdate, queueVars
<1>5. CandidatesStay
  <2> HIDE DEF CandidatesStay
  <2> QED  BY <1>2, <1>3, <1>4
<1>6. SUFFICES ASSUME candidateQueue # <<>> PROVE candidateQueue' # <<>>
  OBVIOUS
<1>7. PICK m \in ToSet(candidateQueue) : m \in Node
  BY <1>6, TailFacts DEF TypeOK
<1>8. m \in ToSet(candidateQueue')
  BY <1>5, <1>7 DEF QueuesAreSound, CandidatesAreSound
<1> QED  BY <1>8 DEF ToSet

LEMMA SendingLeavesAllTried ==
  ASSUME TypeOK, QueuesAreSound, QueuesAreSound', AllHaveTried, NEW n \in Node,
         \/ ExecuteAssignment(n) \/ RetractAssignment(n) \/ ExecuteCommand(n)
         \/ InvokeAbort(n) \/ ExecuteUpdate(n)
  PROVE  AllHaveTried'
<1>1. phase = "effects" /\ phase' = "effects" /\ UNCHANGED <<holder, pendingQueue>>
  BY DEF ExecuteAssignment, RetractAssignment, ExecuteCommand, InvokeAbort, ExecuteUpdate,
         EffectsUnchanged, resourceVars
<1>2. AllBlocked' = AllBlocked
  BY <1>1 DEF AllBlocked, Blocked
<1> QED  BY <1>1, <1>2, SendingKeepsCandidates DEF AllHaveTried

LEMMA AllStayTried ==
  ASSUME TypeOK, QueuesAreSound, QueuesAreSound', PrioritiesAreSound, HoldersAreSound,
         PendingHoldNothing, AllEndAlone, AllHaveTried, [Next]_vars, [GoesOn]_vars
  PROVE  AllHaveTried'
<1>1. CASE UNCHANGED vars
  BY <1>1 DEF vars, queueVars, resourceVars, resolveVars, nodeVars, AllHaveTried, MoreToCome,
              AllBlocked, Blocked, IsFinish
<1>2. ASSUME NEW n \in Node, CheckCandidate(n) PROVE AllHaveTried'
  BY <1>2 DEF CheckCandidate, AllHaveTried
<1>3. ASSUME NEW n \in Node, KeepPending(n) \/ DropPending(n), GoesOn PROVE AllHaveTried'
  BY <1>3, WalkLeavesAllTried
<1>4. ASSUME NEW n \in Node, AcquireResources(n) \/ FailToAcquire(n) PROVE AllHaveTried'
  BY <1>4, AcquisitionLeavesAllTried
<1>5. ASSUME NEW n \in Node, TransitionNode(n) PROVE AllHaveTried'
  BY <1>5, TransitionLeavesAllTried
<1>6. ASSUME NEW n \in Node,
             \/ ExecuteAssignment(n) \/ RetractAssignment(n) \/ ExecuteCommand(n)
             \/ InvokeAbort(n) \/ ExecuteUpdate(n)
      PROVE  AllHaveTried'
  BY <1>6, SendingLeavesAllTried
<1>7. CASE World
  <2>1. phase' = "idle" /\ phase = "idle" /\ UNCHANGED <<holder, pendingQueue>>
    BY <1>7 DEF World, WorldUnchanged, AddPlan, DeleteFinishedPlans, LookupReturn, resourceVars,
         CommandHandleReturn, CommandReturn, CommandAbortAcknowledge, UpdateAcknowledge
  <2> QED  BY <2>1 DEF AllHaveTried, AllBlocked, Blocked
<1>8. CASE AllChecked \/ GroupDone \/ BatchDone \/ StepDone \/ StartStep
  BY <1>8, PhasesLeaveAllTried
<1>9. ASSUME Next, GoesOn PROVE AllHaveTried'
  BY <1>2, <1>3, <1>4, <1>5, <1>6, <1>7, <1>8, <1>9 DEF Next, Step
<1> QED  BY <1>1, <1>9

\* When the executive comes to rest, each node on the pending queue needs a resource that
\* a node which runs is holding: nobody waits for what is free, and nobody for a node that
\* waits itself, so that the nodes never all wait for one another.  It takes that no walk
\* over the queue stops at a node after which the step has nothing more to do.
THEOREM NobodyWaitsInVain ==
  Spec /\ NoMutexKept /\ WalksGoOn =>
    [](Quiescent => \A n \in ToSet(pendingQueue) :
         \E r \in Resources(n) : holder[r] # None /\ state[holder[r]] \in Running)
<1>1. Init => PrioritiesAreSound /\ AllEndAlone /\ AllHaveTried
  <2>1. Init => PrioritiesAreSound
    BY DEF Init, PrioritiesAreSound, InPriorityOrder, WaitersAreBlocked, PassedAreBlocked,
           Precedes, ToSet
  <2>2. Init => AllEndAlone
    BY DEF Init, AllEndAlone, EndsAlone, NoTransition, ToState, To, ParentEnded, Running
  <2>3. Init => AllHaveTried
    BY DEF Init, AllHaveTried, AllBlocked, ToSet
  <2> QED  BY <2>1, <2>2, <2>3
<1>2. TypeOK /\ QueuesAreSound /\ HoldersAreSound => PendingHoldNothing
  <2>1. SUFFICES ASSUME TypeOK, QueuesAreSound, HoldersAreSound,
                        NEW n \in ToSet(pendingQueue), NEW r \in Resource, holder[r] = n
                 PROVE  FALSE
    BY DEF PendingHoldNothing
  <2>2. n \in Node /\ n # None
    BY <2>1, ElementFacts, PlanAssumption DEF TypeOK
  <2>3. state[n] = "WAITING" /\ n \notin ToSet(stateChangeQueue)
    BY <2>1 DEF QueuesAreSound, PendingIsSound, IsPending
  <2> QED  BY <2>1, <2>2, <2>3 DEF HoldersAreSound, HolderIsSound, Running
<1>3. TypeOK /\ AllEndAlone /\ [Next]_vars => AllEndAlone'
  BY AllStayAlone
<1>4. TypeOK /\ QueuesAreSound /\ FinishedAreSound /\ PrioritiesAreSound /\ PendingHoldNothing
        /\ [Next]_vars => PrioritiesAreSound'
  BY PrioritiesStaySound
<1>5. TypeOK /\ QueuesAreSound /\ QueuesAreSound' /\ PrioritiesAreSound /\ HoldersAreSound
        /\ PendingHoldNothing /\ AllEndAlone /\ AllHaveTried /\ [Next]_vars /\ [GoesOn]_vars
        => AllHaveTried'
  BY AllStayTried
<1>6. TypeOK /\ QueuesAreSound /\ HoldersAreSound /\ AllHaveTried =>
        (Quiescent => \A n \in ToSet(pendingQueue) :
           \E r \in Resources(n) : holder[r] # None /\ state[holder[r]] \in Running)
  <2>1. SUFFICES ASSUME TypeOK, QueuesAreSound, HoldersAreSound, AllHaveTried, Quiescent,
                        NEW n \in ToSet(pendingQueue)
                 PROVE  \E r \in Resources(n) : holder[r] # None /\ state[holder[r]] \in Running
    OBVIOUS
  <2>2. phase = "effects" /\ candidateQueue = <<>> /\ n \in Node
    BY <2>1, ElementFacts DEF Quiescent, Performed, TypeOK
  <2>3. Blocked(n) /\ stateChangeQueue = <<>>
    BY <2>1, <2>2 DEF AllHaveTried, AllBlocked, QueuesAreSound, ChangesAreSound
  <2>4. PICK r \in Resources(n) : holder[r] # None
    BY <2>3 DEF Blocked
  <2>5. state[holder[r]] \in Running
    <3>1. ToSet(stateChangeQueue) = {}
      BY <2>3 DEF ToSet
    <3> QED  BY <2>1, <2>2, <2>4, <3>1, ResourcesAreResources DEF HoldersAreSound, HolderIsSound
  <2> QED  BY <2>4, <2>5
<1> QED
  BY <1>1, <1>2, <1>3, <1>4, <1>5, <1>6, TypeCorrect, SoundQueuesAlways, FinishedAlways,
     HoldersAlways, PTL DEF Spec, WalksGoOn

-----------------------------------------------------------------------------
(* Changes.  A node that no queue has stays where it is: what could move   *)
(* it would have told it.                                                  *)

\* A node that inherits a condition inherits it by way of its nearest ancestor that has one.
LEMMA NearestInherited ==
  ASSUME NEW n \in Node, NEW c, Inherits(n, c) # {}
  PROVE  \E a \in Inherits(n, c) : Inherits(n, c) \subseteq Ancestors[a] \cup {a}
<1> DEFINE Near(m) == \E a \in Inherits(m, c) : Inherits(m, c) \subseteq Ancestors[a] \cup {a}
           Fine == {m \in Node : Inherits(m, c) # {} => Near(m)}
<1>1. ASSUME NEW m \in Node, IsRoot(m) \/ Parent[m] \in Fine PROVE m \in Fine
  <2>1. CASE IsRoot(m)
    BY <2>1, AncestorsAre DEF Inherits
  <2>2. CASE ~IsRoot(m) /\ Has(Parent[m], c)
    <3>1. Parent[m] \in Inherits(m, c) /\ Inherits(m, c) \subseteq Ancestors[Parent[m]] \cup {Parent[m]}
      BY <2>2, ParentFacts DEF Inherits
    <3> QED  BY <3>1
  <2>3. CASE ~IsRoot(m) /\ ~Has(Parent[m], c)
    <3>1. Inherits(m, c) = Inherits(Parent[m], c)
      BY <2>3, ParentFacts DEF Inherits
    <3> QED  BY <1>1, <2>3, <3>1
  <2> QED  BY <2>1, <2>2, <2>3
<1>2. Fine \in SUBSET Node
  OBVIOUS
<1> HIDE DEF Fine
<1>3. Fine = Node
  BY <1>1, <1>2, DownTheTree
<1> QED  BY <1>3 DEF Fine

\* A node inside a list that runs hears of what it inherits.
LEMMA HearsAncestors ==
  ASSUME NEW n \in Node, ~IsRoot(n), state[Parent[n]] \in Running,
         NEW c \in {"exit", "invariant", "end"}, NEW a \in Inherits(n, c),
         NEW source, Reads(condition[a][c], source)
  PROVE  n \in Listeners(source)
<1>1. PICK b \in Inherits(n, c) : Inherits(n, c) \subseteq Ancestors[b] \cup {b}
  BY NearestInherited
<1>2. b = Parent[n] \/ b \in Ancestors[Parent[n]]
  BY <1>1, ParentFacts DEF Inherits
<1>3. KeptActive(b, c)
  BY <1>2, ParentFacts DEF KeptActive
<1>4. AncestorActive(n, c)
  BY <1>1, <1>3 DEF AncestorActive
<1> QED  BY <1>4 DEF Listeners

LEMMA HearsOwn ==
  ASSUME NEW n \in Node, NEW c \in ConditionName, state[n] \in ActiveStates(c), Has(n, c),
         NEW source, Reads(condition[n][c], source)
  PROVE  n \in Listeners(source)
BY DEF Listeners, Active

\* What the values of its conditions are while a node stays where it is.
AncestorsQuiet(n) ==
  \A a \in Ancestors[n] : /\ Value(condition[a]["exit"]) # "T"
                          /\ Value(condition[a]["invariant"]) # "F"

AncestorsGoOn(n) ==
  \A a \in Ancestors[n] : condition[a]["end"].kind # "default" => Value(condition[a]["end"]) # "T"

Undecided(n, c) == Value(condition[n][c]) # "T"

Uninterrupted(n) == /\ AncestorsQuiet(n) /\ Undecided(n, "exit")
                    /\ Value(condition[n]["invariant"]) # "F"

Settled(n) ==
  /\ state[n] = "INACTIVE" => ~IsRoot(n) /\ state[Parent[n]] \notin {"EXECUTING", "FINISHED"}
  /\ state[n] = "WAITING" => /\ AncestorsQuiet(n) /\ AncestorsGoOn(n) /\ Undecided(n, "exit")
                             /\ Undecided(n, "skip") /\ Undecided(n, "start")
  /\ state[n] = "EXECUTING" => \/ Type[n] = "Assignment" /\ ~ack[n]
                               \/ Uninterrupted(n) /\ EndCondition(n) # "T"
  /\ state[n] = "FINISHING" => Uninterrupted(n) /\ ActionComplete(n) # "T"
  /\ state[n] = "FAILING" => IF Type[n] \in {"Assignment", "Command"} THEN ~abortComplete[n]
                             ELSE ActionComplete(n) # "T"
  /\ state[n] = "ITERATION_ENDED" => /\ AncestorsQuiet(n) /\ AncestorsGoOn(n)
                                     /\ Value(condition[n]["repeat"]) = "U"
  /\ state[n] = "FINISHED" => IsRoot(n) \/ state[Parent[n]] # "WAITING"

LEMMA SettledMeans ==
  ASSUME TypeOK, NEW n \in Node
  PROVE  Evaluated(n).state = "NO_STATE" <=> Settled(n)
<1> DEFINE c == ValuesOf(n)
           d == DestState(Type[n], state[n], c)
<1>1. /\ AncestorsQuiet(n) <=> c.ancestorExit # "T" /\ c.ancestorInvariant # "F"
      /\ AncestorsGoOn(n) <=> c.ancestorEnd # "T"
  <2>1. \A vs : (AnyOf(vs) = "T" <=> "T" \in vs) /\ (AllOf(vs) = "F" <=> "F" \in vs)
    BY DEF AnyOf, AllOf
  <2>2. AncestorsQuiet(n) <=> AncestorExit(n) # "T" /\ AncestorInvariant(n) # "F"
    BY <2>1 DEF AncestorsQuiet, AncestorExit, AncestorInvariant
  <2>3. AncestorsGoOn(n) <=> AncestorEnd(n) # "T"
    BY <2>1 DEF AncestorsGoOn, AncestorEnd
  <2> QED  BY <2>2, <2>3 DEF ValuesOf
<1>2. /\ c.exit = Value(condition[n]["exit"]) /\ c.invariant = Value(condition[n]["invariant"])
      /\ c.skip = Value(condition[n]["skip"]) /\ c.start = Value(condition[n]["start"])
      /\ c.repeat = Value(condition[n]["repeat"]) /\ c.end = EndCondition(n)
      /\ c.actionComplete = ActionComplete(n) /\ c.abortComplete = Truth(abortComplete[n])
      /\ c.parent = IF IsRoot(n) THEN "NONE" ELSE state[Parent[n]]
  BY DEF ValuesOf
<1>3. Type[n] \in NodeType /\ state[n] \in NodeState
      /\ (~IsRoot(n) => state[Parent[n]] \in NodeState)
  BY PlanAssumption DEF TypeOK, IsRoot
<1>4. Type[n] = "Assignment" => (c.actionComplete # "T" <=> ~ack[n])
  BY <1>2 DEF ActionComplete, Truth
<1>5. c.abortComplete # "T" <=> ~abortComplete[n]
  BY <1>2 DEF Truth
<1>6. Evaluated(n).state = d.state
  BY DEF Evaluated, c, d
<1> HIDE DEF c
<1>7. d.state = "NO_STATE" <=> Settled(n)
  <2> USE DEF To, ToState, NoTransition, Settled, Undecided, Uninterrupted
  <2>1. CASE state[n] = "EXECUTING"
    BY <1>1, <1>2, <1>3, <1>4, <2>1 DEF DestState, FromExecuting, Interrupted, InterruptedTo,
       IterationOver
  <2>2. CASE state[n] = "FINISHING"
    BY <1>1, <1>2, <2>2 DEF DestState, FromFinishing, Interrupted, InterruptedTo, IterationOver
  <2>3. CASE state[n] = "FAILING"
    BY <1>2, <1>5, <2>3 DEF DestState, FromFailing
  <2>4. CASE state[n] = "INACTIVE"
    BY <1>2, <1>3, <2>4 DEF DestState, FromInactive, NodeState
  <2>5. CASE state[n] = "WAITING"
    BY <1>1, <1>2, <2>5 DEF DestState, FromWaiting
  <2>6. CASE state[n] = "ITERATION_ENDED"
    BY <1>1, <1>2, <2>6 DEF DestState, FromIterationEnded
  <2>7. CASE state[n] = "FINISHED"
    BY <1>2, <1>3, <2>7 DEF DestState, FromFinished, NodeState
  <2> QED  BY <1>3, <2>1, <2>2, <2>3, <2>4, <2>5, <2>6, <2>7 DEF NodeState
<1> QED  BY <1>6, <1>7

\* A change leaves the value of the condition c of a alone, or makes it unknown.
Fades(a, c) == Value(condition[a][c])' \in {Value(condition[a][c]), "U"}

\* What may change without m being told: nothing that decides whether m stays where it is,
\* unless it becomes unknown.
ToldElse(m) ==
  /\ UNCHANGED <<condition, state[m], ack[m], abortComplete[m]>>
  /\ Type[m] = "Command" /\ state[m] \in {"EXECUTING", "FINISHING"} /\ handle'[m] # handle[m] =>
       state[m] = "EXECUTING" /\ condition[m]["end"] = [kind |-> "constant", of |-> "T"]
  /\ Type[m] = "List" /\ (\/ state[m] \in {"FINISHING", "FAILING"}
                          \/ state[m] = "EXECUTING" /\ condition[m]["end"].kind = "default") =>
       \A n \in Children(m) : state'[n] = state[n]
  /\ ~IsRoot(m) /\ state'[Parent[m]] # state[Parent[m]] =>
       /\ state[m] = "INACTIVE" => state'[Parent[m]] \notin {"EXECUTING", "FINISHED"}
       /\ state[m] = "FINISHED" => state'[Parent[m]] # "WAITING"
  /\ \A c \in ConditionName : state[m] \in ActiveStates(c) /\ condition[m][c].kind # "default"
       => Fades(m, c)
  /\ state[m] \notin {"INACTIVE", "FINISHED"} =>
       \A a \in Ancestors[m], c \in {"exit", "invariant", "end"} :
         condition[a][c].kind # "default" => Fades(a, c)

LEMMA StillSettled ==
  ASSUME TypeOK, ConditionsStay, NEW m \in Node, Settled(m), ToldElse(m)
  PROVE  Settled(m)'
<1>1. /\ condition' = condition /\ state'[m] = state[m] /\ ack'[m] = ack[m]
      /\ abortComplete'[m] = abortComplete[m]
  BY DEF ToldElse
<1>2. \A n \in Node, c \in ConditionName : condition[n][c].kind = "default" =>
        c = "end" /\ Type[n] = "List"
  BY ConditionsAssumption DEF ConditionsStay
<1>3. state[m] \notin {"INACTIVE", "FINISHED"} =>
        /\ AncestorsQuiet(m) => AncestorsQuiet(m)'
        /\ AncestorsGoOn(m) => AncestorsGoOn(m)'
  <2>1. SUFFICES ASSUME state[m] \notin {"INACTIVE", "FINISHED"}
                 PROVE  /\ AncestorsQuiet(m) => AncestorsQuiet(m)'
                        /\ AncestorsGoOn(m) => AncestorsGoOn(m)'
    OBVIOUS
  <2>2. \A a \in Ancestors[m], c \in {"exit", "invariant", "end"} :
          condition[a][c].kind # "default" => Fades(a, c)
    BY <2>1 DEF ToldElse
  <2>3. \A a \in Ancestors[m] : Fades(a, "exit") /\ Fades(a, "invariant")
    BY <1>2, <2>2, AncestorFacts DEF ConditionName
  <2>4. \A a \in Ancestors[m] : condition[a]["end"].kind # "default" => Fades(a, "end")
    BY <2>2
  <2>5. AncestorsQuiet(m) => AncestorsQuiet(m)'
    BY <1>1, <2>3 DEF AncestorsQuiet, Fades
  <2>6. AncestorsGoOn(m) => AncestorsGoOn(m)'
    BY <1>1, <2>4 DEF AncestorsGoOn, Fades
  <2> QED  BY <2>5, <2>6
<1>4. \A c \in ConditionName \ {"end"} : state[m] \in ActiveStates(c) => Fades(m, c)
  BY <1>2 DEF ToldElse
<1>5. /\ state[m] \in {"WAITING", "EXECUTING", "FINISHING"} => Fades(m, "exit")
      /\ state[m] \in {"EXECUTING", "FINISHING"} => Fades(m, "invariant")
      /\ state[m] = "WAITING" => Fades(m, "skip") /\ Fades(m, "start")
      /\ state[m] = "ITERATION_ENDED" => Fades(m, "repeat")
  BY <1>4 DEF ConditionName, ActiveStates
<1>6. state[m] \in {"EXECUTING", "FINISHING"} /\ Uninterrupted(m) => Uninterrupted(m)'
  BY <1>1, <1>3, <1>5 DEF Uninterrupted, Undecided, Fades
<1>7. state[m] = "EXECUTING" /\ EndCondition(m) # "T" => EndCondition(m)' # "T"
  <2> SUFFICES ASSUME state[m] = "EXECUTING", EndCondition(m) # "T" PROVE EndCondition(m)' # "T"
    OBVIOUS
  <2> DEFINE given == condition[m]["end"]
  <2>1. CASE given.kind = "default"
    <3>1. Type[m] = "List"
      BY <1>2, <2>1 DEF ConditionName
    <3>2. \A n \in Children(m) : state'[n] = state[n]
      BY <2>1, <3>1 DEF ToldElse
    <3>3. AllFinished(m)' = AllFinished(m)
      BY <3>2 DEF AllFinished, Children
    <3>4. /\ EndCondition(m) = IF AllFinished(m) THEN "T" ELSE "F"
          /\ EndCondition(m)' = IF AllFinished(m)' THEN "T" ELSE "F"
      BY <1>1, <2>1, <3>1 DEF EndCondition, Truth
    <3> QED  BY <3>3, <3>4
  <2>2. CASE given.kind # "default"
    <3>1. Fades(m, "end")
      BY <2>2 DEF ToldElse, ActiveStates, ConditionName
    <3>2. Value(given)' \in {Value(given), "U"}
      BY <1>1, <3>1 DEF Fades
    <3>3. CASE Type[m] = "Command"
      <4>1. /\ EndCondition(m) = AnyOf({Truth(handle[m] = "COMMAND_FAILED"), Value(given)})
            /\ EndCondition(m)' = AnyOf({Truth(handle'[m] = "COMMAND_FAILED"), Value(given)'})
        BY <1>1, <2>2, <3>3 DEF EndCondition, Truth, AnyOf
      <4>2. handle'[m] = handle[m]
        <5>1. given = [kind |-> "constant", of |-> "T"] => Value(given) = "T"
          BY DEF Value
        <5>2. Value(given) # "T"
          BY <4>1 DEF AnyOf
        <5> QED  BY <3>3, <5>1, <5>2 DEF ToldElse
      <4> QED  BY <3>2, <4>1, <4>2 DEF AnyOf, Truth
    <3>4. CASE Type[m] = "Update"
      <4>1. /\ EndCondition(m) = AllOf({Truth(ack[m]), Value(given)})
            /\ EndCondition(m)' = AllOf({Truth(ack'[m]), Value(given)'})
        BY <1>1, <2>2, <3>4 DEF EndCondition, Truth, AllOf
      <4> QED  BY <1>1, <3>2, <4>1 DEF AllOf, Truth
    <3>5. CASE Type[m] \notin {"Command", "Update"}
      <4>1. EndCondition(m) = Value(given) /\ EndCondition(m)' = Value(given)'
        BY <1>1, <2>2, <3>5 DEF EndCondition
      <4> QED  BY <3>2, <4>1
    <3> QED  BY <3>3, <3>4, <3>5
  <2> QED  BY <2>1, <2>2
<1>8. \/ state[m] = "FINISHING"
      \/ state[m] = "FAILING" /\ Type[m] \notin {"Assignment", "Command"}
      => ActionComplete(m)' = ActionComplete(m)
  <2> SUFFICES ASSUME \/ state[m] = "FINISHING"
                      \/ state[m] = "FAILING" /\ Type[m] \notin {"Assignment", "Command"}
               PROVE  ActionComplete(m)' = ActionComplete(m)
    OBVIOUS
  <2>1. CASE Type[m] = "List"
    <3>1. \A n \in Children(m) : state'[n] = state[n]
      BY <2>1 DEF ToldElse
    <3>2. AllWaitingOrFinished(m)' = AllWaitingOrFinished(m)
      BY <3>1 DEF AllWaitingOrFinished, Children
    <3> QED  BY <2>1, <3>2 DEF ActionComplete, Truth
  <2>2. CASE Type[m] = "Command"
    <3>1. handle'[m] = handle[m]
      BY <2>2 DEF ToldElse
    <3> QED  BY <2>2, <3>1 DEF ActionComplete, Truth
  <2>3. CASE Type[m] \notin {"List", "Command"}
    BY <1>1, <2>3 DEF ActionComplete, Truth
  <2> QED  BY <2>1, <2>2, <2>3
<1>9. state[m] = "WAITING" /\ Settled(m) => Undecided(m, "exit")' /\ Undecided(m, "skip")'
                                            /\ Undecided(m, "start")'
  BY <1>1, <1>5 DEF Settled, Undecided, Fades
<1>10. state[m] = "ITERATION_ENDED" => Value(condition[m]["repeat"])' = "U"
  BY <1>1, <1>5 DEF Settled, Fades
<1>11. /\ state[m] = "INACTIVE" => ~IsRoot(m) /\ state'[Parent[m]] \notin {"EXECUTING", "FINISHED"}
       /\ state[m] = "FINISHED" => IsRoot(m) \/ state'[Parent[m]] # "WAITING"
  BY DEF Settled, ToldElse
<1> QED  BY <1>1, <1>3, <1>6, <1>7, <1>8, <1>9, <1>10, <1>11 DEF Settled

\* Between the loops' steps a node that no queue has, of a plan that is loaded, stays where
\* it is.
NothingMissed ==
  \A n \in Node : n \notin deleted /\ queueStatus[n] = "NONE" /\ (IsRoot(n) => n \in plan)
    => Settled(n)

\* A node that has begun and has not finished, and that no queue has, is inside a list that
\* runs.
LivesInside(n) == ~IsRoot(n) /\ state[n] \notin {"INACTIVE", "FINISHED"} =>
                    state[Parent[n]] \in Running

AtRestInside == \A n \in Node : queueStatus[n] = "NONE" => LivesInside(n)

LEMMA NotToldMeans ==
  ASSUME NEW q, NEW S \in SUBSET Node, NEW m \in Node, Notify(q, S).status[m] = "NONE"
  PROVE  q.status[m] = "NONE" /\ m \notin S
BY DEF Notify, Notified

\* Who does not listen reads nothing there.
LEMMA Unheard ==
  ASSUME TypeOK, NEW m \in Node, LivesInside(m), NEW source,
         source.kind \notin {"constant", "default"}, m \notin Listeners(source)
  PROVE  /\ \A c \in ConditionName :
              state[m] \in ActiveStates(c) => ~Reads(condition[m][c], source)
         /\ state[m] \notin {"INACTIVE", "FINISHED"} =>
              \A a \in Ancestors[m], c \in {"exit", "invariant", "end"} :
                ~Reads(condition[a][c], source)
<1>1. ASSUME NEW c \in ConditionName, state[m] \in ActiveStates(c), Reads(condition[m][c], source)
      PROVE  FALSE
  <2>1. Has(m, c)
    BY <1>1 DEF Has, Reads
  <2> QED  BY <1>1, <2>1, HearsOwn
<1>2. ASSUME state[m] \notin {"INACTIVE", "FINISHED"}, NEW a \in Ancestors[m],
             NEW c \in {"exit", "invariant", "end"}, Reads(condition[a][c], source)
      PROVE  FALSE
  <2>1. ~IsRoot(m)
    BY <1>2, AncestorsAre
  <2>2. state[Parent[m]] \in Running
    BY <1>2, <2>1 DEF LivesInside
  <2>3. a \in Inherits(m, c)
    BY <1>2 DEF Inherits, Has, Reads
  <2> QED  BY <1>2, <2>1, <2>2, <2>3, HearsAncestors
<1> QED  BY <1>1, <1>2

LEMMA SameValue ==
  ASSUME UNCHANGED <<condition, state>>, NEW a, NEW c,
         condition[a][c].kind = "lookup" => lookup'[condition[a][c].of] = lookup[condition[a][c].of],
         condition[a][c].kind = "variable" => value'[condition[a][c].of] = value[condition[a][c].of]
  PROVE  Value(condition[a][c])' = Value(condition[a][c])
<1> DEFINE e == condition[a][c]
<1>1. condition'[a][c] = condition[a][c] /\ state' = state
  OBVIOUS
<1>2. VariableActive(e.of)' <=> VariableActive(e.of)
  BY <1>1 DEF VariableActive
<1>3. CASE e.kind = "constant"
  BY <1>1, <1>3 DEF Value
<1>4. CASE e.kind = "lookup"
  BY <1>1, <1>4 DEF Value
<1>5. CASE e.kind = "variable"
  BY <1>1, <1>2, <1>5 DEF Value
<1>6. CASE e.kind \notin {"constant", "lookup", "variable"}
  BY <1>1, <1>6 DEF Value, Truth
<1> QED  BY <1>3, <1>4, <1>5, <1>6

\* A step that changes no value.
LEMMA NoValueChanges ==
  ASSUME TypeOK, ConditionsStay, UNCHANGED <<condition, state, lookup, value>>,
         \A m \in Node : m \notin deleted' /\ queueStatus'[m] = "NONE" /\ (IsRoot(m) => m \in plan')
           => /\ Settled(m)
              /\ UNCHANGED <<ack[m], abortComplete[m]>>
              /\ \/ handle'[m] = handle[m] \/ state[m] \notin {"EXECUTING", "FINISHING"}
                 \/ /\ state[m] = "EXECUTING"
                    /\ condition[m]["end"] = [kind |-> "constant", of |-> "T"]
  PROVE  NothingMissed'
<1>1. SUFFICES ASSUME NEW m \in Node, m \notin deleted', queueStatus'[m] = "NONE",
                      IsRoot(m) => m \in plan'
               PROVE  Settled(m)'
  BY DEF NothingMissed
<1>2. \A a, c : Fades(a, c)
  BY SameValue DEF Fades
<1>3. Settled(m) /\ ToldElse(m)
  BY <1>1, <1>2 DEF ToldElse
<1> QED  BY <1>3, StillSettled

\* A step that changes what some conditions read, and tells those who listen.
LEMMA WhoListensIsTold ==
  ASSUME TypeOK, ConditionsStay, NothingMissed, AtRestInside,
         UNCHANGED <<condition, state, handle, plan, deleted>>,
         NEW source, source.kind \in {"lookup", "variable"},
         \A a \in Node, c \in ConditionName : ~Reads(condition[a][c], source) =>
           Value(condition[a][c])' = Value(condition[a][c]),
         \A m \in Node : queueStatus'[m] = "NONE" /\ m \notin deleted =>
           /\ queueStatus[m] = "NONE" /\ UNCHANGED <<ack[m], abortComplete[m]>>
           /\ m \notin Listeners(source) \/ \A a \in Node, c \in ConditionName : Fades(a, c)
  PROVE  NothingMissed'
<1>1. SUFFICES ASSUME NEW m \in Node, m \notin deleted', queueStatus'[m] = "NONE",
                      IsRoot(m) => m \in plan'
               PROVE  Settled(m)'
  BY DEF NothingMissed
<1>2. queueStatus[m] = "NONE" /\ Settled(m) /\ LivesInside(m)
  BY <1>1 DEF NothingMissed, AtRestInside
<1>3. {"exit", "invariant", "end"} \subseteq ConditionName /\ Ancestors[m] \subseteq Node
  BY AncestorFacts DEF ConditionName
<1>4. /\ \A c \in ConditionName : state[m] \in ActiveStates(c) => Fades(m, c)
      /\ state[m] \notin {"INACTIVE", "FINISHED"} =>
           \A a \in Ancestors[m], c \in {"exit", "invariant", "end"} : Fades(a, c)
  <2>1. CASE m \notin Listeners(source)
    BY <1>2, <1>3, <2>1, Unheard DEF Fades
  <2>2. CASE \A a \in Node, c \in ConditionName : Fades(a, c)
    BY <1>3, <2>2
  <2> QED  BY <1>1, <2>1, <2>2
<1>5. UNCHANGED <<ack[m], abortComplete[m]>>
  BY <1>1
<1>6. ToldElse(m)
  BY <1>4, <1>5 DEF ToldElse
<1> QED  BY <1>2, <1>6, StillSettled

\* What the checks of conditions and resources do to the status of the node they are about,
\* and to the state change queue.
LEMMA CheckCandidateStatus ==
  ASSUME TypeOK, QueuesAreSound, FinishedAreSound, NEW n \in Node, CheckCandidate(n)
  PROVE  /\ OthersStay(n) /\ next'[n] = Evaluated(n) /\ queueStatus[n] = "CHECK"
         /\ \A m \in Node \ {n} : next'[m] = next[m]
         /\ \/ /\ Evaluated(n).state = "NO_STATE" /\ queueStatus'[n] = "NONE"
               /\ UNCHANGED <<pendingQueue, stateChangeQueue>>
            \/ /\ Evaluated(n).state # "NO_STATE" /\ queueStatus'[n] = "TRANSITION"
               /\ Evaluated(n).state = "EXECUTING" => Resources(n) = {}
               /\ ToSet(stateChangeQueue') = ToSet(stateChangeQueue) \cup {n}
               /\ UNCHANGED pendingQueue
            \/ /\ Evaluated(n).state = "EXECUTING" /\ Resources(n) # {}
               /\ queueStatus'[n] = "PENDING_TRY"
               /\ ToSet(pendingQueue') = ToSet(pendingQueue) \cup {n}
               /\ UNCHANGED stateChangeQueue
<1> DEFINE popped == [queues EXCEPT !.status[n] = "NONE", !.candidates = Tail(@)]
           q == Checked(popped, n)
<1>1. OthersStay(n) /\ queueStatus[n] = "CHECK"
  <2>1. n \in ToSet(candidateQueue)
    BY TailFacts DEF CheckCandidate, TypeOK
  <2> QED  BY <2>1, CheckCandidateRefusesNone DEF QueuesAreSound, CandidatesAreSound
<1>2. popped.status = [queueStatus EXCEPT ![n] = "NONE"]
  BY DEF queues
<1> HIDE DEF popped
<1>3. Differ(queueStatus, q.status, n, "NONE")
  <2>1. q.status = popped.status
    BY CheckedKeeps
  <2> QED  BY <2>1, <1>2, StatusNow DEF QueueStatus, Differ
<1>4. /\ next' = [next EXCEPT ![n] = Evaluated(n)]
      /\ \/ /\ next'[n].state = "NO_STATE" /\ QueuesBecome(q)
            /\ UNCHANGED <<pendingQueue, stateChangeQueue>>
         \/ /\ next'[n].state # "NO_STATE" /\ ~ResourceCheckRequired(n)
            /\ QueuesBecome(StateChangeStatus(q, n))
            /\ stateChangeQueue' = Append(stateChangeQueue, n) /\ UNCHANGED pendingQueue
         \/ /\ ResourceCheckRequired(n) /\ QueuesBecome(WithStatus(q, n, "PENDING_TRY"))
            /\ \E i \in Places(pendingQueue, n) : pendingQueue' = InsertAt(pendingQueue, i, n)
            /\ UNCHANGED stateChangeQueue
  BY DEF CheckCandidate, q, popped
<1> HIDE DEF q
<1>5. next'[n] = Evaluated(n) /\ \A m \in Node \ {n} : next'[m] = next[m]
  BY <1>4 DEF TypeOK
<1>6. q.status \in [Node -> QueueStatus] /\ q.status[n] = "NONE"
  BY <1>3 DEF Differ
<1>7. CASE next'[n].state = "NO_STATE" /\ QueuesBecome(q)
           /\ UNCHANGED <<pendingQueue, stateChangeQueue>>
  BY <1>1, <1>5, <1>6, <1>7 DEF QueuesBecome
<1>8. CASE /\ next'[n].state # "NO_STATE" /\ ~ResourceCheckRequired(n)
           /\ QueuesBecome(StateChangeStatus(q, n))
           /\ stateChangeQueue' = Append(stateChangeQueue, n) /\ UNCHANGED pendingQueue
  <2>1. queueStatus'[n] = "TRANSITION"
    BY <1>6, <1>8, Queueable DEF QueuesBecome, Differ
  <2>2. ToSet(stateChangeQueue') = ToSet(stateChangeQueue) \cup {n}
    BY <1>8, AppendFacts DEF TypeOK
  <2> QED  BY <1>1, <1>5, <1>8, <2>1, <2>2 DEF ResourceCheckRequired
<1>9. CASE /\ ResourceCheckRequired(n) /\ QueuesBecome(WithStatus(q, n, "PENDING_TRY"))
           /\ \E i \in Places(pendingQueue, n) : pendingQueue' = InsertAt(pendingQueue, i, n)
           /\ UNCHANGED stateChangeQueue
  <2>1. queueStatus'[n] = "PENDING_TRY"
    BY <1>6, <1>9, WithStatusIs, OtherStatuses DEF QueuesBecome, Differ
  <2>2. ToSet(pendingQueue') = ToSet(pendingQueue) \cup {n}
    BY <1>9, InsertFacts DEF TypeOK, Places
  <2> QED  BY <1>1, <1>5, <1>9, <2>1, <2>2 DEF ResourceCheckRequired
<1> QED  BY <1>4, <1>7, <1>8, <1>9

LEMMA KeepPendingStatus ==
  ASSUME TypeOK, QueuesAreSound, FinishedAreSound, NEW n \in Node, KeepPending(n)
  PROVE  /\ OthersStay(n) /\ n \in ToSet(pendingQueue)
         /\ queueStatus[n] \in PendingStatus /\ queueStatus'[n] \in PendingStatus
         /\ UNCHANGED <<pendingQueue, stateChangeQueue>>
         /\ \A m \in Node : next'[m].state = next[m].state
<1>1. n \in ToSet(pendingQueue)
  BY WalkFacts DEF KeepPending
<1>2. queueStatus[n] \in PendingStatus /\ next[n].state = "EXECUTING"
  BY <1>1 DEF QueuesAreSound, PendingIsSound, IsPending
<1>3. queueStatus' \in {queueStatus, [queueStatus EXCEPT ![n] = "PENDING"]}
  BY DEF KeepPending
<1>4. queueStatus'[n] \in PendingStatus
  BY <1>2, <1>3 DEF TypeOK, PendingStatus
<1>5. \A m \in Node : next'[m].state = next[m].state
  <2>1. \/ UNCHANGED next
        \/ next' = [next EXCEPT ![n] = Evaluated(n)] /\ next'[n].state = "EXECUTING"
    BY DEF KeepPending
  <2> QED  BY <1>2, <2>1 DEF TypeOK
<1> QED  BY <1>1, <1>2, <1>4, <1>5, KeepPendingRefusesNone DEF KeepPending

LEMMA DropPendingStatus ==
  ASSUME TypeOK, QueuesAreSound, FinishedAreSound, NEW n \in Node, DropPending(n)
  PROVE  /\ OthersStay(n) /\ n \in ToSet(pendingQueue) /\ next'[n] = Evaluated(n)
         /\ Evaluated(n).state # "EXECUTING"
         /\ \A m \in Node \ {n} : next'[m] = next[m]
         /\ ToSet(pendingQueue') = ToSet(pendingQueue) \ {n}
         /\ \/ /\ Evaluated(n).state = "NO_STATE" /\ queueStatus'[n] \in {"NONE", "PENDING"}
               /\ UNCHANGED stateChangeQueue
            \/ /\ Evaluated(n).state # "NO_STATE" /\ queueStatus'[n] \in {"TRANSITION", "PENDING"}
               /\ ToSet(stateChangeQueue') = ToSet(stateChangeQueue) \cup {n}
<1> DEFINE q == WithStatus(Checked(queues, n), n, "NONE")
           moved == IF next'[n].state = "NO_STATE" THEN q ELSE StateChangeStatus(q, n)
           new == IF queueStatus[n] = "PENDING_CHECK" THEN WithStatus(moved, n, "PENDING")
                  ELSE moved
<1>1. n \in ToSet(pendingQueue)
  BY WalkFacts DEF DropPending
<1>2. Differ(queueStatus, q.status, n, "NONE")
  <2>1. Checked(queues, n).status = queueStatus
    BY StatusNow, CheckedKeeps
  <2> QED  BY <2>1, StatusNow, WithStatusIs, OtherStatuses
<1>3. /\ next' = [next EXCEPT ![n] = Evaluated(n)] /\ next'[n].state # "EXECUTING"
      /\ pendingQueue' = Without(pendingQueue, n) /\ QueuesBecome(new)
      /\ stateChangeQueue' = IF next'[n].state = "NO_STATE" THEN stateChangeQueue
                             ELSE Append(stateChangeQueue, n)
  BY DEF DropPending, new, moved, q
<1> HIDE DEF q
<1>4. next'[n] = Evaluated(n) /\ \A m \in Node \ {n} : next'[m] = next[m]
  BY <1>3 DEF TypeOK
<1>5. ToSet(pendingQueue') = ToSet(pendingQueue) \ {n}
  BY <1>1, <1>3, WithoutFacts DEF TypeOK, QueuesAreSound, PendingIsSound
<1>6. /\ moved.status \in [Node -> QueueStatus]
      /\ moved.status[n] = IF next'[n].state = "NO_STATE" THEN "NONE" ELSE "TRANSITION"
  <2>1. q.status \in [Node -> QueueStatus] /\ q.status[n] = "NONE"
    BY <1>2 DEF Differ
  <2>2. Differ(q.status, StateChangeStatus(q, n).status, n, "TRANSITION")
    BY <2>1, Queueable
  <2> QED  BY <2>1, <2>2 DEF Differ
<1> HIDE DEF moved
<1>7. queueStatus'[n] \in {moved.status[n], "PENDING"}
  <2>1. Differ(moved.status, WithStatus(moved, n, "PENDING").status, n, "PENDING")
    BY <1>6, WithStatusIs, OtherStatuses
  <2> QED  BY <2>1, <1>3 DEF Differ, QueuesBecome
<1>8. ToSet(Append(stateChangeQueue, n)) = ToSet(stateChangeQueue) \cup {n}
  BY AppendFacts DEF TypeOK
<1> HIDE DEF new
<1> QED  BY <1>1, <1>3, <1>4, <1>5, <1>6, <1>7, <1>8, DropPendingRefusesNone

LEMMA AcquireResourcesStatus ==
  ASSUME TypeOK, QueuesAreSound, FinishedAreSound, NEW n \in Node, AcquireResources(n)
  PROVE  /\ OthersStay(n) /\ n \in ToSet(pendingQueue) /\ IsPending(n) /\ UNCHANGED next
         /\ queueStatus'[n] = "TRANSITION"
         /\ ToSet(pendingQueue') = ToSet(pendingQueue) \ {n}
         /\ ToSet(stateChangeQueue') = ToSet(stateChangeQueue) \cup {n}
<1> DEFINE q == WithStatus(queues, n, "NONE")
<1>1. n \in ToSet(pendingQueue) /\ IsPending(n)
  BY FirstToTry DEF AcquireResources
<1>2. Differ(queueStatus, q.status, n, "NONE")
  BY StatusNow, WithStatusIs, OtherStatuses
<1>3. QueuesBecome(StateChangeStatus(q, n)) /\ UNCHANGED next
      /\ pendingQueue' = Without(pendingQueue, n) /\ stateChangeQueue' = Append(stateChangeQueue, n)
  BY DEF AcquireResources, nodeVars
<1> HIDE DEF q
<1>4. queueStatus'[n] = "TRANSITION"
  BY <1>2, <1>3, Queueable DEF QueuesBecome, Differ
<1>5. ToSet(pendingQueue') = ToSet(pendingQueue) \ {n}
  BY <1>1, <1>3, WithoutFacts DEF TypeOK, QueuesAreSound, PendingIsSound
<1>6. ToSet(stateChangeQueue') = ToSet(stateChangeQueue) \cup {n}
  BY <1>3, AppendFacts DEF TypeOK
<1> QED  BY <1>1, <1>3, <1>4, <1>5, <1>6, AcquireResourcesRefusesNone

LEMMA FailToAcquireStatus ==
  ASSUME TypeOK, QueuesAreSound, FinishedAreSound, NEW n \in Node, FailToAcquire(n)
  PROVE  /\ n \in ToSet(pendingQueue) /\ queueStatus'[n] = "PENDING"
         /\ \A m \in Node \ {n} : queueStatus'[m] \in {queueStatus[m], Available(queueStatus[m])}
         /\ UNCHANGED <<pendingQueue, stateChangeQueue, next>>
<1> DEFINE freed == NotifyAvailable(queues, Taken(n) \cup {m \in Mutexes(n) : holder[m] = n})
           q == WithStatus(freed, n, "PENDING")
<1>1. n \in ToSet(pendingQueue)
  BY FirstToTry DEF FailToAcquire
<1>2. freed.status \in [Node -> QueueStatus]
  BY QueuesTyped, NotifyAvailableTyped DEF TypedQueues
<1>3. \A m \in Node : freed.status[m] \in {queueStatus[m], Available(queueStatus[m])}
  BY DEF NotifyAvailable, queues
<1>4. Differ(freed.status, q.status, n, "PENDING")
  BY <1>2, WithStatusIs, OtherStatuses
<1>5. queueStatus' = q.status /\ UNCHANGED <<pendingQueue, stateChangeQueue, next>>
  BY DEF FailToAcquire, QueuesBecome, WithFault, nodeVars
<1> HIDE DEF freed, q
<1> QED  BY <1>1, <1>3, <1>4, <1>5 DEF Differ

LEMMA ExpressionFacts ==
  ASSUME NEW e \in Expression
  PROVE  /\ e.kind \in {"constant", "lookup", "variable", "state", "default"}
         /\ e.kind = "variable" => e.of \in Variable
         /\ e.kind = "lookup" => e.of \in Lookup
         /\ e.kind = "state" => e.of \in Node
<1>1. \/ e \in [kind : {"constant"}, of : TruthValue] \/ e \in [kind : {"lookup"}, of : Lookup]
      \/ e \in [kind : {"variable"}, of : Variable]
      \/ e \in [kind : {"state"}, of : Node, in : SUBSET NodeState] \/ e \in [kind : {"default"}]
  BY DEF Expression
<1>2. CASE e \in [kind : {"constant"}, of : TruthValue]
  BY <1>2
<1>3. CASE e \in [kind : {"lookup"}, of : Lookup]
  BY <1>3
<1>4. CASE e \in [kind : {"variable"}, of : Variable]
  BY <1>4
<1>5. CASE e \in [kind : {"state"}, of : Node, in : SUBSET NodeState]
  BY <1>5
<1>6. CASE e \in [kind : {"default"}]
  BY <1>6
<1> QED  BY <1>1, <1>2, <1>3, <1>4, <1>5, <1>6

LEMMA QueueingMissesNothing ==
  ASSUME TypeOK, QueuesAreSound, FinishedAreSound, ConditionsStay, NothingMissed, NEW n \in Node,
         \/ CheckCandidate(n) \/ KeepPending(n) \/ DropPending(n)
         \/ AcquireResources(n) \/ FailToAcquire(n)
  PROVE  NothingMissed'
<1>1. UNCHANGED <<condVars, plan, deleted>>
  BY DEF CheckCandidate, KeepPending, DropPending, AcquireResources, FailToAcquire, planVars
<1>2. \A m \in Node : queueStatus'[m] = "NONE" =>
        queueStatus[m] = "NONE" \/ (m = n /\ Evaluated(n).state = "NO_STATE")
  <2>1. CASE CheckCandidate(n)
    BY <2>1, CheckCandidateStatus DEF OthersStay
  <2>2. CASE KeepPending(n)
    BY <2>2, KeepPendingStatus DEF OthersStay, PendingStatus
  <2>3. CASE DropPending(n)
    BY <2>3, DropPendingStatus DEF OthersStay
  <2>4. CASE AcquireResources(n)
    BY <2>4, AcquireResourcesStatus DEF OthersStay
  <2>5. CASE FailToAcquire(n)
    BY <2>5, FailToAcquireStatus DEF Available
  <2> QED  BY <2>1, <2>2, <2>3, <2>4, <2>5
<1>3. \A m \in Node : m \notin deleted' /\ queueStatus'[m] = "NONE" /\ (IsRoot(m) => m \in plan')
        => Settled(m)
  BY <1>1, <1>2, SettledMeans DEF NothingMissed
<1> QED  BY <1>1, <1>3, NoValueChanges DEF condVars

LEMMA PhasesMissNothing ==
  ASSUME TypeOK, ConditionsStay, NothingMissed,
         AllChecked \/ GroupDone \/ BatchDone \/ StepDone \/ StartStep
  PROVE  NothingMissed'
<1>1. UNCHANGED <<condVars, queueStatus, plan, deleted>>
  BY DEF AllChecked, GroupDone, BatchDone, StepDone, StartStep, planVars, queueVars
<1> QED  BY <1>1, NoValueChanges DEF NothingMissed, condVars

\* A variable is set: those who listen to it are told, and the node that sets it.
LEMMA SettingMissesNothing ==
  ASSUME TypeOK, ConditionsStay, NothingMissed, AtRestInside, NEW n \in Node,
         UNCHANGED <<condition, state, lookup, handle, plan, deleted>>,
         Dest[n] # None, NEW v, value' = [value EXCEPT ![Dest[n]] = v],
         \A m \in Node : queueStatus'[m] = "NONE" =>
           /\ queueStatus[m] = "NONE" /\ UNCHANGED <<ack[m], abortComplete[m]>>
           /\ value[Dest[n]] = v \/ m \notin Listening(VariableOf(Dest[n]))
  PROVE  NothingMissed'
<1> DEFINE source == VariableOf(Dest[n])
<1>1. source.kind = "variable" /\ source.of = Dest[n]
  BY DEF VariableOf
<1>2. \A w \in Variable : w # Dest[n] \/ value[Dest[n]] = v => value'[w] = value[w]
  BY DEF TypeOK
<1>3. \A a \in Node, c \in ConditionName : condition[a][c].kind = "variable" =>
        condition[a][c].of \in Variable
  BY ExpressionFacts DEF TypeOK
<1>4. \A a \in Node, c \in ConditionName :
        ~Reads(condition[a][c], source) \/ value[Dest[n]] = v =>
          Value(condition[a][c])' = Value(condition[a][c])
  BY <1>1, <1>2, <1>3, SameValue DEF Reads
<1>5. value[Dest[n]] = v => \A a \in Node, c \in ConditionName : Fades(a, c)
  BY <1>4 DEF Fades
<1>6. \A m \in Node : queueStatus'[m] = "NONE" /\ m \notin deleted =>
        m \notin Listeners(source) \/ \A a \in Node, c \in ConditionName : Fades(a, c)
  BY <1>5 DEF Listening
<1> HIDE DEF source
<1> QED  BY <1>1, <1>4, <1>6, WhoListensIsTold

\* A command's handle changes: the command is told, or goes on whatever it says.
LEMMA HandleMissesNothing ==
  ASSUME TypeOK, ConditionsStay, NothingMissed, NEW n \in Node, NEW h, SetCommandHandle(n, h),
         UNCHANGED <<condition, state, lookup, value, ack, abortComplete, plan, deleted>>
  PROVE  NothingMissed'
<1> DEFINE heard == \/ state[n] = "FINISHING"
                    \/ /\ state[n] = "EXECUTING"
                       /\ condition[n]["end"] # [kind |-> "constant", of |-> "T"]
           S == IF heard THEN {n} ELSE {}
<1>1. handle' = [handle EXCEPT ![n] = h] /\ QueuesBecome(Notify(queues, S))
  BY DEF SetCommandHandle
<1>2. \A m \in Node : queueStatus'[m] = "NONE" => queueStatus[m] = "NONE" /\ m \notin S
  BY <1>1, StatusNow, NotToldMeans DEF QueuesBecome
<1>3. \A m \in Node \ {n} : handle'[m] = handle[m]
  BY <1>1 DEF TypeOK
<1> QED  BY <1>2, <1>3, NoValueChanges DEF NothingMissed

LEMMA SendingMissesNothing ==
  ASSUME TypeOK, QueuesAreSound, EffectsAreSound, ConditionsStay, NothingMissed, AtRestInside,
         NEW n \in Node,
         \/ ExecuteAssignment(n) \/ RetractAssignment(n) \/ ExecuteCommand(n)
         \/ InvokeAbort(n) \/ ExecuteUpdate(n)
  PROVE  NothingMissed'
<1>1. UNCHANGED <<condition, state, lookup, plan, deleted>>
  BY DEF ExecuteAssignment, RetractAssignment, ExecuteCommand, InvokeAbort, ExecuteUpdate,
         EffectsUnchanged, planVars
<1>2. ASSUME NEW v, SetVariable(n, v), Dest[n] # None, UNCHANGED handle,
             ack' = ack \/ ack' = [ack EXCEPT ![n] = TRUE],
             abortComplete' = abortComplete \/ abortComplete' = [abortComplete EXCEPT ![n] = TRUE]
      PROVE  NothingMissed'
  <2> DEFINE S == IF value[Dest[n]] = v THEN {} ELSE Listening(VariableOf(Dest[n]))
  <2>1. value' = [value EXCEPT ![Dest[n]] = v] /\ QueuesBecome(Notify(Notify(queues, S), {n}))
    BY <1>2 DEF SetVariable
  <2>2. S \in SUBSET Node
    BY DEF Listening, Listeners
  <2>3. \A m \in Node : queueStatus'[m] = "NONE" =>
          queueStatus[m] = "NONE" /\ m # n /\ m \notin S
    <3> HIDE DEF S
    <3>1. SUFFICES ASSUME NEW m \in Node, Notify(Notify(queues, S), {n}).status[m] = "NONE"
                   PROVE  queueStatus[m] = "NONE" /\ m # n /\ m \notin S
      BY <2>1 DEF QueuesBecome
    <3>2. Notify(queues, S).status[m] = "NONE" /\ m \notin {n}
      BY <3>1, NotToldMeans
    <3> QED  BY <2>2, <3>2, StatusNow, NotToldMeans
  <2>4. \A m \in Node \ {n} : UNCHANGED <<ack[m], abortComplete[m]>>
    BY <1>2 DEF TypeOK
  <2> QED  BY <1>1, <1>2, <2>1, <2>3, <2>4, SettingMissesNothing
<1>3. CASE ExecuteAssignment(n) \/ RetractAssignment(n)
  <2>1. Dest[n] # None
    <3>1. n \in ToSet(assignmentsToExecute) \/ n \in ToSet(assignmentsToRetract)
      BY <1>3, TailFacts DEF ExecuteAssignment, RetractAssignment, TypeOK
    <3>2. Type[n] = "Assignment"
      BY <3>1 DEF EffectsAreSound, QueuedFor
    <3> QED  BY <3>2, PlanAssumption
  <2>2. CASE ExecuteAssignment(n)
    BY <1>2, <2>1, <2>2 DEF ExecuteAssignment
  <2>3. CASE RetractAssignment(n)
    BY <1>2, <2>1, <2>3 DEF RetractAssignment
  <2> QED  BY <1>3, <2>2, <2>3
<1>4. CASE ExecuteCommand(n)
  <2>1. UNCHANGED <<value, ack, abortComplete>>
    BY <1>4 DEF ExecuteCommand
  <2>2. CASE SetCommandHandle(n, "COMMAND_FAILED")
    BY <1>1, <2>1, <2>2, HandleMissesNothing
  <2>3. CASE UNCHANGED <<handle, queueVars>>
    BY <1>1, <2>1, <2>3, NoValueChanges DEF NothingMissed, queueVars
  <2> QED  BY <1>4, <2>2, <2>3 DEF ExecuteCommand
<1>5. CASE InvokeAbort(n) \/ ExecuteUpdate(n)
  <2>1. UNCHANGED <<value, ack, abortComplete, handle, queueStatus>>
    BY <1>5 DEF InvokeAbort, ExecuteUpdate, queueVars
  <2> QED  BY <1>1, <2>1, NoValueChanges DEF NothingMissed
<1> QED  BY <1>3, <1>4, <1>5

LEMMA WorldMissesNothing ==
  ASSUME TypeOK, ConditionsStay, NothingMissed, AtRestInside, World
  PROVE  NothingMissed'
<1>1. UNCHANGED <<condition, state>>
  BY DEF World, WorldUnchanged, AddPlan, DeleteFinishedPlans, LookupReturn,
         CommandHandleReturn, CommandReturn, CommandAbortAcknowledge, UpdateAcknowledge
<1>2. ASSUME NEW S \in SUBSET Node, QueuesBecome(Notify(queues, S))
      PROVE  \A m \in Node : queueStatus'[m] = "NONE" => queueStatus[m] = "NONE" /\ m \notin S
  BY <1>2, StatusNow, NotToldMeans DEF QueuesBecome
<1>3. ASSUME NEW n \in Node, AddPlan(n) PROVE NothingMissed'
  <2>1. \A m \in Node : queueStatus'[m] = "NONE" => queueStatus[m] = "NONE" /\ m \notin {n}
    BY <1>2, <1>3 DEF AddPlan
  <2>2. UNCHANGED <<lookup, value, ack, abortComplete, handle, deleted>> /\ plan' = plan \cup {n}
    BY <1>3 DEF AddPlan
  <2> QED  BY <1>1, <2>1, <2>2, NoValueChanges DEF NothingMissed
<1>4. ASSUME DeleteFinishedPlans PROVE NothingMissed'
  <2>1. /\ UNCHANGED <<lookup, value, ack, abortComplete, handle, queueStatus>>
        /\ plan' \subseteq plan /\ deleted \subseteq deleted'
    BY <1>4 DEF DeleteFinishedPlans, queueVars
  <2> QED  BY <1>1, <2>1, NoValueChanges DEF NothingMissed
<1>5. ASSUME NEW l \in Lookup, NEW v \in TruthValue, LookupReturn(l, v) PROVE NothingMissed'
  <2> DEFINE source == LookupOf(l)
  <2>1. /\ lookup' = [lookup EXCEPT ![l] = v] /\ QueuesBecome(Notify(queues, Listening(source)))
        /\ UNCHANGED <<value, handle, ack, abortComplete, plan, deleted>>
    BY <1>5 DEF LookupReturn, planVars
  <2>2. source.kind = "lookup" /\ source.of = l
    BY DEF LookupOf
  <2>3. Listening(source) \in SUBSET Node
    BY DEF Listening, Listeners
  <2>4. \A a \in Node, c \in ConditionName : ~Reads(condition[a][c], source) =>
          Value(condition[a][c])' = Value(condition[a][c])
    <3>1. \A k \in Lookup : k # l => lookup'[k] = lookup[k]
      BY <2>1 DEF TypeOK
    <3>2. \A a \in Node, c \in ConditionName : condition[a][c].kind = "lookup" =>
            condition[a][c].of \in Lookup
      BY ExpressionFacts DEF TypeOK
    <3> QED  BY <1>1, <2>1, <2>2, <3>1, <3>2, SameValue DEF Reads
  <2>5. \A m \in Node : queueStatus'[m] = "NONE" =>
          queueStatus[m] = "NONE" /\ m \notin Listening(source)
    BY <1>2, <2>1, <2>3
  <2> HIDE DEF source
  <2> QED  BY <1>1, <2>1, <2>2, <2>4, <2>5, WhoListensIsTold DEF Listening
<1>6. ASSUME NEW n \in Node, NEW h \in Handle, CommandHandleReturn(n, h) PROVE NothingMissed'
  BY <1>1, <1>6, HandleMissesNothing DEF CommandHandleReturn, planVars
<1>7. ASSUME NEW n \in Node, NEW v \in TruthValue, CommandReturn(n, v) PROVE NothingMissed'
  <2>1. /\ value' = [value EXCEPT ![Dest[n]] = v] /\ Dest[n] # None
        /\ QueuesBecome(Notify(queues, Listening(VariableOf(Dest[n]))))
        /\ UNCHANGED <<lookup, handle, ack, abortComplete, plan, deleted>>
    BY <1>7 DEF CommandReturn, planVars
  <2>2. Listening(VariableOf(Dest[n])) \in SUBSET Node
    BY DEF Listening, Listeners
  <2>3. \A m \in Node : queueStatus'[m] = "NONE" =>
          queueStatus[m] = "NONE" /\ m \notin Listening(VariableOf(Dest[n]))
    BY <1>2, <2>1, <2>2
  <2> QED  BY <1>1, <2>1, <2>3, SettingMissesNothing
<1>8. ASSUME NEW n \in Node, NEW b \in BOOLEAN,
             CommandAbortAcknowledge(n, b) \/ UpdateAcknowledge(n, b)
      PROVE  NothingMissed'
  <2>1. /\ QueuesBecome(Notify(queues, {n})) /\ UNCHANGED <<lookup, value, handle, plan, deleted>>
        /\ ack' = ack \/ ack' = [ack EXCEPT ![n] = b]
        /\ abortComplete' = abortComplete \/ abortComplete' = [abortComplete EXCEPT ![n] = b]
    BY <1>8 DEF CommandAbortAcknowledge, UpdateAcknowledge, planVars
  <2>2. \A m \in Node : queueStatus'[m] = "NONE" => queueStatus[m] = "NONE" /\ m \notin {n}
    BY <1>2, <2>1
  <2>3. \A m \in Node \ {n} : UNCHANGED <<ack[m], abortComplete[m]>>
    BY <2>1 DEF TypeOK
  <2> QED  BY <1>1, <2>1, <2>2, <2>3, NoValueChanges DEF NothingMissed
<1> QED  BY <1>3, <1>4, <1>5, <1>6, <1>7, <1>8 DEF World

\* Whom the change of a node's state leaves without anything to do.
LEMMA MovedLeaves ==
  ASSUME TypeOK, QueuesAreSound, FinishedAreSound, NEW n \in Node, n \in ToSet(stateChangeQueue),
         NEW m \in Node, Moved(n).status[m] = "NONE"
  PROVE  /\ m # n /\ queueStatus[m] = "NONE" /\ m \notin Initialized(n)
         /\ Type[n] = "List" => m \notin ToldChildren(n)
<1> DEFINE popped == WithStatus(queues, n, "NONE")
           rechecked == IF queueStatus[n] = "TRANSITION_CHECK" THEN Notify(popped, {n})
                        ELSE popped
           freed == NotifyAvailable(rechecked, ReleasedByHolder(n))
           ready == Notify(freed, Initialized(n))
           told == IF IsFinish(n) THEN Finish(ready, n) ELSE Notify(ready, {n})
           Was(q, p) == q.status[m] = "NONE" => p.status[m] = "NONE"
<1>1. m # n
  BY MovedChecks, MovedKeeps
<1>2. TypedQueues(popped) /\ Was(popped, queues)
  <2>1. TypedQueues(popped)
    BY QueuesTyped, WithStatusTyped, OtherStatuses
  <2>2. Differ(queueStatus, popped.status, n, "NONE") /\ queues.status = queueStatus
    BY StatusNow, WithStatusIs, OtherStatuses
  <2> HIDE DEF popped
  <2> QED  BY <2>1, <2>2, <1>1 DEF Differ
<1>3. TypedQueues(rechecked) /\ Was(rechecked, popped)
  <2>1. TypedQueues(Notify(popped, {n})) /\ Was(Notify(popped, {n}), popped)
    BY <1>2, NotifyTyped, NotToldMeans
  <2> HIDE DEF popped
  <2> QED  BY <1>2, <2>1
<1>4. TypedQueues(freed) /\ Was(freed, rechecked)
  <2> HIDE DEF rechecked
  <2>1. freed.status[m] \in {rechecked.status[m], Available(rechecked.status[m])}
    BY DEF NotifyAvailable
  <2> QED  BY <1>3, <2>1, NotifyAvailableTyped DEF Available
<1>5. TypedQueues(ready) /\ Was(ready, freed)
      /\ (ready.status[m] = "NONE" => m \notin Initialized(n))
  <2>1. Initialized(n) \in SUBSET Node
    BY DEF Initialized, Listening, Listeners
  <2> HIDE DEF freed
  <2> QED  BY <1>4, <2>1, NotifyTyped, NotToldMeans
<1>6. Was(told, ready)
  <2> HIDE DEF ready
  <2>1. Was(Notify(ready, {n}), ready)
    BY NotToldMeans
  <2>2. Finish(ready, n).status[m] = ready.status[m]
    <3>1. ready.status \in [Node -> QueueStatus]
      BY <1>5 DEF TypedQueues
    <3>2. Finish(ready, n).status \in {ready.status, [ready.status EXCEPT ![n] = "DELETE"]}
      BY DEF Finish, WithStatus, WithFault
    <3> QED  BY <1>1, <3>1, <3>2
  <2> QED  BY <2>1, <2>2
<1>7. Was(Moved(n), told) /\ (Type[n] = "List" => m \notin ToldChildren(n))
  <2>1. ToldChildren(n) \in SUBSET Node
    BY DEF ToldChildren, Children
  <2>2. Moved(n) = IF Type[n] = "List" THEN Notify(told, ToldChildren(n)) ELSE told
    BY DEF Moved
  <2> HIDE DEF told
  <2> QED  BY <2>1, <2>2, NotToldMeans
<1>8. queues.status = queueStatus
  BY StatusNow
<1> HIDE DEF popped, rechecked, freed, ready, told
<1> QED  BY <1>1, <1>2, <1>3, <1>4, <1>5, <1>6, <1>7, <1>8

\* What m hears of.
HearsAll ==
  \A m \in Node : \A source :
    /\ source.kind \notin {"constant", "default"} /\ m \notin Listeners(source)
    /\ LivesInside(m)
    => /\ \A c \in ConditionName : state[m] \in ActiveStates(c) => ~Reads(condition[m][c], source)
       /\ state[m] \notin {"INACTIVE", "FINISHED"} =>
            \A a \in Ancestors[m], c \in {"exit", "invariant", "end"} :
              ~Reads(condition[a][c], source)

LEMMA EverybodyHears == TypeOK => HearsAll
BY Unheard DEF HearsAll

\* The variables that n makes active as it starts, and those it leaves alone.
LEMMA VariablesMoved ==
  ASSUME TypeOK, QueuesAreSound, NEW n \in Node, TransitionNode(n), NEW v \in Variable,
         VariableActive(v)'
  PROVE  IF VariableActive(v) THEN value'[v] = value[v]
         ELSE v \in Activated(n) /\ next[n].state = "EXECUTING" /\ value'[v] = Initial[v]
<1>1. /\ state' = [state EXCEPT ![n] = next[n].state]
      /\ IF next[n].state = "EXECUTING"
         THEN value' = [w \in Variable |-> IF w \in Activated(n) THEN Initial[w] ELSE value[w]]
         ELSE UNCHANGED value
      /\ stateChangeQueue # <<>> /\ n = Head(stateChangeQueue)
  BY DEF TransitionNode
<1>2. CASE VariableActive(v)
  <2>1. v \notin Activated(n)
    BY <1>2 DEF Activated
  <2> QED  BY <1>1, <1>2, <2>1
<1>3. CASE ~VariableActive(v)
  <2>1. n \in ToSet(stateChangeQueue)
    BY <1>1, TailFacts DEF TypeOK
  <2>2. next[n].state \in LegalSuccessor(Type[n], state[n])
    BY <2>1 DEF QueuesAreSound, ChangesAreSound, CanMove
  <2>3. PICK k \in Node : state'[k] \in Running /\ state[k] \notin Running
                          /\ (Owner[v] = k \/ Dest[k] = v)
    <3>1. \/ Owner[v] = None
          \/ state'[Owner[v]] \in Running
          \/ \E k \in Node : Dest[k] = v /\ state'[k] \in Running
      BY DEF VariableActive
    <3>2. /\ Owner[v] # None /\ state[Owner[v]] \notin Running
          /\ \A k \in Node : Dest[k] = v => state[k] \notin Running
      BY <1>3 DEF VariableActive
    <3>3. Owner[v] \in Node
      BY <3>2, PlanAssumption
    <3> QED  BY <3>1, <3>2, <3>3
  <2>4. k = n /\ next[n].state \in Running
    BY <1>1, <2>3 DEF TypeOK
  <2>5. next[n].state = "EXECUTING"
    <3>1. Type[n] \in NodeType /\ state[n] \in NodeState /\ state[n] \notin Running
      BY <2>3, <2>4, PlanAssumption DEF TypeOK
    <3> QED  BY <2>2, <2>4, <3>1, LegalSuccessorFacts DEF Running
  <2>6. v \in Activated(n)
    BY <1>3, <2>3, <2>4 DEF Activated
  <2> QED  BY <1>1, <1>3, <2>5, <2>6
<1> QED  BY <1>2, <1>3

\* What reads neither the state that changes nor a variable that is initialized keeps its value,
\* or fades.
LEMMA TransitionFades ==
  ASSUME TypeOK, QueuesAreSound, NEW n \in Node, TransitionNode(n),
         NEW a \in Node, NEW c \in ConditionName, condition[a][c].kind # "default",
         ~Reads(condition[a][c], StateOf(n)),
         \A v \in Activated(n) : next[n].state = "EXECUTING" /\ Initial[v] # "U" =>
           ~Reads(condition[a][c], VariableOf(v))
  PROVE  Fades(a, c)
<1> DEFINE e == condition[a][c]
<1>1. /\ state' = [state EXCEPT ![n] = next[n].state] /\ UNCHANGED <<condition, lookup>>
      /\ \A k \in Node \ {n} : state'[k] = state[k]
  BY DEF TransitionNode, TypeOK
<1>2. /\ condition'[a][c] = e
      /\ e.kind \in {"constant", "lookup", "variable", "state"}
      /\ e.kind = "variable" => e.of \in Variable
      /\ e.kind = "state" => e.of \in Node
  <2>1. condition'[a][c] = e /\ e \in Expression /\ e.kind # "default"
    BY <1>1 DEF TypeOK
  <2> HIDE DEF e
  <2> QED  BY <2>1, ExpressionFacts
<1>3. CASE e.kind = "constant"
  BY <1>2, <1>3 DEF Fades, Value
<1>4. CASE e.kind = "lookup"
  BY <1>1, <1>2, <1>4 DEF Fades, Value
<1>5. CASE e.kind = "variable"
  <2> DEFINE v == e.of
  <2>1. /\ Value(e) = IF VariableActive(v) THEN value[v] ELSE "U"
        /\ Value(condition[a][c])' = IF VariableActive(v)' THEN value'[v] ELSE "U"
    BY <1>2, <1>5 DEF Value
  <2>2. CASE ~VariableActive(v)'
    BY <2>1, <2>2 DEF Fades
  <2>3. CASE VariableActive(v)' /\ VariableActive(v)
    <3>1. value'[v] = value[v]
      BY <1>2, <1>5, <2>3, VariablesMoved
    <3> QED  BY <2>1, <2>3, <3>1 DEF Fades
  <2>4. CASE VariableActive(v)' /\ ~VariableActive(v)
    <3>1. v \in Activated(n) /\ next[n].state = "EXECUTING" /\ value'[v] = Initial[v]
      BY <1>2, <1>5, <2>4, VariablesMoved
    <3>2. Initial[v] = "U"
      BY <1>5, <3>1 DEF Reads, VariableOf
    <3> QED  BY <2>1, <2>4, <3>1, <3>2 DEF Fades
  <2> QED  BY <2>2, <2>3, <2>4
<1>6. CASE e.kind = "state"
  <2>1. e.of # n
    BY <1>6 DEF Reads, StateOf
  <2>2. state'[e.of] = state[e.of]
    BY <1>1, <1>2, <1>6, <2>1
  <2>3. Value(e)' = Truth(state'[e.of] \in e.in) /\ Value(e) = Truth(state[e.of] \in e.in)
    BY <1>2, <1>6 DEF Value, Truth
  <2> QED  BY <2>2, <2>3 DEF Fades
<1> QED  BY <1>2, <1>3, <1>4, <1>5, <1>6

LEMMA TransitionMissesNothing ==
  ASSUME TypeOK, TypeOK', QueuesAreSound, FinishedAreSound, ConditionsStay, NothingMissed,
         AtRestInside, AtRestInside', HearsAll, HearsAll', NEW n \in Node, TransitionNode(n)
  PROVE  NothingMissed'
<1>1. /\ state' = [state EXCEPT ![n] = next[n].state]
      /\ UNCHANGED <<condition, lookup, plan, deleted>>
      /\ stateChangeQueue # <<>> /\ n = Head(stateChangeQueue)
      /\ QueuesBecome(Notify(Moved(n), Listening(StateOf(n))'))
  BY DEF TransitionNode
<1>2. n \in ToSet(stateChangeQueue)
  BY <1>1, TailFacts DEF TypeOK
<1>3. SUFFICES ASSUME NEW m \in Node, m \notin deleted', queueStatus'[m] = "NONE",
                      IsRoot(m) => m \in plan'
               PROVE  Settled(m)'
  BY DEF NothingMissed
<1>4. /\ m # n /\ queueStatus[m] = "NONE" /\ m \notin Initialized(n)
      /\ Type[n] = "List" => m \notin ToldChildren(n)
      /\ m \notin Listening(StateOf(n))'
  <2> DEFINE S == Listening(StateOf(n))'
  <2>1. S \in SUBSET Node
    BY DEF Listening, Listeners
  <2>2. Notify(Moved(n), S).status[m] = "NONE"
    BY <1>1, <1>3 DEF QueuesBecome
  <2> HIDE DEF S
  <2>3. Moved(n).status[m] = "NONE" /\ m \notin S
    BY <2>1, <2>2, NotToldMeans
  <2> QED  BY <1>2, <2>3, MovedLeaves DEF S
<1>5. Settled(m) /\ LivesInside(m) /\ LivesInside(m)'
  BY <1>1, <1>3, <1>4 DEF NothingMissed, AtRestInside
<1>6. state'[m] = state[m] /\ \A k \in Node \ {n} : state'[k] = state[k]
  BY <1>1, <1>4 DEF TypeOK
<1>7. m \notin Listeners(StateOf(n))'
  BY <1>1, <1>3, <1>4 DEF Listening
<1> DEFINE Followed(a, c) ==
      \/ a = m /\ state[m] \in ActiveStates(c)
      \/ /\ a \in Ancestors[m] /\ c \in {"exit", "invariant", "end"}
         /\ state[m] \notin {"INACTIVE", "FINISHED"}
<1>8. ASSUME NEW a \in Node, NEW c \in ConditionName, Followed(a, c),
             condition[a][c].kind # "default"
      PROVE  Fades(a, c)
  <2>1. ~Reads(condition[a][c], StateOf(n))
    <3>1. StateOf(n).kind = "state"
      BY DEF StateOf
    <3>2. /\ \A d \in ConditionName : state'[m] \in ActiveStates(d) =>
               ~Reads(condition'[m][d], StateOf(n))
          /\ state'[m] \notin {"INACTIVE", "FINISHED"} =>
               \A b \in Ancestors[m], d \in {"exit", "invariant", "end"} :
                 ~Reads(condition'[b][d], StateOf(n))
      BY <1>5, <1>7, <3>1 DEF HearsAll, Reads
    <3> QED  BY <1>1, <1>6, <1>8, <3>2
  <2>2. ASSUME NEW v \in Activated(n), next[n].state = "EXECUTING", Initial[v] # "U"
        PROVE  ~Reads(condition[a][c], VariableOf(v))
    <3>1. m \notin Listeners(VariableOf(v))
      BY <1>1, <1>3, <1>4, <2>2 DEF Initialized, Listening, Activated
    <3>2. VariableOf(v).kind = "variable"
      BY DEF VariableOf
    <3> QED  BY <1>5, <1>8, <3>1, <3>2 DEF HearsAll
  <2> QED  BY <1>8, <2>1, <2>2, TransitionFades
<1>9. /\ \A c \in ConditionName : state[m] \in ActiveStates(c) /\ condition[m][c].kind # "default"
           => Fades(m, c)
      /\ state[m] \notin {"INACTIVE", "FINISHED"} =>
           \A a \in Ancestors[m], c \in {"exit", "invariant", "end"} :
             condition[a][c].kind # "default" => Fades(a, c)
  <2>1. {"exit", "invariant", "end"} \subseteq ConditionName /\ Ancestors[m] \subseteq Node
    BY AncestorFacts DEF ConditionName
  <2> QED  BY <1>8, <2>1
<1> HIDE DEF Followed
<1>10. UNCHANGED <<ack[m], abortComplete[m], handle[m]>>
  <2>1. /\ IF next[n].state = "EXECUTING"
           THEN /\ handle' = [handle EXCEPT ![n] = "NO_COMMAND_HANDLE"]
                /\ ack' = [ack EXCEPT ![n] = FALSE]
           ELSE UNCHANGED <<handle, ack>>
        /\ \E b : abortComplete' = [abortComplete EXCEPT ![n] = b]
    BY DEF TransitionNode
  <2>2. /\ ack \in [Node -> BOOLEAN] /\ abortComplete \in [Node -> BOOLEAN]
        /\ handle \in [Node -> Handle]
    BY DEF TypeOK
  <2>3. handle'[m] = handle[m] /\ ack'[m] = ack[m]
    BY <1>4, <2>1, <2>2
  <2>4. abortComplete'[m] = abortComplete[m]
    BY <1>4, <2>1, <2>2
  <2> QED  BY <2>3, <2>4
<1>11. Type[m] = "List" /\ (\/ state[m] \in {"FINISHING", "FAILING"}
                            \/ state[m] = "EXECUTING" /\ condition[m]["end"].kind = "default") =>
         \A k \in Children(m) : state'[k] = state[k]
  <2>1. SUFFICES ASSUME Type[m] = "List",
                        \/ state[m] \in {"FINISHING", "FAILING"}
                        \/ state[m] = "EXECUTING" /\ condition[m]["end"].kind = "default",
                        n \in Children(m)
                 PROVE  FALSE
    BY <1>6 DEF Children
  <2>2. Parent[n] = m /\ StateOf(n).kind = "state" /\ StateOf(n).of = n
    BY <2>1 DEF Children, StateOf
  <2>3. m \in Listeners(StateOf(n))'
    BY <1>1, <1>6, <2>1, <2>2 DEF Listeners
  <2> QED  BY <1>7, <2>3
<1>12. ~IsRoot(m) /\ state'[Parent[m]] # state[Parent[m]] =>
         /\ state[m] = "INACTIVE" => state'[Parent[m]] \notin {"EXECUTING", "FINISHED"}
         /\ state[m] = "FINISHED" => state'[Parent[m]] # "WAITING"
  <2>1. SUFFICES ASSUME ~IsRoot(m), state'[Parent[m]] # state[Parent[m]]
                 PROVE  /\ state[m] = "INACTIVE" => state'[Parent[m]] \notin {"EXECUTING", "FINISHED"}
                        /\ state[m] = "FINISHED" => state'[Parent[m]] # "WAITING"
    OBVIOUS
  <2>2. Parent[m] = n /\ Type[n] = "List"
    BY <1>6, <2>1, ParentFacts
  <2>3. state'[n] = next[n].state
    BY <1>1 DEF TypeOK
  <2>4. m \notin ToldChildren(n) /\ m \in Children(n)
    BY <1>4, <2>2 DEF Children
  <2> QED  BY <2>2, <2>3, <2>4 DEF ToldChildren
<1>13. ToldElse(m)
  BY <1>1, <1>6, <1>9, <1>10, <1>11, <1>12 DEF ToldElse
<1> QED  BY <1>5, <1>13, StillSettled

LEMMA NothingIsMissed ==
  ASSUME TypeOK, TypeOK', QueuesAreSound, FinishedAreSound, EffectsAreSound, ConditionsStay,
         NothingMissed, AtRestInside, AtRestInside', HearsAll, HearsAll', [Next]_vars
  PROVE  NothingMissed'
<1>1. CASE UNCHANGED vars
  <2>1. UNCHANGED <<condition, state, lookup, value, ack, abortComplete, handle, queueStatus,
                    plan, deleted>>
    BY <1>1 DEF vars, condVars, queueVars, planVars
  <2> QED  BY <2>1, NoValueChanges DEF NothingMissed
<1>2. ASSUME NEW n \in Node,
             \/ CheckCandidate(n) \/ KeepPending(n) \/ DropPending(n)
             \/ AcquireResources(n) \/ FailToAcquire(n)
      PROVE  NothingMissed'
  BY <1>2, QueueingMissesNothing
<1>3. ASSUME NEW n \in Node, TransitionNode(n) PROVE NothingMissed'
  BY <1>3, TransitionMissesNothing
<1>4. ASSUME NEW n \in Node,
             \/ ExecuteAssignment(n) \/ RetractAssignment(n) \/ ExecuteCommand(n)
             \/ InvokeAbort(n) \/ ExecuteUpdate(n)
      PROVE  NothingMissed'
  BY <1>4, SendingMissesNothing
<1>5. CASE AllChecked \/ GroupDone \/ BatchDone \/ StepDone \/ StartStep
  BY <1>5, PhasesMissNothing
<1>6. CASE World
  BY <1>6, WorldMissesNothing
<1> QED  BY <1>1, <1>2, <1>3, <1>4, <1>5, <1>6 DEF Next, Step

LEMMA NothingMissedAlways == Spec /\ []AtRestInside => []NothingMissed
<1>1. Init => NothingMissed
  <2>1. ASSUME Init, NEW n \in Node, IsRoot(n) => n \in plan PROVE Settled(n)
    <3>1. ~IsRoot(n) /\ state[n] = "INACTIVE" /\ state[Parent[n]] = "INACTIVE"
      BY <2>1, ParentFacts DEF Init
    <3> QED  BY <3>1 DEF Settled
  <2> QED  BY <2>1 DEF NothingMissed
<1>2. TypeOK /\ TypeOK' /\ QueuesAreSound /\ FinishedAreSound /\ EffectsAreSound
        /\ ConditionsStay /\ NothingMissed /\ AtRestInside /\ AtRestInside' /\ HearsAll
        /\ HearsAll' /\ [Next]_vars => NothingMissed'
  BY NothingIsMissed
<1> QED
  BY <1>1, <1>2, EverybodyHears, TypeCorrect, SoundQueuesAlways, FinishedAlways, EffectsAlways,
     ConditionsAlways, PTL DEF Spec

\* What a queue status says of the queues.  The status of a node that is about to move says so
\* as long as it has not.
MovingStatus == {"TRANSITION", "TRANSITION_CHECK"}

AllMove == \A n \in Node : queueStatus[n] \in MovingStatus => n \in ToSet(stateChangeQueue)

\* That of a node on the pending queue may stay behind when it is dropped to go nowhere.
NobodyIsLost ==
  \A n \in Node : queueStatus[n] \in PendingStatus =>
    n \in ToSet(pendingQueue) \cup ToSet(stateChangeQueue)

LEMMA NotifiedFacts ==
  ASSUME NEW q, NEW S, NEW m \in Node
  PROVE  Notify(q, S).status[m] \in {q.status[m], Notified(q.status[m])}
BY DEF Notify

LEMMA NotifiedMeans ==
  ASSUME NEW s
  PROVE  /\ Notified(Notified(s)) = Notified(s)
         /\ Notified(s) \in MovingStatus <=> s \in MovingStatus
         /\ Notified(s) \in PendingStatus <=> s \in PendingStatus
         /\ Available(s) \in MovingStatus <=> s \in MovingStatus
         /\ Available(s) \in PendingStatus <=> s \in PendingStatus
         /\ Notified(s) = "DELETE" \/ Available(s) = "DELETE" => s = "DELETE"
<1>1. CASE s \in {"NONE", "PENDING", "PENDING_TRY", "TRANSITION"}
  BY <1>1 DEF Notified, Available, MovingStatus, PendingStatus
<1>2. CASE s \notin {"NONE", "PENDING", "PENDING_TRY", "TRANSITION", "PENDING_CHECK"}
  BY <1>2 DEF Notified, Available, MovingStatus, PendingStatus
<1>3. CASE s = "PENDING_CHECK"
  BY <1>3 DEF Notified, Available, MovingStatus, PendingStatus
<1> QED  BY <1>1, <1>2, <1>3

\* The steps that neither check nor move a node leave its queue to it, and tell it at most.
Told(m) == queueStatus'[m] \in {queueStatus[m], Notified(queueStatus[m])}

LEMMA OtherStepsTell ==
  ASSUME TypeOK, Next,
         ~\E n \in Node :
             \/ CheckCandidate(n) \/ KeepPending(n) \/ DropPending(n)
             \/ AcquireResources(n) \/ FailToAcquire(n) \/ TransitionNode(n)
  PROVE  /\ \A m \in Node : Told(m)
         /\ UNCHANGED <<state, pendingQueue, stateChangeQueue, next, holder, waiters>>
<1> USE DEF queueVars, resourceVars, nodeVars, condVars
<1> DEFINE Tells == \A m \in Node : Told(m)
<1>1. \A source : Listening(source) \in SUBSET Node
  BY DEF Listening, Listeners
<1>2. ASSUME NEW S \in SUBSET Node, QueuesBecome(Notify(queues, S)) PROVE Tells
  BY <1>2, StatusNow, NotifiedFacts DEF QueuesBecome, Told
<1>3. ASSUME UNCHANGED queueStatus PROVE Tells
  BY <1>3 DEF Told
<1>4. ASSUME NEW n \in Node, ExecuteAssignment(n) \/ RetractAssignment(n) PROVE Tells
  <2>1. PICK S \in SUBSET Node : QueuesBecome(Notify(Notify(queues, S), {n}))
    <3>1. \E v : SetVariable(n, v)
      BY <1>4 DEF ExecuteAssignment, RetractAssignment
    <3> QED  BY <3>1, <1>1 DEF SetVariable
  <2>2. ASSUME NEW m \in Node PROVE Told(m)
    <3>1. queueStatus'[m] \in {Notify(queues, S).status[m], Notified(Notify(queues, S).status[m])}
      BY <2>1, NotifiedFacts DEF QueuesBecome
    <3>2. Notify(queues, S).status[m] \in {queueStatus[m], Notified(queueStatus[m])}
      BY StatusNow, NotifiedFacts
    <3> QED  BY <3>1, <3>2, NotifiedMeans DEF Told
  <2> QED  BY <2>2
<1>5. ASSUME NEW n \in Node, ExecuteCommand(n) \/ \E h \in Handle : CommandHandleReturn(n, h)
      PROVE  Tells
  <2>1. CASE UNCHANGED queueVars
    BY <1>3, <2>1
  <2>2. CASE \E h : SetCommandHandle(n, h)
    <3>1. \E S \in SUBSET Node : QueuesBecome(Notify(queues, S))
      BY <2>2 DEF SetCommandHandle
    <3> QED  BY <3>1, <1>2
  <2> QED  BY <1>5, <2>1, <2>2 DEF ExecuteCommand, CommandHandleReturn
<1>6. ASSUME NEW n \in Node,
             \/ AddPlan(n)
             \/ \E v \in TruthValue : CommandReturn(n, v)
             \/ \E b \in BOOLEAN : CommandAbortAcknowledge(n, b)
             \/ \E b \in BOOLEAN : UpdateAcknowledge(n, b)
      PROVE  Tells
  <2>1. \E S \in SUBSET Node : QueuesBecome(Notify(queues, S))
    BY <1>1, <1>6 DEF AddPlan, CommandReturn, CommandAbortAcknowledge, UpdateAcknowledge
  <2> QED  BY <2>1, <1>2
<1>7. ASSUME NEW l \in Lookup, NEW v \in TruthValue, LookupReturn(l, v) PROVE Tells
  BY <1>1, <1>2, <1>7 DEF LookupReturn
<1>8. ASSUME DeleteFinishedPlans \/ AllChecked \/ GroupDone \/ StartStep \/ BatchDone \/ StepDone
      PROVE  Tells
  BY <1>3, <1>8 DEF DeleteFinishedPlans, AllChecked, GroupDone, StartStep, BatchDone, StepDone
<1>9. ASSUME NEW n \in Node, InvokeAbort(n) \/ ExecuteUpdate(n) PROVE Tells
  BY <1>3, <1>9 DEF InvokeAbort, ExecuteUpdate
<1>10. UNCHANGED <<state, pendingQueue, stateChangeQueue, next, holder, waiters>>
  <2>1. World => UNCHANGED <<state, pendingQueue, stateChangeQueue, next, holder, waiters>>
    BY DEF World, WorldUnchanged, AddPlan, DeleteFinishedPlans, LookupReturn,
           CommandHandleReturn, CommandReturn, CommandAbortAcknowledge, UpdateAcknowledge
  <2>2. StartStep \/ Step => UNCHANGED <<state, pendingQueue, stateChangeQueue, next, holder, waiters>>
    BY DEF Step, StartStep, ExecuteAssignment, RetractAssignment, ExecuteCommand, InvokeAbort,
           ExecuteUpdate, EffectsUnchanged, BatchDone, StepDone, AllChecked, GroupDone
  <2> QED  BY <2>1, <2>2 DEF Next
<1>11. Tells
  <2> HIDE DEF Tells
  <2>1. CASE World
    BY <1>5, <1>6, <1>7, <1>8, <2>1 DEF World
  <2>2. CASE StartStep \/ Step
    BY <1>4, <1>5, <1>8, <1>9, <2>2 DEF Step
  <2> QED  BY <2>1, <2>2 DEF Next
<1> QED  BY <1>10, <1>11

\* When a node moves, the status of the others says no more than it did.
LEMMA MovedStatus ==
  ASSUME TypeOK, QueuesAreSound, FinishedAreSound, NEW n \in Node, TransitionNode(n), NEW m \in Node
  PROVE  /\ queueStatus'[m] \in MovingStatus => m # n /\ queueStatus[m] \in MovingStatus
         /\ queueStatus'[m] \in PendingStatus => m # n /\ queueStatus[m] \in PendingStatus
         /\ queueStatus'[m] = "DELETE" => queueStatus[m] = "DELETE" \/ (m = n /\ IsRoot(n))
<1> DEFINE popped == WithStatus(queues, n, "NONE")
           rechecked == IF queueStatus[n] = "TRANSITION_CHECK" THEN Notify(popped, {n})
                        ELSE popped
           freed == NotifyAvailable(rechecked, ReleasedByHolder(n))
           ready == Notify(freed, Initialized(n))
           told == IF IsFinish(n) THEN Finish(ready, n) ELSE Notify(ready, {n})
           Was(q, p) == /\ q.status[m] \in MovingStatus => p.status[m] \in MovingStatus
                        /\ q.status[m] \in PendingStatus => p.status[m] \in PendingStatus
                        /\ q.status[m] = "DELETE" => p.status[m] = "DELETE"
<1>1. ASSUME NEW q, NEW S PROVE Was(Notify(q, S), q)
  BY NotifiedFacts, NotifiedMeans
<1>2. PICK S : queueStatus' = Notify(Moved(n), S).status
  BY DEF TransitionNode, QueuesBecome
<1>3. n \in ToSet(stateChangeQueue)
  BY TailFacts DEF TransitionNode, TypeOK
<1>4. CASE m = n
  <2>1. Moved(n).status[n] \in {"CHECK", "DELETE"} /\ (~IsRoot(n) => Moved(n).status[n] = "CHECK")
    BY <1>3, MovedChecks, MovedKeeps DEF IsFinish
  <2> QED  BY <1>1, <1>2, <1>4, <2>1 DEF MovingStatus, PendingStatus
<1>5. CASE m # n
  <2>1. TypedQueues(popped) /\ Was(popped, queues) /\ queues.status = queueStatus
    <3>1. TypedQueues(popped)
      BY QueuesTyped, WithStatusTyped, OtherStatuses
    <3>2. Differ(queueStatus, popped.status, n, "NONE") /\ queues.status = queueStatus
      BY StatusNow, WithStatusIs, OtherStatuses
    <3> HIDE DEF popped
    <3> QED  BY <3>1, <3>2, <1>5 DEF Differ
  <2>2. TypedQueues(rechecked) /\ Was(rechecked, popped)
    <3>1. TypedQueues(Notify(popped, {n})) /\ Was(Notify(popped, {n}), popped)
      BY <1>1, <2>1, NotifyTyped
    <3> HIDE DEF popped
    <3> QED  BY <2>1, <3>1
  <2>3. TypedQueues(freed) /\ Was(freed, rechecked)
    <3> HIDE DEF rechecked
    <3>1. freed.status[m] \in {rechecked.status[m], Available(rechecked.status[m])}
      BY DEF NotifyAvailable
    <3> QED  BY <2>2, <3>1, NotifyAvailableTyped, NotifiedMeans
  <2>4. TypedQueues(ready) /\ Was(ready, freed)
    <3>1. Initialized(n) \in SUBSET Node
      BY DEF Initialized, Listening, Listeners
    <3> HIDE DEF freed
    <3> QED  BY <1>1, <2>3, <3>1, NotifyTyped
  <2>5. Was(told, ready)
    <3> HIDE DEF ready
    <3>1. Finish(ready, n).status[m] = ready.status[m]
      <4>1. ready.status \in [Node -> QueueStatus]
        BY <2>4 DEF TypedQueues
      <4>2. Finish(ready, n).status \in {ready.status, [ready.status EXCEPT ![n] = "DELETE"]}
        BY DEF Finish, WithStatus, WithFault
      <4> QED  BY <1>5, <4>1, <4>2
    <3> QED  BY <1>1, <3>1
  <2>6. Was(Moved(n), told)
    <3>1. Moved(n) = IF Type[n] = "List" THEN Notify(told, ToldChildren(n)) ELSE told
      BY DEF Moved
    <3> HIDE DEF told
    <3> QED  BY <1>1, <3>1
  <2>7. Was(Notify(Moved(n), S), Moved(n))
    BY <1>1
  <2> HIDE DEF popped, rechecked, freed, ready, told
  <2> QED  BY <1>2, <1>5, <2>1, <2>2, <2>3, <2>4, <2>5, <2>6, <2>7
<1> QED  BY <1>4, <1>5

\* Each status that says so comes with a place on a queue, or was there before.
LEMMA StatusesFollow ==
  ASSUME TypeOK, QueuesAreSound, FinishedAreSound, Next, NEW m \in Node
  PROVE  /\ queueStatus'[m] \in MovingStatus =>
              \/ m \in ToSet(stateChangeQueue')
              \/ /\ queueStatus[m] \in MovingStatus
                 /\ m \in ToSet(stateChangeQueue) => m \in ToSet(stateChangeQueue')
         /\ queueStatus'[m] \in PendingStatus =>
              \/ m \in ToSet(pendingQueue') \cup ToSet(stateChangeQueue')
              \/ DropPending(m) /\ Evaluated(m).state = "NO_STATE"
              \/ /\ queueStatus[m] \in PendingStatus
                 /\ m \in ToSet(pendingQueue) \cup ToSet(stateChangeQueue) =>
                      m \in ToSet(pendingQueue') \cup ToSet(stateChangeQueue')
<1> USE DEF MovingStatus, PendingStatus
<1>1. ASSUME NEW n \in Node, CheckCandidate(n) PROVE \/ m = n \/ queueStatus'[m] = queueStatus[m]
  BY <1>1, CheckCandidateStatus DEF OthersStay
<1>2. ASSUME NEW n \in Node, CheckCandidate(n)
      PROVE  /\ m = n /\ queueStatus'[n] \in {"TRANSITION", "TRANSITION_CHECK"} =>
                  n \in ToSet(stateChangeQueue')
             /\ m = n /\ queueStatus'[n] \in PendingStatus => n \in ToSet(pendingQueue')
             /\ ToSet(stateChangeQueue) \subseteq ToSet(stateChangeQueue')
             /\ ToSet(pendingQueue) \subseteq ToSet(pendingQueue')
  BY <1>2, CheckCandidateStatus
<1>3. ASSUME NEW n \in Node, KeepPending(n)
      PROVE  /\ m = n \/ queueStatus'[m] = queueStatus[m]
             /\ n \in ToSet(pendingQueue) /\ UNCHANGED <<pendingQueue, stateChangeQueue>>
             /\ queueStatus'[n] \in PendingStatus
  BY <1>3, KeepPendingStatus DEF OthersStay
<1>4. ASSUME NEW n \in Node, DropPending(n)
      PROVE  /\ m = n \/ queueStatus'[m] = queueStatus[m]
             /\ ToSet(pendingQueue') = ToSet(pendingQueue) \ {n}
             /\ \/ /\ Evaluated(n).state = "NO_STATE" /\ UNCHANGED stateChangeQueue
                   /\ queueStatus'[n] \in {"NONE", "PENDING"}
                \/ ToSet(stateChangeQueue') = ToSet(stateChangeQueue) \cup {n}
  BY <1>4, DropPendingStatus DEF OthersStay
<1>5. ASSUME NEW n \in Node, AcquireResources(n)
      PROVE  /\ m = n \/ queueStatus'[m] = queueStatus[m]
             /\ ToSet(pendingQueue') = ToSet(pendingQueue) \ {n}
             /\ ToSet(stateChangeQueue') = ToSet(stateChangeQueue) \cup {n}
  BY <1>5, AcquireResourcesStatus DEF OthersStay
<1>6. ASSUME NEW n \in Node, FailToAcquire(n)
      PROVE  /\ m = n \/ queueStatus'[m] \in {queueStatus[m], Available(queueStatus[m])}
             /\ n \in ToSet(pendingQueue) /\ UNCHANGED <<pendingQueue, stateChangeQueue>>
             /\ queueStatus'[n] = "PENDING"
  BY <1>6, FailToAcquireStatus
<1>7. ASSUME NEW n \in Node, TransitionNode(n)
      PROVE  /\ ToSet(stateChangeQueue') = ToSet(stateChangeQueue) \ {n}
             /\ UNCHANGED pendingQueue
             /\ queueStatus'[m] \in MovingStatus => m # n /\ queueStatus[m] \in MovingStatus
             /\ queueStatus'[m] \in PendingStatus => m # n /\ queueStatus[m] \in PendingStatus
  <2>1. UNCHANGED pendingQueue /\ ToSet(stateChangeQueue') = ToSet(stateChangeQueue) \ {n}
    BY <1>7, TailFacts DEF TransitionNode, TypeOK, QueuesAreSound, ChangesAreSound
  <2> QED  BY <1>7, <2>1, MovedStatus
<1>8. CASE ~\E n \in Node :
             \/ CheckCandidate(n) \/ KeepPending(n) \/ DropPending(n)
             \/ AcquireResources(n) \/ FailToAcquire(n) \/ TransitionNode(n)
  <2>1. Told(m) /\ UNCHANGED <<pendingQueue, stateChangeQueue>>
    BY <1>8, OtherStepsTell
  <2> QED  BY <2>1, NotifiedMeans DEF Told
<1>9. CASE \E n \in Node : CheckCandidate(n)
  BY <1>1, <1>2, <1>9
<1>10. CASE \E n \in Node : KeepPending(n)
  BY <1>3, <1>10
<1>11. CASE \E n \in Node : DropPending(n)
  BY <1>4, <1>11
<1>12. CASE \E n \in Node : AcquireResources(n)
  BY <1>5, <1>12
<1>13. CASE \E n \in Node : FailToAcquire(n)
  BY <1>6, <1>13, NotifiedMeans
<1>14. CASE \E n \in Node : TransitionNode(n)
  BY <1>7, <1>14
<1> QED  BY <1>8, <1>9, <1>10, <1>11, <1>12, <1>13, <1>14

LEMMA AllMoveAlways == Spec => []AllMove
<1>1. Init => AllMove
  BY DEF Init, AllMove, MovingStatus
<1>2. TypeOK /\ QueuesAreSound /\ FinishedAreSound /\ AllMove /\ [Next]_vars => AllMove'
  <2>1. CASE UNCHANGED vars
    BY <2>1 DEF AllMove, vars, queueVars
  <2> QED  BY <2>1, StatusesFollow DEF AllMove
<1> QED  BY <1>1, <1>2, TypeCorrect, SoundQueuesAlways, FinishedAlways, PTL DEF Spec

\* Once the executive is quiescent, a node of a loaded plan that is not on the pending queue
\* has nowhere to go: whatever changed, what could move it has told it so, whichever nodes
\* and conditions the plan has.  It takes that no node outlives the list it is in, and that
\* none has the status of a pending node without being on a queue.
THEOREM NoTransitionMissed ==
  Spec /\ []AtRestInside /\ []NobodyIsLost => []NoMissedTransition
<1>1. TypeOK /\ QueuesAreSound /\ AllMove /\ NothingMissed /\ NobodyIsLost
        => NoMissedTransition
  <2>1. SUFFICES ASSUME TypeOK, QueuesAreSound, AllMove, NothingMissed, NobodyIsLost,
                        Quiescent, NEW n \in Node, Loaded(n), n \notin ToSet(pendingQueue),
                        queueStatus[n] # "DELETE"
                 PROVE  Evaluated(n).state = "NO_STATE"
    BY DEF NoMissedTransition
  <2>2. ToSet(candidateQueue) = {} /\ ToSet(stateChangeQueue) = {}
    BY <2>1 DEF Quiescent, Performed, QueuesAreSound, ChangesAreSound, ToSet
  <2>3. queueStatus[n] \in QueueStatus /\ queueStatus[n] \notin {"CHECK"} \cup MovingStatus
                                                                  \cup PendingStatus
    BY <2>1, <2>2 DEF TypeOK, AllMove, NobodyIsLost, QueuesAreSound,
                      CandidatesAreSound
  <2>4. queueStatus[n] = "NONE"
    BY <2>1, <2>3 DEF QueueStatus, MovingStatus, PendingStatus
  <2>5. n \notin deleted /\ (IsRoot(n) => n \in plan)
    BY <2>1, AncestorsAre DEF Loaded
  <2> QED  BY <2>1, <2>4, <2>5, SettledMeans DEF NothingMissed
<1> QED
  BY <1>1, NothingMissedAlways, TypeCorrect, SoundQueuesAlways, AllMoveAlways, PTL

-----------------------------------------------------------------------------
(* Steady plans.  A list that nothing interrupts ends after its children.  *)

\* What is queued moves as it was evaluated, or executes as it was to.
Queued(n) ==
  /\ phase # "transition" /\ n \notin ToSet(stateChangeQueue)
  /\ \A m \in Node \ {n} : next'[m].state = next[m].state
  /\ next'[n].state \in {next[n].state, Evaluated(n).state}
  /\ \/ UNCHANGED stateChangeQueue
     \/ /\ ToSet(stateChangeQueue') = ToSet(stateChangeQueue) \cup {n}
        /\ \/ state[n] = "WAITING" /\ next'[n].state = "EXECUTING"
           \/ next'[n].state = Evaluated(n).state /\ Evaluated(n).state # "NO_STATE"

LEMMA WhatIsQueued ==
  ASSUME TypeOK, QueuesAreSound, FinishedAreSound, NEW n \in Node,
         \/ CheckCandidate(n) \/ KeepPending(n) \/ DropPending(n)
         \/ AcquireResources(n) \/ FailToAcquire(n)
  PROVE  Queued(n) /\ UNCHANGED condVars
<1>1. UNCHANGED condVars /\ phase # "transition"
  BY DEF CheckCandidate, KeepPending, DropPending, AcquireResources, FailToAcquire, At
<1>2. n \in ToSet(pendingQueue) => n \notin ToSet(stateChangeQueue)
  BY DEF QueuesAreSound, PendingIsSound, IsPending
<1>3. CASE CheckCandidate(n)
  <2>1. n \notin ToSet(stateChangeQueue)
    BY <1>3, CheckCandidateStatus DEF QueuesAreSound, ChangesAreSound, CanMove, PendingStatus
  <2> QED  BY <1>1, <1>3, <2>1, CheckCandidateStatus DEF Queued
<1>4. CASE KeepPending(n)
  BY <1>1, <1>2, <1>4, KeepPendingStatus DEF Queued
<1>5. CASE DropPending(n)
  BY <1>1, <1>2, <1>5, DropPendingStatus DEF Queued
<1>6. CASE AcquireResources(n)
  BY <1>1, <1>2, <1>6, AcquireResourcesStatus DEF Queued, IsPending
<1>7. CASE FailToAcquire(n)
  BY <1>1, <1>2, <1>7, FailToAcquireStatus DEF Queued
<1> QED  BY <1>3, <1>4, <1>5, <1>6, <1>7

\* What a node of a steady plan needs to begin, to be reset and, if it is a list, to end.
LEMMA EvaluatedSteady ==
  ASSUME TypeOK, Steady, NEW n \in Node
  PROVE  /\ state[n] = "INACTIVE" /\ ~IsRoot(n) /\ Evaluated(n).state \notin {"FINISHED", "NO_STATE"}
              => state[Parent[n]] = "EXECUTING"
         /\ state[n] = "FINISHED" /\ Evaluated(n).state # "NO_STATE" =>
              ~IsRoot(n) /\ state[Parent[n]] = "WAITING" /\ Evaluated(n).state = "INACTIVE"
         /\ Type[n] = "List" =>
              /\ Evaluated(n).state # "FAILING"
              /\ state[n] = "EXECUTING" /\ Evaluated(n).state # "NO_STATE" => AllFinished(n)
<1> DEFINE c == ValuesOf(n)
           d == DestState(Type[n], state[n], c)
<1>1. c.ancestorExit # "T" /\ c.ancestorInvariant # "F"
  BY NothingFromAncestors DEF ValuesOf
<1>2. c.parent = IF IsRoot(n) THEN "NONE" ELSE state[Parent[n]]
  BY DEF ValuesOf
<1>3. Type[n] = "List" => /\ c.exit # "T" /\ c.invariant # "F"
                          /\ c.end = Truth(AllFinished(n))
  BY DEF ValuesOf, Steady, Never, Value, EndCondition
<1>4. /\ Type[n] \in NodeType /\ state[n] \in NodeState
      /\ ~IsRoot(n) => state[Parent[n]] \in NodeState
  BY ParentFacts, PlanAssumption DEF TypeOK
<1>5. Evaluated(n).state = d.state
  BY DEF Evaluated, c, d
<1> HIDE DEF c
<1> USE DEF To, ToState, NoTransition
<1>6. CASE state[n] = "INACTIVE"
  BY <1>2, <1>4, <1>5, <1>6 DEF DestState, FromInactive, NodeState
<1>7. CASE state[n] = "FINISHED"
  BY <1>2, <1>4, <1>5, <1>7 DEF DestState, FromFinished, NodeState
<1>8. CASE state[n] = "EXECUTING"
  <2>1. Type[n] = "List" => ~Interrupted(c)
    BY <1>1, <1>3 DEF Interrupted
  <2>2. d = FromExecuting(Type[n], c)
    BY <1>8 DEF DestState
  <2>3. Type[n] = "List" => d = IF c.end # "T" THEN NoTransition ELSE ToState("FINISHING")
    BY <2>1, <2>2 DEF FromExecuting
  <2> QED  BY <1>3, <1>5, <1>8, <2>3 DEF Truth
<1>9. CASE state[n] = "FINISHING"
  <2>1. Type[n] = "List" => ~Interrupted(c)
    BY <1>1, <1>3 DEF Interrupted
  <2> QED  BY <1>5, <1>9, <2>1 DEF DestState, FromFinishing, IterationOver
<1>10. CASE state[n] \in {"WAITING", "FAILING", "ITERATION_ENDED"}
  BY <1>5, <1>10 DEF DestState, FromWaiting, FromFailing, FromIterationEnded
<1> QED  BY <1>4, <1>6, <1>7, <1>8, <1>9, <1>10 DEF NodeState

\* A node that has begun, or is about to, is inside a list that runs.
StaysInside(m) ==
  /\ ~IsRoot(m)
  /\ \/ state[m] \notin {"INACTIVE", "FINISHED"}
     \/ m \in ToSet(stateChangeQueue) /\ next[m].state \notin {"INACTIVE", "FINISHED"}
  => state[Parent[m]] \in Running

\* A list that ends has seen all its children end, and none of them moves before it.
EndsLast(p) ==
  /\ Type[p] = "List"
  /\ state[p] = "FINISHING" \/ (state[p] = "EXECUTING" /\ p \in ToSet(stateChangeQueue))
  => \A m \in Children(p) : state[m] = "FINISHED" /\ m \notin ToSet(stateChangeQueue)

\* A node is reset when its list waits.  By the time it moves the list may have moved first.
ResetsWithParent(m) ==
  phase # "transition" /\ m \in ToSet(stateChangeQueue) /\ state[m] = "FINISHED" =>
    ~IsRoot(m) /\ state[Parent[m]] = "WAITING"

\* Nothing makes a list fail.
NeverFails(p) == Type[p] = "List" => state[p] # "FAILING" /\ next[p].state # "FAILING"

ListsAreSteady ==
  Steady => \A n \in Node : StaysInside(n) /\ EndsLast(n) /\ ResetsWithParent(n) /\ NeverFails(n)

LEMMA QueueingKeepsSteady ==
  ASSUME TypeOK, Steady, ListsAreSteady, NEW n \in Node, Queued(n), UNCHANGED condVars
  PROVE  \A m \in Node : StaysInside(m)' /\ EndsLast(m)' /\ ResetsWithParent(m)' /\ NeverFails(m)'
<1>0. UNCHANGED state
  BY DEF condVars
<1>1. SUFFICES ASSUME NEW m \in Node
               PROVE  StaysInside(m)' /\ EndsLast(m)' /\ ResetsWithParent(m)' /\ NeverFails(m)'
  OBVIOUS
<1>2. StaysInside(m) /\ EndsLast(m) /\ ResetsWithParent(m) /\ NeverFails(m)
  BY <1>1 DEF ListsAreSteady
<1>3. m # n => /\ next'[m].state = next[m].state
               /\ m \in ToSet(stateChangeQueue') <=> m \in ToSet(stateChangeQueue)
  BY <1>1 DEF Queued
<1>4. n \in ToSet(stateChangeQueue') =>
        \/ state[n] = "WAITING" /\ next'[n].state = "EXECUTING"
        \/ next'[n].state = Evaluated(n).state /\ Evaluated(n).state # "NO_STATE"
  BY DEF Queued
<1>5. StaysInside(m)'
  <2>1. CASE m # n
    BY <1>0, <1>2, <1>3, <2>1 DEF StaysInside
  <2>2. CASE m = n
    BY <1>0, <1>2, <1>4, <2>2, EvaluatedSteady DEF StaysInside, Running
  <2> QED  BY <2>1, <2>2
<1>6. EndsLast(m)'
  <2>1. SUFFICES ASSUME Type[m] = "List", NEW k \in Children(m),
                        \/ state[m] = "FINISHING"
                        \/ state[m] = "EXECUTING" /\ m \in ToSet(stateChangeQueue')
                 PROVE  state[k] = "FINISHED" /\ k \notin ToSet(stateChangeQueue')
    BY <1>0 DEF EndsLast, Children
  <2>2. k \in Node /\ Parent[k] = m /\ ~IsRoot(k)
    BY <2>1, <1>1, PlanAssumption DEF Children, IsRoot
  <2>3. state[k] = "FINISHED" /\ k \notin ToSet(stateChangeQueue)
    <3>1. CASE state[m] = "FINISHING" \/ m \in ToSet(stateChangeQueue)
      BY <1>2, <2>1, <3>1 DEF EndsLast
    <3>2. CASE m \notin ToSet(stateChangeQueue) /\ state[m] = "EXECUTING"
      <4>1. m = n /\ Evaluated(n).state # "NO_STATE"
        BY <1>3, <1>4, <2>1, <3>2
      <4>2. state[k] = "FINISHED"
        BY <2>1, <3>2, <4>1, EvaluatedSteady DEF AllFinished
      <4>3. ResetsWithParent(k)
        BY <2>2 DEF ListsAreSteady
      <4> QED  BY <2>2, <3>2, <4>2, <4>3 DEF ResetsWithParent, Queued
    <3> QED  BY <2>1, <3>1, <3>2
  <2>4. k \notin ToSet(stateChangeQueue')
    <3>1. k # n => k \notin ToSet(stateChangeQueue')
      BY <2>2, <2>3 DEF Queued
    <3>2. k = n => k \notin ToSet(stateChangeQueue')
      BY <1>4, <2>1, <2>2, <2>3, EvaluatedSteady
    <3> QED  BY <3>1, <3>2
  <2> QED  BY <2>3, <2>4
<1>7. ResetsWithParent(m)'
  <2>1. CASE m # n
    BY <1>0, <1>2, <1>3, <2>1 DEF ResetsWithParent, Queued
  <2>2. CASE m = n
    BY <1>0, <1>4, <2>2, EvaluatedSteady DEF ResetsWithParent
  <2> QED  BY <2>1, <2>2
<1>8. NeverFails(m)'
  BY <1>0, <1>2, <1>3, EvaluatedSteady DEF NeverFails, Queued
<1> QED  BY <1>5, <1>6, <1>7, <1>8

LEMMA TransitionKeepsSteady ==
  ASSUME TypeOK, QueuesAreSound, Steady, ListsAreSteady, NEW n \in Node, TransitionNode(n)
  PROVE  \A m \in Node : StaysInside(m)' /\ EndsLast(m)' /\ ResetsWithParent(m)' /\ NeverFails(m)'
<1>1. /\ n \in ToSet(stateChangeQueue) /\ phase = "transition" /\ UNCHANGED phase
      /\ ToSet(stateChangeQueue') = ToSet(stateChangeQueue) \ {n}
  BY TailFacts DEF TransitionNode, TypeOK, QueuesAreSound, ChangesAreSound, At
<1>2. /\ \A m \in Node \ {n} : state'[m] = state[m] /\ next'[m] = next[m]
      /\ state'[n] = next[n].state /\ next'[n] = NoTransition
  BY DEF TransitionNode, TypeOK
<1>3. next[n].state \in LegalSuccessor(Type[n], state[n])
  BY <1>1 DEF QueuesAreSound, ChangesAreSound, CanMove
<1>4. Parent[n] # n
  <2>1. \E k \in {n} : Parent[k] \notin {n}
    BY ForestAssumption
  <2> QED  BY <2>1
<1>5. \A m \in Node : StaysInside(m) /\ EndsLast(m) /\ NeverFails(m)
  BY DEF ListsAreSteady
<1>6. SUFFICES ASSUME NEW m \in Node
               PROVE  StaysInside(m)' /\ EndsLast(m)' /\ ResetsWithParent(m)' /\ NeverFails(m)'
  OBVIOUS
<1>7. state[n] \in NodeState /\ Type[n] \in NodeType
  BY PlanAssumption DEF TypeOK
<1>8. Type[n] = "List" /\ state[n] \in Running =>
        state'[n] \in Running \/ state[n] = "FINISHING"
  BY <1>2, <1>3, <1>5 DEF LegalSuccessor, Running, NeverFails
<1>9. StaysInside(m)'
  <2>1. SUFFICES ASSUME ~IsRoot(m),
                        \/ state'[m] \notin {"INACTIVE", "FINISHED"}
                        \/ /\ m \in ToSet(stateChangeQueue')
                           /\ next'[m].state \notin {"INACTIVE", "FINISHED"}
                 PROVE  state'[Parent[m]] \in Running
    BY DEF StaysInside
  <2>2. state[Parent[m]] \in Running
    <3>1. CASE m = n
      BY <1>1, <1>2, <1>5, <2>1, <3>1 DEF StaysInside
    <3>2. CASE m # n
      BY <1>1, <1>2, <1>5, <1>6, <2>1, <3>2 DEF StaysInside
    <3> QED  BY <3>1, <3>2
  <2>3. CASE Parent[m] # n
    BY <1>2, <2>1, <2>2, <2>3, ParentFacts
  <2>4. CASE Parent[m] = n
    <3>1. m # n /\ Type[n] = "List" /\ m \in Children(n)
      BY <1>4, <1>6, <2>1, <2>4, ParentFacts DEF Children
    <3>2. state[n] # "FINISHING"
      BY <1>1, <1>2, <1>5, <1>6, <2>1, <3>1 DEF EndsLast
    <3> QED  BY <1>8, <2>2, <2>4, <3>1, <3>2
  <2> QED  BY <2>3, <2>4
<1>10. EndsLast(m)'
  <2>1. SUFFICES ASSUME Type[m] = "List", NEW k \in Children(m),
                        \/ state'[m] = "FINISHING"
                        \/ state'[m] = "EXECUTING" /\ m \in ToSet(stateChangeQueue')
                 PROVE  state'[k] = "FINISHED" /\ k \notin ToSet(stateChangeQueue')
    BY DEF EndsLast, Children
  <2>2. k \in Node
    BY <2>1 DEF Children
  <2>3. \/ state[m] = "FINISHING"
        \/ state[m] = "EXECUTING" /\ m \in ToSet(stateChangeQueue)
    <3>1. CASE m # n
      BY <1>1, <1>2, <1>6, <2>1, <3>1
    <3>2. CASE m = n
      <4>1. state'[n] = "FINISHING"
        BY <1>1, <2>1, <3>2
      <4>2. state[n] = "EXECUTING"
        BY <1>2, <1>3, <1>7, <4>1 DEF LegalSuccessor, NodeState
      <4> QED  BY <1>1, <3>2, <4>2
    <3> QED  BY <3>1, <3>2
  <2>4. state[k] = "FINISHED" /\ k \notin ToSet(stateChangeQueue)
    BY <1>5, <2>1, <2>3 DEF EndsLast
  <2> QED  BY <1>1, <1>2, <2>2, <2>4
<1>11. ResetsWithParent(m)'
  BY <1>1 DEF ResetsWithParent
<1>12. NeverFails(m)'
  BY <1>2, <1>5 DEF NeverFails, NoTransition, ToState, To
<1> QED  BY <1>9, <1>10, <1>11, <1>12

LEMMA SteadyForEver == ConditionsStay /\ [Next]_vars => (Steady' <=> Steady)
BY ConditionsUnchanged DEF Steady

LEMMA ListsStaySteady ==
  ASSUME TypeOK, QueuesAreSound, FinishedAreSound, ConditionsStay, ListsAreSteady, [Next]_vars
  PROVE  ListsAreSteady'
<1> USE DEF condVars, nodeVars
<1>1. SUFFICES ASSUME Steady
               PROVE  \A m \in Node : StaysInside(m)' /\ EndsLast(m)' /\ ResetsWithParent(m)'
                                      /\ NeverFails(m)'
  BY SteadyForEver DEF ListsAreSteady
<1>2. ASSUME UNCHANGED <<state, next, stateChangeQueue>>,
             phase' # "transition" => phase # "transition" \/ stateChangeQueue = <<>>
      PROVE  \A m \in Node : StaysInside(m)' /\ EndsLast(m)' /\ ResetsWithParent(m)'
                             /\ NeverFails(m)'
  <2>1. stateChangeQueue = <<>> => ToSet(stateChangeQueue) = {}
    BY DEF ToSet
  <2> QED  BY <1>1, <1>2, <2>1 DEF ListsAreSteady, StaysInside, EndsLast, ResetsWithParent, NeverFails,
                     Children
<1>3. CASE UNCHANGED vars
  BY <1>2, <1>3 DEF vars
<1>4. CASE \E n \in Node :
             \/ CheckCandidate(n) \/ KeepPending(n) \/ DropPending(n)
             \/ AcquireResources(n) \/ FailToAcquire(n)
  <2>1. PICK n \in Node : Queued(n) /\ UNCHANGED condVars
    BY <1>4, WhatIsQueued
  <2> QED  BY <1>1, <2>1, QueueingKeepsSteady
<1>5. CASE \E n \in Node : TransitionNode(n)
  BY <1>1, <1>5, TransitionKeepsSteady
<1>6. CASE /\ Next
           /\ ~\E n \in Node :
                 \/ CheckCandidate(n) \/ KeepPending(n) \/ DropPending(n)
                 \/ AcquireResources(n) \/ FailToAcquire(n) \/ TransitionNode(n)
  <2>1. UNCHANGED <<state, next, stateChangeQueue>>
    BY <1>6, OtherStepsTell
  <2>2. ASSUME BatchDone PROVE stateChangeQueue = <<>>
    BY <2>2 DEF BatchDone
  <2>3. AllChecked \/ GroupDone \/ StepDone \/ StartStep => phase # "transition"
    BY DEF AllChecked, GroupDone, StepDone, StartStep, At
  <2>4. World => UNCHANGED phase
    BY DEF World, WorldUnchanged, AddPlan, DeleteFinishedPlans, LookupReturn,
           CommandHandleReturn, CommandReturn, CommandAbortAcknowledge, UpdateAcknowledge
  <2>5. ASSUME NEW n \in Node,
               \/ ExecuteAssignment(n) \/ RetractAssignment(n) \/ ExecuteCommand(n)
               \/ InvokeAbort(n) \/ ExecuteUpdate(n)
        PROVE  UNCHANGED phase
    BY <2>5 DEF ExecuteAssignment, RetractAssignment, ExecuteCommand, InvokeAbort,
                ExecuteUpdate, EffectsUnchanged
  <2>6. phase' # "transition" => phase # "transition" \/ stateChangeQueue = <<>>
    BY <1>6, <2>2, <2>3, <2>4, <2>5 DEF Next, Step
  <2> QED  BY <1>2, <2>1, <2>6
<1> QED  BY <1>3, <1>4, <1>5, <1>6

LEMMA ListsAlwaysSteady == Spec => []ListsAreSteady
<1>1. Init => ListsAreSteady
  <2> DEFINE Sound(n) == StaysInside(n) /\ EndsLast(n) /\ ResetsWithParent(n) /\ NeverFails(n)
  <2>1. ASSUME Init, NEW n \in Node PROVE Sound(n)
    <3>1. /\ state[n] = "INACTIVE" /\ next[n].state = "NO_STATE" /\ ToSet(stateChangeQueue) = {}
      BY <2>1 DEF Init, NoTransition, ToState, To, ToSet
    <3> QED  BY <3>1 DEF StaysInside, EndsLast, ResetsWithParent, NeverFails
  <2> QED  BY <2>1 DEF ListsAreSteady
<1>2. TypeOK /\ QueuesAreSound /\ FinishedAreSound /\ ConditionsStay /\ ListsAreSteady
        /\ [Next]_vars => ListsAreSteady'
  BY ListsStaySteady
<1> QED
  BY <1>1, <1>2, TypeCorrect, SoundQueuesAlways, FinishedAlways, ConditionsAlways, PTL DEF Spec

\* In a steady plan a node runs only inside a list that runs: a list starts before its
\* children and ends after them, though they and their lists move one by one.
THEOREM SteadyRunsInside == Spec => [](Steady => RunsInsideParent)
<1>1. ListsAreSteady => (Steady => RunsInsideParent)
  BY DEF ListsAreSteady, StaysInside, RunsInsideParent, Running
<1> QED  BY <1>1, ListsAlwaysSteady, PTL

LEMMA SteadyOrNot == Spec => []Steady \/ []~Steady
<1>1. ConditionsStay /\ [Next]_vars => (Steady' <=> Steady)
  BY SteadyForEver
<1> QED  BY <1>1, ConditionsAlways, PTL DEF Spec

LEMMA EndsAloneAlways == Spec => []AllEndAlone
<1>1. Init => AllEndAlone
  BY DEF Init, AllEndAlone, EndsAlone, NoTransition, ToState, To, ParentEnded, Running
<1>2. TypeOK /\ AllEndAlone /\ [Next]_vars => AllEndAlone'
  BY AllStayAlone
<1> QED  BY <1>1, <1>2, TypeCorrect, PTL DEF Spec

\* Whoever changes its state does so in a transition of its own.
LEMMA OnlyTransitionsMove ==
  ASSUME TypeOK, QueuesAreSound, FinishedAreSound, [Next]_vars, NEW m \in Node, state'[m] # state[m]
  PROVE  TransitionNode(m) /\ state'[m] = next[m].state
<1>1. ASSUME NEW n \in Node, TransitionNode(n) PROVE n = m /\ state'[m] = next[m].state
  BY <1>1 DEF TransitionNode, TypeOK
<1>2. CASE UNCHANGED vars
  BY <1>2 DEF vars, condVars
<1>3. CASE \E n \in Node :
             \/ CheckCandidate(n) \/ KeepPending(n) \/ DropPending(n)
             \/ AcquireResources(n) \/ FailToAcquire(n)
  BY <1>3, WhatIsQueued DEF condVars
<1>4. CASE \E n \in Node : TransitionNode(n)
  BY <1>1, <1>4
<1>5. CASE /\ Next
           /\ ~\E n \in Node :
                 \/ CheckCandidate(n) \/ KeepPending(n) \/ DropPending(n)
                 \/ AcquireResources(n) \/ FailToAcquire(n) \/ TransitionNode(n)
  BY <1>5, OtherStepsTell
<1> QED  BY <1>2, <1>3, <1>4, <1>5

\* In a steady plan nobody is cut short by its ancestors: who runs gives back its mutexes.
LEMMA SteadyKeepsNone == Spec /\ []Steady => NoMutexKept
<1>1. TypeOK /\ QueuesAreSound /\ FinishedAreSound /\ AllEndAlone /\ Steady /\ [Next]_vars
        => [KeepsNone]_vars
  <2>1. SUFFICES ASSUME TypeOK, QueuesAreSound, FinishedAreSound, AllEndAlone, Steady,
                        [Next]_vars, NEW n \in Node, state[n] \in Running, state'[n] = "FINISHED"
                 PROVE  FALSE
    BY DEF KeepsNone
  <2>2. next[n].state = "FINISHED"
    BY <2>1, OnlyTransitionsMove DEF Running
  <2> QED  BY <2>1, <2>2 DEF AllEndAlone, EndsAlone
<1> QED
  BY <1>1, TypeCorrect, SoundQueuesAlways, FinishedAlways, EndsAloneAlways, PTL
     DEF Spec, NoMutexKept

\* In a steady plan a node that holds a resource is running, or about to: none of the ways
\* out of its running states forgets to give the mutexes back.
THEOREM SteadyHoldersRun == Spec => []SteadyHolderIsRunning
<1>1. /\ HolderIsRunning => SteadyHolderIsRunning
      /\ ~Steady => SteadyHolderIsRunning
  BY DEF SteadyHolderIsRunning
<1> QED  BY <1>1, HoldersRun, SteadyKeepsNone, SteadyOrNot, PTL

LEMMA SteadyAtRest == Spec /\ []Steady => []AtRestInside
<1>1. ListsAreSteady /\ Steady => AtRestInside
  BY DEF ListsAreSteady, StaysInside, AtRestInside, LivesInside
<1> QED  BY <1>1, ListsAlwaysSteady, PTL

LEMMA SteadyMissesNothing == Spec /\ []Steady => []NothingMissed
BY SteadyAtRest, NothingMissedAlways, PTL

-----------------------------------------------------------------------------
(* Patient plans.  Who waits for resources, once it may start, goes on     *)
(* wanting them or is done: a pending node that is dropped ends.           *)

\* When a node is reset its siblings have ended or have not begun, and stay so.
ResetTogether(s) ==
  ~IsRoot(s) /\ s \in ToSet(stateChangeQueue) /\ state[s] = "FINISHED" =>
    \A m \in Node : Parent[m] = Parent[s] =>
      /\ state[m] \in {"INACTIVE", "FINISHED"}
      /\ m \in ToSet(stateChangeQueue) => next[m].state \in {"INACTIVE", "FINISHED"}

AllResetTogether == Steady => \A s \in Node : ResetTogether(s)

LEMMA AllStayReset ==
  ASSUME TypeOK, QueuesAreSound, FinishedAreSound, ConditionsStay, ListsAreSteady, ListsAreSteady',
         AllResetTogether, [Next]_vars
  PROVE  AllResetTogether'
<1> USE DEF condVars, nodeVars
<1>1. SUFFICES ASSUME Steady, Steady', NEW s \in Node PROVE ResetTogether(s)'
  BY SteadyForEver DEF AllResetTogether
<1>2. ResetTogether(s)
  BY <1>1 DEF AllResetTogether
<1>3. CASE phase' # "transition"
  <2>1. SUFFICES ASSUME ~IsRoot(s), s \in ToSet(stateChangeQueue'), state'[s] = "FINISHED",
                        NEW m \in Node, Parent[m] = Parent[s]
                 PROVE  /\ state'[m] \in {"INACTIVE", "FINISHED"}
                        /\ m \in ToSet(stateChangeQueue') => next'[m].state \in {"INACTIVE", "FINISHED"}
    BY DEF ResetTogether
  <2>2. state'[Parent[m]] = "WAITING" /\ ~IsRoot(m)
    BY <1>1, <1>3, <2>1 DEF ListsAreSteady, ResetsWithParent, IsRoot
  <2>3. StaysInside(m)'
    BY <1>1 DEF ListsAreSteady
  <2> QED  BY <2>2, <2>3 DEF StaysInside, Running
<1>4. CASE UNCHANGED <<state, next, stateChangeQueue>>
  BY <1>2, <1>4 DEF ResetTogether
<1>5. CASE \E n \in Node : TransitionNode(n)
  <2>1. PICK n \in Node : TransitionNode(n)
    BY <1>5
  <2>2. /\ n \in ToSet(stateChangeQueue) /\ ToSet(stateChangeQueue') = ToSet(stateChangeQueue) \ {n}
        /\ \A m \in Node \ {n} : state'[m] = state[m] /\ next'[m] = next[m]
        /\ state'[n] = next[n].state
    BY <2>1, TailFacts DEF TransitionNode, TypeOK, QueuesAreSound, ChangesAreSound
  <2>3. SUFFICES ASSUME ~IsRoot(s), s \in ToSet(stateChangeQueue'), state'[s] = "FINISHED",
                        NEW m \in Node, Parent[m] = Parent[s]
                 PROVE  /\ state'[m] \in {"INACTIVE", "FINISHED"}
                        /\ m \in ToSet(stateChangeQueue') => next'[m].state \in {"INACTIVE", "FINISHED"}
    BY DEF ResetTogether
  <2>4. /\ state[m] \in {"INACTIVE", "FINISHED"}
        /\ m \in ToSet(stateChangeQueue) => next[m].state \in {"INACTIVE", "FINISHED"}
    BY <1>2, <2>2, <2>3 DEF ResetTogether
  <2> QED  BY <2>2, <2>3, <2>4
<1>6. CASE UNCHANGED vars
  BY <1>4, <1>6 DEF vars
<1>7. CASE \E n \in Node :
             \/ CheckCandidate(n) \/ KeepPending(n) \/ DropPending(n)
             \/ AcquireResources(n) \/ FailToAcquire(n)
  <2>1. phase' # "transition"
    BY <1>7 DEF CheckCandidate, KeepPending, DropPending, AcquireResources, FailToAcquire, At,
                Advance
  <2> QED  BY <1>3, <2>1
<1>8. CASE /\ Next
           /\ ~\E n \in Node :
                 \/ CheckCandidate(n) \/ KeepPending(n) \/ DropPending(n)
                 \/ AcquireResources(n) \/ FailToAcquire(n) \/ TransitionNode(n)
  BY <1>4, <1>8, OtherStepsTell
<1> QED  BY <1>5, <1>6, <1>7, <1>8

\* A node on the pending queue needs something, and may start still.
Ready(n) == /\ Resources(n) # {}
            /\ Value(condition[n]["start"]) = "T" /\ Value(condition[n]["pre"]) = "T"

PendingAreReady == Patient => \A n \in ToSet(pendingQueue) : Ready(n)

LEMMA PatientForEver == ConditionsStay /\ [Next]_vars => (Patient' <=> Patient)
BY ConditionsUnchanged, SteadyForEver DEF Patient, Lasting

\* What a pending node waits for stays true.
LEMMA LastingLasts ==
  ASSUME TypeOK, QueuesAreSound, FinishedAreSound, ConditionsStay, AllResetTogether, [Next]_vars,
         Patient, NEW n \in ToSet(pendingQueue), Ready(n)
  PROVE  Ready(n)'
<1>1. n \in Node /\ state[n] = "WAITING"
  BY ElementFacts DEF TypeOK, QueuesAreSound, PendingIsSound, IsPending
<1>2. condition' = condition
  BY ConditionsUnchanged
<1>3. ASSUME NEW c \in {"start", "pre"}, Value(condition[n][c]) = "T"
      PROVE  Value(condition[n][c])' = "T"
  <2> DEFINE e == condition[n][c]
  <2>1. Lasting(n, e) /\ e \in Expression
    BY <1>1 DEF Patient, Ready, TypeOK, ConditionName
  <2>2. CASE e.kind = "constant" /\ e.of = "T"
    BY <1>2, <2>2 DEF Value
  <2>3. CASE e.kind = "state" /\ e.in = {"FINISHED"} /\ Parent[e.of] = Parent[n]
    <3>1. /\ Value(e) = Truth(state[e.of] \in e.in)
          /\ Value(condition[n][c])' = Truth(state'[e.of] \in e.in)
      BY <1>2, <2>3 DEF Value, Truth
    <3>2. e.of \in Node
      BY <2>1, <2>3, ExpressionFacts
    <3>3. state[e.of] = "FINISHED"
      BY <1>3, <2>3, <3>1 DEF Truth
    <3>4. state'[e.of] = state[e.of]
      <4>1. SUFFICES ASSUME state'[e.of] # state[e.of] PROVE FALSE
        OBVIOUS
      <4>2. TransitionNode(e.of)
        BY <3>2, <4>1, OnlyTransitionsMove
      <4>3. e.of \in ToSet(stateChangeQueue)
        BY <4>2, TailFacts DEF TransitionNode, TypeOK
      <4>4. ~IsRoot(e.of)
        BY <1>1, <2>3 DEF Patient, Ready, IsRoot
      <4>5. ResetTogether(e.of)
        BY <3>2 DEF AllResetTogether, Patient
      <4> QED  BY <1>1, <2>3, <3>3, <4>3, <4>4, <4>5 DEF ResetTogether
    <3> QED  BY <2>3, <3>1, <3>3, <3>4 DEF Truth
  <2> QED  BY <2>1, <2>2, <2>3 DEF Lasting
<1> QED  BY <1>3 DEF Ready

LEMMA EvaluatedToExecute ==
  ASSUME TypeOK, NEW n \in Node, Evaluated(n).state = "EXECUTING"
  PROVE  Value(condition[n]["start"]) = "T" /\ Value(condition[n]["pre"]) = "T"
<1> DEFINE c == ValuesOf(n)
           d == DestState(Type[n], state[n], c)
<1>1. /\ c.start = Value(condition[n]["start"]) /\ c.pre = Value(condition[n]["pre"])
      /\ state[n] \in NodeState
  BY DEF ValuesOf, TypeOK
<1>2. Evaluated(n).state = d.state
  BY DEF Evaluated, c, d
<1> HIDE DEF c
<1> USE DEF To, ToState, NoTransition, InterruptedTo, IterationOver
<1>3. CASE state[n] = "WAITING"
  BY <1>1, <1>2, <1>3 DEF DestState, FromWaiting
<1>4. CASE state[n] = "EXECUTING"
  BY <1>2, <1>4 DEF DestState, FromExecuting
<1>5. CASE state[n] \in {"INACTIVE", "FINISHING", "FAILING"}
  BY <1>2, <1>5 DEF DestState, FromInactive, FromFinishing, FromFailing
<1>6. CASE state[n] \in {"ITERATION_ENDED", "FINISHED"}
  BY <1>2, <1>6 DEF DestState, FromIterationEnded, FromFinished
<1> QED  BY <1>1, <1>3, <1>4, <1>5, <1>6 DEF NodeState

LEMMA PendingStayReady ==
  ASSUME TypeOK, QueuesAreSound, FinishedAreSound, ConditionsStay, AllResetTogether,
         PendingAreReady, [Next]_vars
  PROVE  PendingAreReady'
<1>1. SUFFICES ASSUME Patient, NEW n \in ToSet(pendingQueue') PROVE Ready(n)'
  BY PatientForEver DEF PendingAreReady
<1>2. CASE n \in ToSet(pendingQueue)
  BY <1>1, <1>2, LastingLasts DEF PendingAreReady
<1>3. CASE n \notin ToSet(pendingQueue)
  <2>1. CASE \E m \in Node : CheckCandidate(m)
    <3>1. PICK m \in Node : CheckCandidate(m)
      BY <2>1
    <3>2. m = n /\ Evaluated(n).state = "EXECUTING" /\ Resources(n) # {}
      BY <1>1, <1>3, <3>1, CheckCandidateStatus
    <3>3. Ready(n)
      BY <3>1, <3>2, EvaluatedToExecute DEF Ready
    <3>4. UNCHANGED condVars
      BY <3>1 DEF CheckCandidate
    <3>5. \A c : Value(condition[n][c])' = Value(condition[n][c])
      BY <3>4, SameValue DEF condVars
    <3> QED  BY <3>3, <3>5 DEF Ready
  <2>2. CASE \E m \in Node :
               KeepPending(m) \/ DropPending(m) \/ AcquireResources(m) \/ FailToAcquire(m)
    BY <1>1, <1>3, <2>2, KeepPendingStatus, DropPendingStatus, AcquireResourcesStatus,
       FailToAcquireStatus
  <2>3. CASE \E m \in Node : TransitionNode(m)
    BY <1>1, <1>3, <2>3 DEF TransitionNode
  <2>4. CASE /\ Next
             /\ ~\E m \in Node :
                   \/ CheckCandidate(m) \/ KeepPending(m) \/ DropPending(m)
                   \/ AcquireResources(m) \/ FailToAcquire(m) \/ TransitionNode(m)
    BY <1>1, <1>3, <2>4, OtherStepsTell
  <2>5. CASE UNCHANGED vars
    BY <1>1, <1>3, <2>5 DEF vars
  <2> QED  BY <2>1, <2>2, <2>3, <2>4, <2>5
<1> QED  BY <1>2, <1>3

LEMMA ResetTogetherAlways == Spec => []AllResetTogether
<1>1. Init => AllResetTogether
  <2>1. Init => ToSet(stateChangeQueue) = {}
    BY DEF Init, ToSet
  <2> QED  BY <2>1 DEF AllResetTogether, ResetTogether
<1>2. TypeOK /\ QueuesAreSound /\ FinishedAreSound /\ ConditionsStay /\ ListsAreSteady
        /\ ListsAreSteady' /\ AllResetTogether /\ [Next]_vars => AllResetTogether'
  BY AllStayReset
<1> QED
  BY <1>1, <1>2, TypeCorrect, SoundQueuesAlways, FinishedAlways, ConditionsAlways,
     ListsAlwaysSteady, PTL DEF Spec

LEMMA ReadyAlways == Spec => []PendingAreReady
<1>1. Init => PendingAreReady
  <2>1. Init => ToSet(pendingQueue) = {}
    BY DEF Init, ToSet
  <2> QED  BY <2>1 DEF PendingAreReady
<1>2. TypeOK /\ QueuesAreSound /\ FinishedAreSound /\ ConditionsStay /\ AllResetTogether
        /\ PendingAreReady /\ [Next]_vars => PendingAreReady'
  BY PendingStayReady
<1> QED
  BY <1>1, <1>2, TypeCorrect, SoundQueuesAlways, FinishedAlways, ConditionsAlways,
     ResetTogetherAlways, PTL DEF Spec

LEMMA PatientDropsEnd ==
  ASSUME TypeOK, QueuesAreSound, FinishedAreSound, PendingAreReady, Patient, NEW n \in Node,
         DropPending(n)
  PROVE  Evaluated(n).state = "FINISHED" /\ next'[n] = Evaluated(n) /\ ~IsRoot(n)
<1>1. /\ n \in ToSet(pendingQueue) /\ Evaluated(n).state # "EXECUTING" /\ next'[n] = Evaluated(n)
  BY DropPendingStatus
<1>2. Ready(n) /\ state[n] = "WAITING" /\ ~IsRoot(n)
  BY <1>1 DEF PendingAreReady, QueuesAreSound, PendingIsSound, IsPending, Patient, Ready
<1> DEFINE c == ValuesOf(n)
           d == DestState(Type[n], state[n], c)
<1>3. c.start = "T" /\ c.pre = "T"
  BY <1>2 DEF ValuesOf, Ready
<1>4. Evaluated(n).state = d.state
  BY DEF Evaluated, c, d
<1> HIDE DEF c
<1>5. d.state \in {"FINISHED", "EXECUTING"}
  BY <1>2, <1>3 DEF DestState, FromWaiting, To, ToState
<1> QED  BY <1>1, <1>2, <1>4, <1>5

LEMMA PatientLosesNobody == Spec /\ []Patient => []NobodyIsLost
<1>1. Init => NobodyIsLost
  BY DEF Init, NobodyIsLost, PendingStatus
<1>2. TypeOK /\ QueuesAreSound /\ FinishedAreSound /\ PendingAreReady /\ Patient /\ NobodyIsLost
        /\ [Next]_vars => NobodyIsLost'
  <2>1. CASE UNCHANGED vars
    BY <2>1 DEF NobodyIsLost, vars, queueVars
  <2>2. ASSUME TypeOK, QueuesAreSound, FinishedAreSound, PendingAreReady, Patient, NobodyIsLost,
               Next, NEW m \in Node, queueStatus'[m] \in PendingStatus
        PROVE  m \in ToSet(pendingQueue') \cup ToSet(stateChangeQueue')
    <3>1. ~(DropPending(m) /\ Evaluated(m).state = "NO_STATE")
      BY <2>2, PatientDropsEnd
    <3> QED  BY <2>2, <3>1, StatusesFollow DEF NobodyIsLost
  <2> QED  BY <2>1, <2>2 DEF NobodyIsLost
<1> QED
  BY <1>1, <1>2, TypeCorrect, SoundQueuesAlways, FinishedAlways, ReadyAlways, PTL DEF Spec

LEMMA PatientOrNot == Spec => []Patient \/ []~Patient
<1>1. ConditionsStay /\ [Next]_vars => (Patient' <=> Patient)
  BY PatientForEver
<1> QED  BY <1>1, ConditionsAlways, PTL DEF Spec

LEMMA PatientIsSteady == Patient => Steady
BY DEF Patient

\* In a patient plan no change of a condition is missed: whatever the nodes, the conditions
\* they have and the order in which they are told of changes, when the executive is quiescent
\* no node but those that wait for resources has anywhere to go.
THEOREM PatientMissesNoTransition == Spec => []PatientNoMissedTransition
<1>1. /\ NoMissedTransition => PatientNoMissedTransition
      /\ ~Patient => PatientNoMissedTransition
  BY DEF PatientNoMissedTransition
<1>2. Spec /\ []Patient => []AtRestInside
  BY PatientIsSteady, SteadyAtRest, PTL
<1> QED
  BY <1>1, <1>2, PatientOrNot, PatientLosesNobody, NoTransitionMissed, PTL

LEMMA PatientWalksGoOn == Spec /\ []Patient => WalksGoOn
<1>1. TypeOK /\ QueuesAreSound /\ FinishedAreSound /\ PendingAreReady /\ Patient /\ [Next]_vars
        => [GoesOn]_vars
  BY PatientDropsEnd DEF GoesOn
<1> QED
  BY <1>1, TypeCorrect, SoundQueuesAlways, FinishedAlways, ReadyAlways, PTL DEF Spec, WalksGoOn

\* In a patient plan no node waits in vain: a node that is left on the pending queue needs
\* something that a node which runs is holding.
PatientWaitsForRunning ==
  Patient /\ Quiescent => \A n \in ToSet(pendingQueue) :
    \E r \in Resources(n) : holder[r] # None /\ state[holder[r]] \in Running

THEOREM PatientsWait == Spec => []PatientWaitsForRunning
<1> DEFINE Waits == Quiescent => \A n \in ToSet(pendingQueue) :
                      \E r \in Resources(n) : holder[r] # None /\ state[holder[r]] \in Running
<1>1. /\ Waits => PatientWaitsForRunning
      /\ ~Patient => PatientWaitsForRunning
  BY DEF PatientWaitsForRunning
<1>2. Spec /\ []Patient => NoMutexKept
  BY PatientIsSteady, SteadyKeepsNone, PTL
<1>3. Spec /\ NoMutexKept /\ WalksGoOn => []Waits
  BY NobodyWaitsInVain
<1> HIDE DEF Waits
<1> QED  BY <1>1, <1>2, <1>3, PatientOrNot, PatientWalksGoOn, PTL

-----------------------------------------------------------------------------
(* Deletion.  When the plan of a root that has ended is deleted, nothing   *)
(* is left that could bring one of its nodes back.                         *)

\* Who waits for a resource is on the pending queue and needs it.
WaitersArePending ==
  \A r \in Resource : \A n \in waiters[r] : n \in ToSet(pendingQueue) /\ r \in Resources(n)

LEMMA WaitersStayPending ==
  ASSUME TypeOK, QueuesAreSound, FinishedAreSound, WaitersArePending, [Next]_vars
  PROVE  WaitersArePending'
<1> USE DEF resourceVars
<1>1. ASSUME UNCHANGED waiters, ToSet(pendingQueue) \subseteq ToSet(pendingQueue')
      PROVE  WaitersArePending'
  BY <1>1 DEF WaitersArePending
<1>2. CASE UNCHANGED vars
  BY <1>1, <1>2 DEF vars
<1>3. ASSUME NEW n \in Node, CheckCandidate(n) \/ KeepPending(n) PROVE WaitersArePending'
  <2>1. UNCHANGED waiters
    BY <1>3 DEF CheckCandidate, KeepPending
  <2>2. ToSet(pendingQueue) \subseteq ToSet(pendingQueue')
    BY <1>3, CheckCandidateStatus, KeepPendingStatus
  <2> QED  BY <1>1, <2>1, <2>2
<1>4. ASSUME NEW n \in Node, DropPending(n) \/ AcquireResources(n) PROVE WaitersArePending'
  <2>1. waiters' = [r \in Resource |-> waiters[r] \ (IF r \in Resources(n) THEN {n} ELSE {})]
    BY <1>4 DEF DropPending, AcquireResources
  <2>2. ToSet(pendingQueue') = ToSet(pendingQueue) \ {n}
    BY <1>4, DropPendingStatus, AcquireResourcesStatus
  <2> QED  BY <2>1, <2>2 DEF WaitersArePending
<1>5. ASSUME NEW n \in Node, FailToAcquire(n) PROVE WaitersArePending'
  <2>1. waiters' = [r \in Resource |-> waiters[r] \cup (IF r \in Resources(n) THEN {n} ELSE {})]
    BY <1>5 DEF FailToAcquire
  <2>2. n \in ToSet(pendingQueue) /\ UNCHANGED pendingQueue
    BY <1>5, FailToAcquireStatus
  <2> QED  BY <2>1, <2>2 DEF WaitersArePending
<1>6. ASSUME NEW n \in Node, TransitionNode(n) PROVE WaitersArePending'
  BY <1>1, <1>6 DEF TransitionNode
<1>7. CASE /\ Next
           /\ ~\E n \in Node :
                 \/ CheckCandidate(n) \/ KeepPending(n) \/ DropPending(n)
                 \/ AcquireResources(n) \/ FailToAcquire(n) \/ TransitionNode(n)
  BY <1>1, <1>7, OtherStepsTell
<1> QED  BY <1>2, <1>3, <1>4, <1>5, <1>6, <1>7

\* What is finished is a root that has ended.
RootsHaveEnded == \A n \in ToSet(finishedRootNodes) : IsRoot(n) /\ state[n] = "FINISHED"

LEMMA RootsStayEnded ==
  ASSUME TypeOK, QueuesAreSound, FinishedAreSound, RootsHaveEnded, [Next]_vars
  PROVE  RootsHaveEnded'
<1> USE DEF planVars, condVars
<1>1. ASSUME UNCHANGED state, ToSet(finishedRootNodes') \subseteq ToSet(finishedRootNodes)
      PROVE  RootsHaveEnded'
  BY <1>1 DEF RootsHaveEnded
<1>2. CASE UNCHANGED vars
  BY <1>1, <1>2 DEF vars
<1>3. ASSUME NEW n \in Node,
             \/ CheckCandidate(n) \/ KeepPending(n) \/ DropPending(n)
             \/ AcquireResources(n) \/ FailToAcquire(n)
      PROVE  RootsHaveEnded'
  BY <1>1, <1>3 DEF CheckCandidate, KeepPending, DropPending, AcquireResources, FailToAcquire
<1>4. ASSUME NEW n \in Node, TransitionNode(n) PROVE RootsHaveEnded'
  <2>1. n \in ToSet(stateChangeQueue)
    BY <1>4, TailFacts DEF TransitionNode, TypeOK
  <2>2. n \notin ToSet(finishedRootNodes)
    BY <2>1 DEF QueuesAreSound, ChangesAreSound, CanMove, PendingStatus, FinishedAreSound
  <2>3. state'[n] = next[n].state /\ \A m \in Node \ {n} : state'[m] = state[m]
    BY <1>4 DEF TransitionNode, TypeOK
  <2>4. finishedRootNodes' = IF IsFinish(n) THEN Append(finishedRootNodes, n)
                             ELSE finishedRootNodes
    BY <1>4 DEF TransitionNode
  <2>5. ToSet(Append(finishedRootNodes, n)) = ToSet(finishedRootNodes) \cup {n}
    BY AppendFacts DEF TypeOK
  <2>6. ToSet(finishedRootNodes) \subseteq Node
    BY ElementFacts DEF TypeOK
  <2>7. \A m \in ToSet(finishedRootNodes) : IsRoot(m) /\ state'[m] = "FINISHED"
    BY <2>2, <2>3, <2>6 DEF RootsHaveEnded
  <2>8. CASE IsFinish(n)
    BY <2>3, <2>4, <2>5, <2>7, <2>8 DEF RootsHaveEnded, IsFinish
  <2>9. CASE ~IsFinish(n)
    BY <2>4, <2>7, <2>9 DEF RootsHaveEnded
  <2> QED  BY <2>8, <2>9
<1>5. CASE World
  <2>1. UNCHANGED state
    BY <1>5 DEF World, WorldUnchanged, AddPlan, DeleteFinishedPlans, LookupReturn,
           CommandHandleReturn, CommandReturn, CommandAbortAcknowledge, UpdateAcknowledge
  <2>2. finishedRootNodes' = finishedRootNodes \/ finishedRootNodes' = <<>>
    BY <1>5 DEF World, AddPlan, DeleteFinishedPlans, LookupReturn,
           CommandHandleReturn, CommandReturn, CommandAbortAcknowledge, UpdateAcknowledge
  <2>3. ToSet(<<>>) = {}
    BY DEF ToSet
  <2> QED  BY <1>1, <2>1, <2>2, <2>3
<1>6. ASSUME NEW n \in Node,
             \/ ExecuteAssignment(n) \/ RetractAssignment(n) \/ ExecuteCommand(n)
             \/ InvokeAbort(n) \/ ExecuteUpdate(n)
      PROVE  RootsHaveEnded'
  BY <1>1, <1>6 DEF ExecuteAssignment, RetractAssignment, ExecuteCommand, InvokeAbort,
                    ExecuteUpdate, EffectsUnchanged
<1>7. CASE StartStep \/ AllChecked \/ GroupDone \/ BatchDone \/ StepDone
  BY <1>1, <1>7 DEF StartStep, AllChecked, GroupDone, BatchDone, StepDone
<1> QED  BY <1>2, <1>3, <1>4, <1>5, <1>6, <1>7 DEF Next, Step

LEMMA UntoldStays ==
  ASSUME NEW q, NEW S, NEW m \in Node, m \notin S
  PROVE  Notify(q, S).status[m] = q.status[m]
BY DEF Notify

\* A move leaves the status of the nodes it does not tell, but for a resource they wait for.
LEMMA MovedUntold ==
  ASSUME TypeOK, QueuesAreSound, FinishedAreSound, NEW n \in Node, n \in ToSet(stateChangeQueue),
         NEW m \in Node, m # n, m \notin Initialized(n), Type[n] = "List" => m \notin ToldChildren(n)
  PROVE  Moved(n).status[m] \in {queueStatus[m], Available(queueStatus[m])}
<1> DEFINE popped == WithStatus(queues, n, "NONE")
           rechecked == IF queueStatus[n] = "TRANSITION_CHECK" THEN Notify(popped, {n})
                        ELSE popped
           freed == NotifyAvailable(rechecked, ReleasedByHolder(n))
           ready == Notify(freed, Initialized(n))
           told == IF IsFinish(n) THEN Finish(ready, n) ELSE Notify(ready, {n})
<1>1. TypedQueues(popped) /\ popped.status[m] = queueStatus[m]
  <2>1. TypedQueues(popped)
    BY QueuesTyped, WithStatusTyped, OtherStatuses
  <2>2. Differ(queueStatus, popped.status, n, "NONE")
    BY StatusNow, WithStatusIs, OtherStatuses
  <2> HIDE DEF popped
  <2> QED  BY <2>1, <2>2 DEF Differ
<1>2. TypedQueues(rechecked) /\ rechecked.status[m] = queueStatus[m]
  <2>1. TypedQueues(Notify(popped, {n})) /\ Notify(popped, {n}).status[m] = popped.status[m]
    BY <1>1, NotifyTyped, UntoldStays
  <2> HIDE DEF popped
  <2> QED  BY <1>1, <2>1
<1>3. TypedQueues(freed) /\ freed.status[m] \in {queueStatus[m], Available(queueStatus[m])}
  <2> HIDE DEF rechecked
  <2>1. freed.status[m] \in {rechecked.status[m], Available(rechecked.status[m])}
    BY DEF NotifyAvailable
  <2> QED  BY <1>2, <2>1, NotifyAvailableTyped
<1>4. TypedQueues(ready) /\ ready.status[m] = freed.status[m]
  <2>1. Initialized(n) \in SUBSET Node
    BY DEF Initialized, Listening, Listeners
  <2> HIDE DEF freed
  <2> QED  BY <1>3, <2>1, NotifyTyped, UntoldStays
<1>5. told.status[m] = ready.status[m]
  <2> HIDE DEF ready
  <2>1. Notify(ready, {n}).status[m] = ready.status[m]
    BY UntoldStays
  <2>2. Finish(ready, n).status[m] = ready.status[m]
    <3>1. ready.status \in [Node -> QueueStatus]
      BY <1>4 DEF TypedQueues
    <3>2. Finish(ready, n).status \in {ready.status, [ready.status EXCEPT ![n] = "DELETE"]}
      BY DEF Finish, WithStatus, WithFault
    <3> QED  BY <3>1, <3>2
  <2> QED  BY <2>1, <2>2
<1>6. Moved(n).status[m] = told.status[m]
  <2>1. ToldChildren(n) \in SUBSET Node
    BY DEF ToldChildren, Children
  <2>2. Moved(n) = IF Type[n] = "List" THEN Notify(told, ToldChildren(n)) ELSE told
    BY DEF Moved
  <2> HIDE DEF told
  <2> QED  BY <2>1, <2>2, UntoldStays
<1> HIDE DEF popped, rechecked, freed, ready, told
<1> QED  BY <1>3, <1>4, <1>5, <1>6

\* What is deleted is all of a tree: its root waits for nothing, and no queue that could move
\* them has any of its nodes.
IsGone(n) ==
  /\ IF IsRoot(n) THEN state[n] = "FINISHED" /\ queueStatus[n] = "DELETE"
     ELSE Parent[n] \in deleted
  /\ queueStatus[n] # "CHECK" /\ n \notin ToSet(stateChangeQueue)

DeletedAreGone == Steady => \A n \in deleted : IsGone(n)

\* Below a root that has ended, in a steady plan, everything has ended or never began.
LEMMA DeletedRest ==
  ASSUME TypeOK, Steady, ListsAreSteady, DeletedAreGone, NEW n \in deleted
  PROVE  state[n] \in {"INACTIVE", "FINISHED"}
<1> DEFINE Fine == {m \in Node : m \in deleted => state[m] \in {"INACTIVE", "FINISHED"}}
<1>1. ASSUME NEW m \in Node, IsRoot(m) \/ Parent[m] \in Fine PROVE m \in Fine
  <2>1. SUFFICES ASSUME m \in deleted PROVE state[m] \in {"INACTIVE", "FINISHED"}
    OBVIOUS
  <2>2. IsGone(m) /\ StaysInside(m)
    BY <1>1, <2>1 DEF DeletedAreGone, ListsAreSteady
  <2>3. CASE IsRoot(m)
    BY <2>2, <2>3 DEF IsGone
  <2>4. CASE ~IsRoot(m)
    <3>1. state[Parent[m]] \notin Running
      BY <1>1, <2>2, <2>4 DEF IsGone, Running
    <3> QED  BY <2>2, <2>4, <3>1 DEF StaysInside
  <2> QED  BY <2>3, <2>4
<1>2. Fine \in SUBSET Node
  OBVIOUS
<1> HIDE DEF Fine
<1>3. Fine = Node
  BY <1>1, <1>2, DownTheTree
<1> QED  BY <1>3 DEF Fine, TypeOK

\* The other steps tell no node of what is deleted.
LEMMA DeletedUntold ==
  ASSUME TypeOK, EffectsAreSound, Steady, ListsAreSteady, DeletedAreGone, Next,
         ~\E n \in Node :
             \/ CheckCandidate(n) \/ KeepPending(n) \/ DropPending(n)
             \/ AcquireResources(n) \/ FailToAcquire(n) \/ TransitionNode(n),
         NEW m \in deleted
  PROVE  queueStatus'[m] = queueStatus[m]
<1> USE DEF queueVars
<1>0. m \in Node /\ state[m] \in {"INACTIVE", "FINISHED"} /\ queues.status = queueStatus
  BY DeletedRest, StatusNow DEF TypeOK
<1>1. \A source : m \notin Listening(source)
  BY DEF Listening
<1>2. ASSUME NEW S, m \notin S, QueuesBecome(Notify(queues, S))
      PROVE  queueStatus'[m] = queueStatus[m]
  BY <1>0, <1>2, UntoldStays DEF QueuesBecome
<1>3. ASSUME NEW n \in Node, ExecuteAssignment(n) \/ RetractAssignment(n)
      PROVE  queueStatus'[m] = queueStatus[m]
  <2>1. n \in ToSet(assignmentsToExecute) \/ n \in ToSet(assignmentsToRetract)
    BY <1>3, TailFacts DEF ExecuteAssignment, RetractAssignment, TypeOK
  <2>2. n # m
    BY <1>0, <2>1 DEF EffectsAreSound, QueuedFor
  <2>3. \E v : SetVariable(n, v)
    BY <1>3 DEF ExecuteAssignment, RetractAssignment
  <2>4. PICK S : m \notin S /\ QueuesBecome(Notify(Notify(queues, S), {n}))
    BY <1>1, <2>3 DEF SetVariable
  <2>5. /\ Notify(queues, S).status[m] = queueStatus[m]
        /\ Notify(Notify(queues, S), {n}).status[m] = Notify(queues, S).status[m]
    BY <1>0, <2>2, <2>4, UntoldStays
  <2> QED  BY <2>4, <2>5 DEF QueuesBecome
<1>4. ASSUME NEW n \in Node, n # m, NEW h, SetCommandHandle(n, h)
      PROVE  queueStatus'[m] = queueStatus[m]
  <2>1. \E S : m \notin S /\ QueuesBecome(Notify(queues, S))
    BY <1>4 DEF SetCommandHandle
  <2> QED  BY <1>2, <2>1
<1>5. ASSUME NEW n \in Node, ExecuteCommand(n) PROVE queueStatus'[m] = queueStatus[m]
  <2>1. n \in ToSet(commandsToExecute)
    BY <1>5, TailFacts DEF ExecuteCommand, TypeOK
  <2>2. n # m
    BY <1>0, <2>1 DEF EffectsAreSound, QueuedFor
  <2> QED  BY <1>4, <1>5, <2>2 DEF ExecuteCommand
<1>6. ASSUME World PROVE queueStatus'[m] = queueStatus[m]
  <2>1. ASSUME NEW n \in Node, NEW h \in Handle, CommandHandleReturn(n, h)
        PROVE  queueStatus'[m] = queueStatus[m]
    <3>1. n # m
      BY <2>1 DEF CommandHandleReturn, Answerable
    <3> QED  BY <1>4, <2>1, <3>1 DEF CommandHandleReturn
  <2>2. ASSUME NEW n \in Node,
               \/ AddPlan(n)
               \/ \E v \in TruthValue : CommandReturn(n, v)
               \/ \E b \in BOOLEAN : CommandAbortAcknowledge(n, b)
               \/ \E b \in BOOLEAN : UpdateAcknowledge(n, b)
        PROVE  queueStatus'[m] = queueStatus[m]
    <3>1. \E S : m \notin S /\ QueuesBecome(Notify(queues, S))
      BY <1>1, <2>2 DEF AddPlan, CommandReturn, CommandAbortAcknowledge, UpdateAcknowledge,
                        Answerable
    <3> QED  BY <1>2, <3>1
  <2>3. ASSUME NEW l \in Lookup, NEW v \in TruthValue, LookupReturn(l, v)
        PROVE  queueStatus'[m] = queueStatus[m]
    BY <1>1, <1>2, <2>3 DEF LookupReturn
  <2>4. ASSUME DeleteFinishedPlans PROVE queueStatus'[m] = queueStatus[m]
    BY <2>4 DEF DeleteFinishedPlans
  <2> QED  BY <1>6, <2>1, <2>2, <2>3, <2>4 DEF World
<1>7. ASSUME StartStep \/ AllChecked \/ GroupDone \/ BatchDone \/ StepDone
      PROVE  queueStatus'[m] = queueStatus[m]
  BY <1>7 DEF StartStep, AllChecked, GroupDone, BatchDone, StepDone
<1>8. ASSUME NEW n \in Node, InvokeAbort(n) \/ ExecuteUpdate(n)
      PROVE  queueStatus'[m] = queueStatus[m]
  BY <1>8 DEF InvokeAbort, ExecuteUpdate
<1> QED  BY <1>3, <1>5, <1>6, <1>7, <1>8 DEF Next, Step

LEMMA DeletedStayGone ==
  ASSUME TypeOK, QueuesAreSound, FinishedAreSound, EffectsAreSound, ConditionsStay,
         ListsAreSteady, RootsHaveEnded, DeletedAreGone, [Next]_vars
  PROVE  DeletedAreGone'
<1> USE DEF condVars, planVars
<1>1. SUFFICES ASSUME Steady, NEW n \in deleted' PROVE IsGone(n)'
  BY SteadyForEver DEF DeletedAreGone
<1>2. ASSUME n \in deleted, deleted \subseteq deleted', state'[n] = state[n],
             queueStatus'[n] \in {queueStatus[n], Available(queueStatus[n])},
             n \in ToSet(stateChangeQueue') => n \in ToSet(stateChangeQueue)
      PROVE  IsGone(n)'
  <2>1. IsGone(n)
    BY <1>1, <1>2 DEF DeletedAreGone
  <2>2. /\ queueStatus[n] = "DELETE" => queueStatus'[n] = "DELETE"
        /\ queueStatus[n] # "CHECK" => queueStatus'[n] # "CHECK"
    BY <1>2 DEF Available
  <2>3. IsRoot(n)' <=> IsRoot(n)
    BY DEF IsRoot
  <2> QED  BY <1>2, <2>1, <2>2, <2>3 DEF IsGone
<1>3. CASE UNCHANGED vars
  BY <1>1, <1>2, <1>3 DEF vars, queueVars
<1>4. ASSUME NEW k \in Node,
             \/ CheckCandidate(k) \/ KeepPending(k) \/ DropPending(k)
             \/ AcquireResources(k) \/ FailToAcquire(k)
      PROVE  IsGone(n)'
  <2>1. UNCHANGED <<state, deleted>>
    BY <1>4 DEF CheckCandidate, KeepPending, DropPending, AcquireResources, FailToAcquire
  <2>2. n \in deleted /\ n \in Node
    BY <1>1, <2>1 DEF TypeOK
  <2>3. queueStatus[n] # "CHECK" /\ n \notin ToSet(pendingQueue)
    <3>1. IsGone(n) /\ state[n] \in {"INACTIVE", "FINISHED"}
      BY <1>1, <2>2, DeletedRest DEF DeletedAreGone
    <3> QED  BY <3>1 DEF IsGone, QueuesAreSound, PendingIsSound, IsPending
  <2>4. k # n
    BY <1>4, <2>3, CheckCandidateStatus, KeepPendingStatus, DropPendingStatus,
       AcquireResourcesStatus, FailToAcquireStatus
  <2>5. queueStatus'[n] \in {queueStatus[n], Available(queueStatus[n])}
    <3>1. CASE CheckCandidate(k) \/ KeepPending(k) \/ DropPending(k) \/ AcquireResources(k)
      <4>1. OthersStay(k)
        BY <3>1, CheckCandidateStatus, KeepPendingStatus, DropPendingStatus,
           AcquireResourcesStatus
      <4> QED  BY <2>2, <2>4, <4>1 DEF OthersStay
    <3>2. CASE FailToAcquire(k)
      BY <2>2, <2>4, <3>2, FailToAcquireStatus
    <3> QED  BY <1>4, <3>1, <3>2
  <2>6. n \in ToSet(stateChangeQueue') => n \in ToSet(stateChangeQueue)
    BY <1>4, <2>4, WhatIsQueued DEF Queued
  <2> QED  BY <1>2, <2>1, <2>2, <2>5, <2>6
<1>5. ASSUME NEW k \in Node, TransitionNode(k) PROVE IsGone(n)'
  <2>1. /\ state' = [state EXCEPT ![k] = next[k].state] /\ UNCHANGED deleted
        /\ stateChangeQueue # <<>> /\ k = Head(stateChangeQueue)
        /\ stateChangeQueue' = Tail(stateChangeQueue)
        /\ QueuesBecome(Notify(Moved(k), Listening(StateOf(k))'))
    BY <1>5 DEF TransitionNode
  <2>2. k \in ToSet(stateChangeQueue) /\ ToSet(stateChangeQueue') = ToSet(stateChangeQueue) \ {k}
    BY <2>1, TailFacts DEF TypeOK, QueuesAreSound, ChangesAreSound
  <2>3. n \in deleted /\ n \in Node /\ k \notin deleted
    BY <1>1, <2>1, <2>2 DEF TypeOK, DeletedAreGone, IsGone
  <2>4. /\ n # k /\ n \notin Initialized(k) /\ n \notin Listening(StateOf(k))'
        /\ n \notin ToldChildren(k)
    <3>1. n \notin ToldChildren(k)
      <4>1. SUFFICES ASSUME Parent[n] = k PROVE FALSE
        BY DEF ToldChildren, Children
      <4>2. ~IsRoot(n)
        BY <4>1, PlanAssumption DEF IsRoot
      <4> QED  BY <1>1, <2>3, <4>1, <4>2 DEF DeletedAreGone, IsGone
    <3>2. n \notin Initialized(k)
      BY <2>3 DEF Initialized, Listening
    <3>3. n \notin Listening(StateOf(k))'
      BY <1>1 DEF Listening
    <3> QED  BY <2>3, <3>1, <3>2, <3>3
  <2>5. Moved(k).status[n] \in {queueStatus[n], Available(queueStatus[n])}
    BY <2>2, <2>3, <2>4, MovedUntold
  <2>6. queueStatus'[n] = Moved(k).status[n]
    BY <2>1, <2>3, <2>4, UntoldStays DEF QueuesBecome
  <2>7. state'[n] = state[n]
    BY <2>1, <2>4 DEF TypeOK
  <2> QED  BY <1>2, <2>1, <2>2, <2>3, <2>5, <2>6, <2>7
<1>6. CASE DeleteFinishedPlans
  <2> DEFINE roots == ToSet(finishedRootNodes)
  <2>1. /\ candidateQueue = <<>> /\ phase = "idle"
        /\ deleted' = deleted \cup {m \in Node : m \in roots \/ Ancestors[m] \cap roots # {}}
        /\ UNCHANGED <<state, queueStatus, stateChangeQueue>>
    BY <1>6 DEF DeleteFinishedPlans, WorldUnchanged, queueVars
  <2>2. CASE n \in deleted
    BY <1>2, <2>1, <2>2
  <2>3. CASE n \notin deleted
    <3>1. n \in Node /\ (n \in roots \/ Ancestors[n] \cap roots # {})
      BY <1>1, <2>1, <2>3
    <3>2. queueStatus[n] # "CHECK" /\ n \notin ToSet(stateChangeQueue)
      BY <2>1, <3>1 DEF QueuesAreSound, CandidatesAreSound, ChangesAreSound, ToSet
    <3>3. CASE IsRoot(n)
      <4>1. n \in roots
        BY <3>1, <3>3, AncestorsAre
      <4> QED  BY <2>1, <3>2, <3>3, <4>1 DEF IsGone, RootsHaveEnded, FinishedAreSound, IsRoot
    <3>4. CASE ~IsRoot(n)
      <4>1. n \notin roots
        BY <3>4 DEF RootsHaveEnded
      <4>2. Parent[n] \in deleted'
        BY <2>1, <3>1, <3>4, <4>1, ParentFacts
      <4> QED  BY <2>1, <3>2, <3>4, <4>2 DEF IsGone, IsRoot
    <3> QED  BY <3>3, <3>4
  <2> QED  BY <2>2, <2>3
<1>7. CASE /\ Next /\ ~DeleteFinishedPlans
           /\ ~\E k \in Node :
                 \/ CheckCandidate(k) \/ KeepPending(k) \/ DropPending(k)
                 \/ AcquireResources(k) \/ FailToAcquire(k) \/ TransitionNode(k)
  <2>1. UNCHANGED <<state, stateChangeQueue>>
    BY <1>7, OtherStepsTell
  <2>2. UNCHANGED deleted
    <3>1. World => UNCHANGED deleted
      BY <1>7 DEF World, AddPlan, LookupReturn, CommandHandleReturn, CommandReturn,
                  CommandAbortAcknowledge, UpdateAcknowledge
    <3>2. ASSUME NEW k \in Node,
                 \/ ExecuteAssignment(k) \/ RetractAssignment(k) \/ ExecuteCommand(k)
                 \/ InvokeAbort(k) \/ ExecuteUpdate(k)
          PROVE  UNCHANGED deleted
      BY <3>2 DEF ExecuteAssignment, RetractAssignment, ExecuteCommand, InvokeAbort,
                  ExecuteUpdate, EffectsUnchanged
    <3>3. StartStep \/ AllChecked \/ GroupDone \/ BatchDone \/ StepDone => UNCHANGED deleted
      BY DEF StartStep, AllChecked, GroupDone, BatchDone, StepDone
    <3> QED  BY <1>7, <3>1, <3>2, <3>3 DEF Next, Step
  <2>3. queueStatus'[n] = queueStatus[n]
    BY <1>1, <1>7, <2>2, DeletedUntold
  <2> QED  BY <1>1, <1>2, <2>1, <2>2, <2>3
<1> QED  BY <1>3, <1>4, <1>5, <1>6, <1>7

LEMMA GoneForEver == Spec => [](WaitersArePending /\ DeletedAreGone)
<1>1. Init => WaitersArePending /\ RootsHaveEnded /\ DeletedAreGone
  BY DEF Init, WaitersArePending, RootsHaveEnded, DeletedAreGone, ToSet
<1>2. TypeOK /\ QueuesAreSound /\ FinishedAreSound /\ WaitersArePending /\ [Next]_vars
        => WaitersArePending'
  BY WaitersStayPending
<1>3. TypeOK /\ QueuesAreSound /\ FinishedAreSound /\ RootsHaveEnded /\ [Next]_vars
        => RootsHaveEnded'
  BY RootsStayEnded
<1>4. TypeOK /\ QueuesAreSound /\ FinishedAreSound /\ EffectsAreSound /\ ConditionsStay
        /\ ListsAreSteady /\ RootsHaveEnded /\ DeletedAreGone /\ [Next]_vars => DeletedAreGone'
  BY DeletedStayGone
<1> QED
  BY <1>1, <1>2, <1>3, <1>4, TypeCorrect, SoundQueuesAlways, FinishedAlways, EffectsAlways,
     ConditionsAlways, ListsAlwaysSteady, PTL DEF Spec

\* When a steady plan is deleted, no queue, no resource and no waiting list of the executive
\* refers to any of its nodes, and none ever will: the root ends after everything below it,
\* and nobody tells a node of a deleted plan of anything.
THEOREM SteadyLeavesNothing == Spec => []SteadyNothingDangles
<1>1. TypeOK /\ QueuesAreSound /\ EffectsAreSound /\ ListsAreSteady /\ WaitersArePending
        /\ DeletedAreGone /\ HoldersAreSound /\ Steady => NothingDangles
  <2>1. SUFFICES ASSUME TypeOK, QueuesAreSound, EffectsAreSound, ListsAreSteady,
                        WaitersArePending, DeletedAreGone, HoldersAreSound, Steady,
                        NEW n \in deleted
                 PROVE  /\ \A queue \in {candidateQueue, pendingQueue, stateChangeQueue,
                                         assignmentsToExecute, assignmentsToRetract,
                                         commandsToExecute, commandsToAbort, updatesToExecute} :
                             n \notin ToSet(queue)
                        /\ \A r \in Resource : holder[r] # n /\ n \notin waiters[r]
    BY DEF NothingDangles
  <2>2. state[n] \in {"INACTIVE", "FINISHED"} /\ IsGone(n) /\ n \in Node /\ n # None
    BY <2>1, DeletedRest, PlanAssumption DEF DeletedAreGone, TypeOK
  <2>3. /\ n \notin ToSet(candidateQueue) /\ n \notin ToSet(pendingQueue)
        /\ n \notin ToSet(stateChangeQueue)
    BY <2>1, <2>2 DEF IsGone, QueuesAreSound, CandidatesAreSound, PendingIsSound, IsPending
  <2>4. /\ n \notin ToSet(assignmentsToExecute) /\ n \notin ToSet(assignmentsToRetract)
        /\ n \notin ToSet(commandsToExecute) /\ n \notin ToSet(commandsToAbort)
        /\ n \notin ToSet(updatesToExecute)
    BY <2>1, <2>2 DEF EffectsAreSound, QueuedFor
  <2>5. \A r \in Resource : holder[r] # n /\ n \notin waiters[r]
    BY <2>1, <2>2, <2>3 DEF HoldersAreSound, HolderIsSound, WaitersArePending, Running
  <2> QED  BY <2>3, <2>4, <2>5
<1>2. /\ NothingDangles => SteadyNothingDangles
      /\ ~Steady => SteadyNothingDangles
  BY DEF SteadyNothingDangles
<1> QED
  BY <1>1, <1>2, TypeCorrect, SoundQueuesAlways, EffectsAlways, ListsAlwaysSteady, GoneForEver,
     HoldersAlways, SteadyKeepsNone, SteadyOrNot, PTL

-----------------------------------------------------------------------------
(* Releases.  Who is left on the pending queue wants to execute still: what *)
(* could have changed its mind has told it, and it has been looked at.      *)

\* A pending node with such a status is evaluated again when the walk comes to it.
CheckStatus == {"PENDING_CHECK", "PENDING_TRY_CHECK"}

\* What was last found of the node holds.
Current(m) == m \in ToSet(priorityNodes) \/ queueStatus[m] \notin CheckStatus

\* Neither its exit condition nor its skip condition says that it is done.
Willing(m) == Undecided(m, "exit") /\ Undecided(m, "skip")

CurrentAreWilling == Patient => \A m \in ToSet(pendingQueue) : Current(m) => Willing(m)

AllCurrent == \A m \in ToSet(pendingQueue) : Current(m)

\* The walk over the pending queue looks at every node it passes; if it stops before the end,
\* or a node is told of a change later, there is another.
AllLookedAt ==
  Patient =>
    /\ phase \in {"gather", "acquire"} /\ cursor # None =>
         \A m \in Node : Precedes(pendingQueue, m, cursor) => Current(m)
    /\ phase = "acquire" /\ cursor = None => MoreToCome \/ AllCurrent
    /\ phase = "transition" => candidateQueue # <<>> \/ MoreToCome \/ AllCurrent
    /\ phase = "effects" => candidateQueue # <<>> \/ AllCurrent

\* Only a root waits for its deletion.
OnlyRootsEnd == \A n \in Node : queueStatus[n] = "DELETE" => IsRoot(n)

LEMMA EvaluatedWilling ==
  ASSUME TypeOK, NEW n \in Node, Evaluated(n).state = "EXECUTING"
  PROVE  Willing(n)
<1> DEFINE c == ValuesOf(n)
           d == DestState(Type[n], state[n], c)
<1>1. /\ c.exit = Value(condition[n]["exit"]) /\ c.skip = Value(condition[n]["skip"])
      /\ state[n] = "WAITING"
  BY EvaluatedFacts DEF ValuesOf
<1>2. Evaluated(n).state = d.state
  BY DEF Evaluated, c, d
<1> HIDE DEF c
<1> QED  BY <1>1, <1>2 DEF DestState, FromWaiting, To, ToState, NoTransition, Willing, Undecided

\* The checks of conditions and resources leave what is known of the other nodes.
LEMMA QueueingCurrent ==
  ASSUME TypeOK, QueuesAreSound, FinishedAreSound, NEW n \in Node,
         \/ CheckCandidate(n) \/ KeepPending(n) \/ DropPending(n)
         \/ AcquireResources(n) \/ FailToAcquire(n)
  PROVE  \A m \in Node \ {n} : Current(m)' <=> Current(m)
<1>1. CASE CheckCandidate(n)
  <2>1. OthersStay(n) /\ UNCHANGED priorityNodes
    BY <1>1, CheckCandidateStatus DEF CheckCandidate, resolveVars
  <2> QED  BY <2>1 DEF OthersStay, Current
<1>2. CASE KeepPending(n)
  <2>1. OthersStay(n)
    BY <1>2, KeepPendingStatus
  <2>2. priorityNodes' = priorityNodes \/ priorityNodes' = Append(priorityNodes, n)
    BY <1>2 DEF KeepPending
  <2>3. ToSet(Append(priorityNodes, n)) = ToSet(priorityNodes) \cup {n}
    BY AppendFacts DEF TypeOK
  <2>4. \A m \in Node \ {n} : m \in ToSet(priorityNodes') <=> m \in ToSet(priorityNodes)
    BY <2>2, <2>3
  <2> QED  BY <2>1, <2>4 DEF OthersStay, Current
<1>3. CASE DropPending(n)
  <2>1. OthersStay(n) /\ UNCHANGED priorityNodes
    BY <1>3, DropPendingStatus DEF DropPending
  <2> QED  BY <2>1 DEF OthersStay, Current
<1>4. CASE AcquireResources(n) \/ FailToAcquire(n)
  <2>1. priorityNodes # <<>> /\ n = Head(priorityNodes) /\ priorityNodes' = Tail(priorityNodes)
    BY <1>4 DEF AcquireResources, FailToAcquire
  <2>2. ToSet(priorityNodes') = ToSet(priorityNodes) \ {n}
    BY <2>1, FirstToTry
  <2>3. \A m \in Node \ {n} : queueStatus'[m] \in {queueStatus[m], Available(queueStatus[m])}
    BY <1>4, AcquireResourcesStatus, FailToAcquireStatus DEF OthersStay
  <2>4. ASSUME NEW s PROVE Available(s) \in CheckStatus <=> s \in CheckStatus
    <3>1. CASE s \in {"PENDING", "PENDING_CHECK"}
      BY <3>1 DEF Available, CheckStatus
    <3>2. CASE s \notin {"PENDING", "PENDING_CHECK"}
      BY <3>2 DEF Available, CheckStatus
    <3> QED  BY <3>1, <3>2
  <2>5. \A m \in Node \ {n} : queueStatus'[m] \in CheckStatus <=> queueStatus[m] \in CheckStatus
    BY <2>3, <2>4
  <2> QED  BY <2>2, <2>5 DEF Current
<1> QED  BY <1>1, <1>2, <1>3, <1>4

\* The node itself is evaluated, or was found to want to execute before.
LEMMA QueueingStaysWilling ==
  ASSUME TypeOK, QueuesAreSound, FinishedAreSound, Patient, CurrentAreWilling, NEW n \in Node,
         \/ CheckCandidate(n) \/ KeepPending(n) \/ DropPending(n)
         \/ AcquireResources(n) \/ FailToAcquire(n),
         NEW m \in ToSet(pendingQueue'), Current(m)'
  PROVE  m \in Node /\ Willing(m)'
<1>1. UNCHANGED condVars
  BY DEF CheckCandidate, KeepPending, DropPending, AcquireResources, FailToAcquire
<1>2. ToSet(pendingQueue) \subseteq Node
  BY ElementFacts DEF TypeOK
<1>3. \A k \in Node : Willing(k)' <=> Willing(k)
  BY <1>1, SameValue DEF Willing, Undecided, condVars
<1>4. ASSUME NEW k \in ToSet(pendingQueue), Current(k) PROVE Willing(k)
  BY <1>4 DEF CurrentAreWilling
<1>5. CASE CheckCandidate(n)
  <2>1. queueStatus[n] = "CHECK" /\ n \notin ToSet(pendingQueue)
    BY <1>5, CheckCandidateStatus DEF QueuesAreSound, PendingIsSound, IsPending, PendingStatus
  <2>2. CASE m = n
    <3>1. Evaluated(n).state = "EXECUTING"
      BY <1>5, <2>1, <2>2, CheckCandidateStatus
    <3> QED  BY <1>3, <2>2, <3>1, EvaluatedWilling
  <2>3. CASE m # n
    <3>1. m \in ToSet(pendingQueue)
      BY <1>5, <2>3, CheckCandidateStatus
    <3> QED  BY <1>2, <1>3, <1>4, <1>5, <2>3, <3>1, QueueingCurrent
  <2> QED  BY <2>2, <2>3
<1>6. CASE KeepPending(n) \/ FailToAcquire(n)
  <2>1. n \in ToSet(pendingQueue) /\ UNCHANGED pendingQueue
    BY <1>6, KeepPendingStatus, FailToAcquireStatus
  <2>2. Willing(n)
    <3>1. CASE FailToAcquire(n)
      <4>1. n \in ToSet(priorityNodes)
        BY <3>1, FirstToTry DEF FailToAcquire
      <4> QED  BY <1>4, <2>1, <4>1 DEF Current
    <3>2. CASE KeepPending(n) /\ queueStatus[n] \in CheckStatus
      <4>1. next' = [next EXCEPT ![n] = Evaluated(n)] /\ next'[n].state = "EXECUTING"
        BY <3>2 DEF KeepPending, CheckStatus
      <4>2. Evaluated(n).state = "EXECUTING"
        BY <4>1 DEF TypeOK
      <4> QED  BY <4>2, EvaluatedWilling
    <3>3. CASE queueStatus[n] \notin CheckStatus
      BY <1>4, <2>1, <3>3 DEF Current
    <3> QED  BY <1>6, <3>1, <3>2, <3>3
  <2>3. CASE m = n
    BY <1>3, <2>2, <2>3
  <2>4. CASE m # n
    <3>1. Current(m)
      BY <1>2, <1>6, <2>1, <2>4, QueueingCurrent
    <3> QED  BY <1>2, <1>3, <1>4, <2>1, <3>1
  <2> QED  BY <2>3, <2>4
<1>7. CASE DropPending(n) \/ AcquireResources(n)
  <2>1. m \in ToSet(pendingQueue) /\ m # n
    BY <1>7, DropPendingStatus, AcquireResourcesStatus
  <2>2. Current(m)
    BY <1>2, <1>7, <2>1, QueueingCurrent
  <2> QED  BY <1>2, <1>3, <1>4, <2>1, <2>2
<1> QED  BY <1>5, <1>6, <1>7

\* Who waits is marked when it is told of a change, and stays marked.
LEMMA ToldIsChecked ==
  ASSUME NEW q, NEW S, NEW m \in Node, q.status[m] \in PendingStatus
  PROVE  /\ m \in S => Notify(q, S).status[m] \in CheckStatus
         /\ q.status[m] \in CheckStatus => Notify(q, S).status[m] \in CheckStatus
         /\ Notify(q, S).status[m] \in PendingStatus
<1>1. Notify(q, S).status[m] = IF m \in S THEN Notified(q.status[m]) ELSE q.status[m]
  BY DEF Notify
<1>2. CASE q.status[m] = "PENDING"
  BY <1>1, <1>2 DEF Notified, CheckStatus, PendingStatus
<1>3. CASE q.status[m] = "PENDING_TRY"
  BY <1>1, <1>3 DEF Notified, CheckStatus, PendingStatus
<1>4. CASE q.status[m] = "PENDING_CHECK"
  BY <1>1, <1>4 DEF Notified, CheckStatus, PendingStatus
<1>5. CASE q.status[m] = "PENDING_TRY_CHECK"
  BY <1>1, <1>5 DEF Notified, CheckStatus, PendingStatus
<1> QED  BY <1>2, <1>3, <1>4, <1>5 DEF PendingStatus

\* Who waits hears of what may change its mind.
LEMMA UnheardIsWilling ==
  ASSUME TypeOK, HearsAll, NEW m \in Node, state[m] = "WAITING", LivesInside(m), Willing(m),
         NEW source, source.kind \in {"lookup", "variable"}, m \notin Listeners(source),
         \A a \in Node, c \in ConditionName : ~Reads(condition[a][c], source) =>
           Value(condition[a][c])' = Value(condition[a][c])
  PROVE  Willing(m)'
<1>1. ASSUME NEW c \in {"exit", "skip"} PROVE ~Reads(condition[m][c], source)
  <2>1. c \in ConditionName /\ state[m] \in ActiveStates(c)
    BY <1>1 DEF ConditionName, ActiveStates
  <2> QED  BY <2>1 DEF HearsAll
<1>2. {"exit", "skip"} \subseteq ConditionName
  BY DEF ConditionName
<1> QED  BY <1>1, <1>2 DEF Willing, Undecided

LEMMA OthersStayWilling ==
  ASSUME TypeOK, QueuesAreSound, Patient, ListsAreSteady, DeletedAreGone, HearsAll,
         CurrentAreWilling, Next,
         ~\E n \in Node :
             \/ CheckCandidate(n) \/ KeepPending(n) \/ DropPending(n)
             \/ AcquireResources(n) \/ FailToAcquire(n) \/ TransitionNode(n),
         NEW m \in ToSet(pendingQueue'), Current(m)'
  PROVE  m \in Node /\ Willing(m)'
<1> USE DEF planVars
<1>1. /\ UNCHANGED <<state, pendingQueue>> /\ \A k \in Node : Told(k)
      /\ m \in ToSet(pendingQueue) /\ m \in Node
  <2>1. UNCHANGED <<state, pendingQueue>> /\ \A k \in Node : Told(k)
    BY OtherStepsTell
  <2> QED  BY <2>1, ElementFacts DEF TypeOK
<1>2. UNCHANGED <<condition, priorityNodes>>
  <2>1. World => UNCHANGED <<condition, priorityNodes>>
    BY DEF World, WorldUnchanged, AddPlan, DeleteFinishedPlans, LookupReturn, resolveVars,
           CommandHandleReturn, CommandReturn, CommandAbortAcknowledge, UpdateAcknowledge
  <2>2. StartStep \/ Step => UNCHANGED <<condition, priorityNodes>>
    BY DEF Step, StartStep, ExecuteAssignment, RetractAssignment, ExecuteCommand, InvokeAbort,
           ExecuteUpdate, EffectsUnchanged, BatchDone, StepDone, AllChecked, GroupDone, condVars,
           resolveVars
  <2> QED  BY <2>1, <2>2 DEF Next
<1>3. /\ state[m] = "WAITING" /\ queueStatus[m] \in PendingStatus
      /\ LivesInside(m) /\ m \notin deleted
  <2>1. state[m] = "WAITING" /\ queueStatus[m] \in PendingStatus
    BY <1>1 DEF QueuesAreSound, PendingIsSound, IsPending
  <2>2. StaysInside(m) /\ Steady
    BY <1>1 DEF ListsAreSteady, Patient
  <2>3. m \notin deleted
    BY <2>1, <2>2, DeletedRest
  <2> QED  BY <2>1, <2>2, <2>3 DEF StaysInside, LivesInside
<1>4. Current(m) /\ Willing(m)
  <2>1. queueStatus[m] \in CheckStatus => queueStatus'[m] \in CheckStatus
    BY <1>1 DEF Told, Notified, CheckStatus
  <2>2. Current(m)
    BY <1>2, <2>1 DEF Current
  <2> QED  BY <1>1, <2>2 DEF CurrentAreWilling
<1>5. ASSUME UNCHANGED <<lookup, value>> PROVE Willing(m)'
  BY <1>1, <1>2, <1>4, <1>5, SameValue DEF Willing, Undecided
<1>6. ASSUME phase \in {"idle", "effects"} PROVE queueStatus'[m] \notin CheckStatus
  <2>1. priorityNodes = <<>>
    BY <1>6 DEF QueuesAreSound, WalkIsSound
  <2> QED  BY <1>2, <2>1 DEF Current, ToSet
<1>7. queues.status[m] \in PendingStatus
  BY <1>3, StatusNow
<1>8. ASSUME phase \in {"idle", "effects"}, NEW w, NEW v, NEW S, UNCHANGED lookup,
             value' = [value EXCEPT ![w] = v], S = Listening(VariableOf(w)) \/ value[w] = v,
             QueuesBecome(Notify(queues, S)) \/ \E n : QueuesBecome(Notify(Notify(queues, S), {n}))
      PROVE  Willing(m)'
  <2> DEFINE source == VariableOf(w)
  <2>1. source.kind = "variable" /\ source.of = w
    BY DEF VariableOf
  <2>2. CASE value[w] = v
    <3>1. value' = value
      BY <1>8, <2>2 DEF TypeOK
    <3> QED  BY <1>5, <1>8, <3>1
  <2>3. CASE S = Listening(source)
    <3>1. m \notin Listeners(source)
      <4>1. SUFFICES ASSUME m \in S PROVE FALSE
        BY <1>3, <2>3 DEF Listening
      <4>2. Notify(queues, S).status[m] \in CheckStatus \cap PendingStatus
        BY <1>1, <1>7, <4>1, ToldIsChecked
      <4>3. queueStatus'[m] \in CheckStatus
        <5>1. CASE QueuesBecome(Notify(queues, S))
          BY <4>2, <5>1 DEF QueuesBecome
        <5>2. CASE \E n : QueuesBecome(Notify(Notify(queues, S), {n}))
          <6>1. PICK n : queueStatus' = Notify(Notify(queues, S), {n}).status
            BY <5>2 DEF QueuesBecome
          <6> QED  BY <1>1, <4>2, <6>1, ToldIsChecked
        <5> QED  BY <1>8, <5>1, <5>2
      <4> QED  BY <1>6, <1>8, <4>3
    <3>2. \A x \in Variable : x # w => value'[x] = value[x]
      BY <1>8 DEF TypeOK
    <3>3. \A a \in Node, c \in ConditionName : condition[a][c].kind = "variable" =>
            condition[a][c].of \in Variable
      BY ExpressionFacts DEF TypeOK
    <3>4. \A a \in Node, c \in ConditionName :
            ~Reads(condition[a][c], source) => Value(condition[a][c])' = Value(condition[a][c])
      BY <1>1, <1>2, <1>8, <2>1, <3>2, <3>3, SameValue DEF Reads
    <3> HIDE DEF source
    <3> QED  BY <1>1, <1>3, <1>4, <2>1, <3>1, <3>4, UnheardIsWilling
  <2> QED  BY <1>8, <2>2, <2>3
<1>9. ASSUME NEW n \in Node, ExecuteAssignment(n) \/ RetractAssignment(n) PROVE Willing(m)'
  <2>1. /\ \E v : SetVariable(n, v)
        /\ phase = "effects" /\ UNCHANGED lookup
    BY <1>9 DEF ExecuteAssignment, RetractAssignment, EffectsUnchanged
  <2>2. PICK v, S : /\ value' = [value EXCEPT ![Dest[n]] = v]
                    /\ S = Listening(VariableOf(Dest[n])) \/ value[Dest[n]] = v
                    /\ QueuesBecome(Notify(Notify(queues, S), {n}))
    BY <2>1 DEF SetVariable
  <2> QED  BY <1>8, <2>1, <2>2
<1>10. ASSUME NEW n \in Node, NEW v \in TruthValue, CommandReturn(n, v) PROVE Willing(m)'
  BY <1>8, <1>10 DEF CommandReturn
<1>11. ASSUME NEW l \in Lookup, NEW v \in TruthValue, LookupReturn(l, v) PROVE Willing(m)'
  <2> DEFINE source == LookupOf(l)
             S == Listening(source)
  <2>1. source.kind = "lookup" /\ source.of = l
    BY DEF LookupOf
  <2>2. /\ lookup' = [lookup EXCEPT ![l] = v] /\ QueuesBecome(Notify(queues, S))
        /\ UNCHANGED value /\ phase = "idle"
    BY <1>11 DEF LookupReturn
  <2>3. m \notin Listeners(source)
    <3>1. SUFFICES ASSUME m \in S PROVE FALSE
      BY <1>3 DEF Listening
    <3> HIDE DEF S
    <3>2. queueStatus'[m] \in CheckStatus
      BY <1>1, <1>7, <2>2, <3>1, ToldIsChecked DEF QueuesBecome
    <3> QED  BY <1>6, <2>2, <3>2
  <2>4. \A k \in Lookup : k # l => lookup'[k] = lookup[k]
    BY <2>2 DEF TypeOK
  <2>5. \A a \in Node, c \in ConditionName : condition[a][c].kind = "lookup" =>
          condition[a][c].of \in Lookup
    BY ExpressionFacts DEF TypeOK
  <2>6. \A a \in Node, c \in ConditionName :
          ~Reads(condition[a][c], source) => Value(condition[a][c])' = Value(condition[a][c])
    BY <1>1, <1>2, <2>1, <2>2, <2>4, <2>5, SameValue DEF Reads
  <2> HIDE DEF source
  <2> QED  BY <1>1, <1>3, <1>4, <2>1, <2>3, <2>6, UnheardIsWilling
<1>12. CASE World
  <2>1. ASSUME NEW n \in Node,
               \/ AddPlan(n) \/ \E h \in Handle : CommandHandleReturn(n, h)
               \/ \E b \in BOOLEAN : CommandAbortAcknowledge(n, b) \/ UpdateAcknowledge(n, b)
        PROVE  Willing(m)'
    BY <1>5, <2>1 DEF AddPlan, CommandHandleReturn, CommandAbortAcknowledge, UpdateAcknowledge
  <2>2. DeleteFinishedPlans => Willing(m)'
    BY <1>5 DEF DeleteFinishedPlans
  <2> QED  BY <1>1, <1>10, <1>11, <1>12, <2>1, <2>2 DEF World
<1>13. CASE StartStep \/ Step
  <2>1. ASSUME NEW n \in Node, ExecuteCommand(n) \/ InvokeAbort(n) \/ ExecuteUpdate(n)
        PROVE  Willing(m)'
    BY <1>5, <2>1 DEF ExecuteCommand, InvokeAbort, ExecuteUpdate, EffectsUnchanged
  <2>2. AllChecked \/ GroupDone \/ BatchDone \/ StepDone \/ StartStep => Willing(m)'
    BY <1>5 DEF AllChecked, GroupDone, BatchDone, StepDone, StartStep, condVars
  <2> QED  BY <1>1, <1>9, <1>13, <2>1, <2>2 DEF Step
<1> QED  BY <1>1, <1>12, <1>13 DEF Next

\* Being told that a resource is available neither marks a node nor removes its mark.
LEMMA AvailableKeepsChecks ==
  ASSUME NEW s
  PROVE  /\ Available(s) \in CheckStatus <=> s \in CheckStatus
         /\ s \in PendingStatus => Available(s) \in PendingStatus
<1>1. CASE s \in {"PENDING", "PENDING_CHECK"}
  BY <1>1 DEF Available, CheckStatus, PendingStatus
<1>2. CASE s \notin {"PENDING", "PENDING_CHECK"}
  BY <1>2 DEF Available, CheckStatus
<1> QED  BY <1>1, <1>2

\* No mark is lost while a node moves, and who reads a variable that it initializes gets one.
LEMMA MovedChecked ==
  ASSUME TypeOK, QueuesAreSound, FinishedAreSound, NEW n \in Node, n \in ToSet(stateChangeQueue),
         NEW m \in Node, m # n, queueStatus[m] \in PendingStatus
  PROVE  /\ Moved(n).status[m] \in PendingStatus
         /\ Moved(n).status[m] \notin CheckStatus =>
              queueStatus[m] \notin CheckStatus /\ m \notin Initialized(n)
<1> DEFINE popped == WithStatus(queues, n, "NONE")
           rechecked == IF queueStatus[n] = "TRANSITION_CHECK" THEN Notify(popped, {n})
                        ELSE popped
           freed == NotifyAvailable(rechecked, ReleasedByHolder(n))
           ready == Notify(freed, Initialized(n))
           told == IF IsFinish(n) THEN Finish(ready, n) ELSE Notify(ready, {n})
           Waits(q) == q.status[m] \in PendingStatus
           Marked(q) == q.status[m] \in CheckStatus
<1>1. ASSUME NEW q, NEW S, Waits(q)
      PROVE  /\ Waits(Notify(q, S)) /\ (Marked(q) => Marked(Notify(q, S)))
             /\ m \in S => Marked(Notify(q, S))
  BY <1>1, ToldIsChecked
<1>2. TypedQueues(popped) /\ Waits(popped) /\ popped.status[m] = queueStatus[m]
  <2>1. TypedQueues(popped)
    BY QueuesTyped, WithStatusTyped, OtherStatuses
  <2>2. Differ(queueStatus, popped.status, n, "NONE")
    BY StatusNow, WithStatusIs, OtherStatuses
  <2> HIDE DEF popped
  <2> QED  BY <2>1, <2>2 DEF Differ
<1>3. TypedQueues(rechecked) /\ Waits(rechecked) /\ (Marked(popped) => Marked(rechecked))
  <2>1. /\ TypedQueues(Notify(popped, {n})) /\ Waits(Notify(popped, {n}))
        /\ Marked(popped) => Marked(Notify(popped, {n}))
    BY <1>1, <1>2, NotifyTyped
  <2> HIDE DEF popped, Waits, Marked
  <2> QED  BY <1>2, <2>1
<1>4. TypedQueues(freed) /\ Waits(freed) /\ (Marked(rechecked) => Marked(freed))
  <2> HIDE DEF rechecked
  <2>1. freed.status[m] \in {rechecked.status[m], Available(rechecked.status[m])}
    BY DEF NotifyAvailable
  <2> QED  BY <1>3, <2>1, NotifyAvailableTyped, AvailableKeepsChecks
<1>5. TypedQueues(ready) /\ Waits(ready) /\ (Marked(freed) \/ m \in Initialized(n) => Marked(ready))
  <2>1. Initialized(n) \in SUBSET Node
    BY DEF Initialized, Listening, Listeners
  <2> HIDE DEF freed, Waits, Marked
  <2> QED  BY <1>1, <1>4, <2>1, NotifyTyped
<1>6. Waits(told) /\ (Marked(ready) => Marked(told))
  <2> HIDE DEF ready
  <2>1. Waits(Notify(ready, {n})) /\ (Marked(ready) => Marked(Notify(ready, {n})))
    BY <1>1, <1>5
  <2>2. Finish(ready, n).status[m] = ready.status[m]
    <3>1. ready.status \in [Node -> QueueStatus]
      BY <1>5 DEF TypedQueues
    <3>2. Finish(ready, n).status \in {ready.status, [ready.status EXCEPT ![n] = "DELETE"]}
      BY DEF Finish, WithStatus, WithFault
    <3> QED  BY <3>1, <3>2
  <2> QED  BY <1>5, <2>1, <2>2
<1>7. Waits(Moved(n)) /\ (Marked(told) => Marked(Moved(n)))
  <2>1. Moved(n) = IF Type[n] = "List" THEN Notify(told, ToldChildren(n)) ELSE told
    BY DEF Moved
  <2> HIDE DEF told, Waits, Marked
  <2> QED  BY <1>1, <1>6, <2>1
<1> HIDE DEF popped, rechecked, freed, ready, told
<1> QED  BY <1>2, <1>3, <1>4, <1>5, <1>6, <1>7

\* What a transition changes, who waits hears of, unless it can only become unknown.
LEMMA TransitionStaysWilling ==
  ASSUME TypeOK, QueuesAreSound, FinishedAreSound, ConditionsStay, Patient, ListsAreSteady,
         ListsAreSteady', HearsAll, HearsAll', DeletedAreGone, CurrentAreWilling,
         NEW n \in Node, TransitionNode(n), NEW m \in ToSet(pendingQueue'), Current(m)'
  PROVE  m \in Node /\ Willing(m)'
<1>1. /\ state' = [state EXCEPT ![n] = next[n].state]
      /\ UNCHANGED <<condition, deleted, pendingQueue, priorityNodes>>
      /\ stateChangeQueue # <<>> /\ n = Head(stateChangeQueue) /\ phase = "transition"
      /\ QueuesBecome(Notify(Moved(n), Listening(StateOf(n))'))
  BY DEF TransitionNode, resolveVars
<1>2. n \in ToSet(stateChangeQueue)
  BY <1>1, TailFacts DEF TypeOK
<1>3. /\ m \in Node /\ m \in ToSet(pendingQueue) /\ state[m] = "WAITING"
      /\ queueStatus[m] \in PendingStatus
  BY <1>1, ElementFacts DEF TypeOK, QueuesAreSound, PendingIsSound, IsPending
<1>4. m # n
  BY <1>2, <1>3 DEF QueuesAreSound, PendingIsSound, IsPending
<1>5. state'[m] = "WAITING" /\ LivesInside(m) /\ LivesInside(m)' /\ m \notin deleted
  <2>1. state'[m] = "WAITING"
    BY <1>1, <1>3, <1>4 DEF TypeOK
  <2>2. Steady /\ Steady'
    BY <1>1 DEF Patient, Steady, Never
  <2>3. StaysInside(m) /\ StaysInside(m)'
    BY <1>3, <2>2 DEF ListsAreSteady
  <2>4. m \notin deleted
    BY <1>3, <2>2, DeletedRest
  <2> QED  BY <1>3, <2>1, <2>3, <2>4 DEF StaysInside, LivesInside
<1>6. /\ queueStatus[m] \notin CheckStatus /\ m \notin Initialized(n)
      /\ m \notin Listening(StateOf(n))'
  <2> DEFINE S == Listening(StateOf(n))'
  <2>1. priorityNodes' = <<>>
    BY <1>1 DEF QueuesAreSound, WalkIsSound
  <2>2. queueStatus'[m] \notin CheckStatus
    BY <2>1 DEF Current, ToSet
  <2>3. Moved(n).status[m] \in PendingStatus
    BY <1>2, <1>3, <1>4, MovedChecked
  <2>4. Notify(Moved(n), S).status[m] \notin CheckStatus
    BY <1>1, <2>2 DEF QueuesBecome
  <2> HIDE DEF S
  <2>5. Moved(n).status[m] \notin CheckStatus /\ m \notin S
    BY <1>3, <2>3, <2>4, ToldIsChecked
  <2> QED  BY <1>2, <1>3, <1>4, <2>5, MovedChecked DEF S
<1>7. Willing(m)
  BY <1>3, <1>6 DEF Current, CurrentAreWilling
<1>8. ASSUME NEW c \in {"exit", "skip"} PROVE Fades(m, c)
  <2>1. c \in ConditionName /\ state[m] \in ActiveStates(c) /\ state'[m] \in ActiveStates(c)
    BY <1>3, <1>5, <1>8 DEF ConditionName, ActiveStates
  <2>2. condition[m][c].kind # "default"
    BY <1>3, <1>8, <2>1, ConditionsAssumption DEF ConditionsStay
  <2>3. ~Reads(condition[m][c], StateOf(n))
    <3>1. StateOf(n).kind = "state"
      BY DEF StateOf
    <3>2. m \notin Listeners(StateOf(n))'
      BY <1>1, <1>5, <1>6 DEF Listening
    <3>3. ~Reads(condition'[m][c], StateOf(n))
      BY <1>3, <1>5, <2>1, <3>1, <3>2 DEF HearsAll, Reads
    <3> QED  BY <1>1, <3>3
  <2>4. ASSUME NEW v \in Activated(n), next[n].state = "EXECUTING", Initial[v] # "U"
        PROVE  ~Reads(condition[m][c], VariableOf(v))
    <3>1. m \notin Listeners(VariableOf(v))
      BY <1>5, <1>6, <2>4 DEF Initialized, Listening, Activated
    <3>2. VariableOf(v).kind = "variable"
      BY DEF VariableOf
    <3> QED  BY <1>3, <1>5, <2>1, <3>1, <3>2 DEF HearsAll
  <2> QED  BY <1>3, <2>1, <2>2, <2>3, <2>4, TransitionFades
<1> QED  BY <1>3, <1>7, <1>8 DEF Fades, Willing, Undecided

\* Nobody that waits has changed its mind unheard.
LEMMA StayWilling ==
  TypeOK /\ QueuesAreSound /\ FinishedAreSound /\ ConditionsStay /\ ListsAreSteady
    /\ ListsAreSteady' /\ HearsAll /\ HearsAll' /\ DeletedAreGone /\ Patient
    /\ CurrentAreWilling /\ [Next]_vars
  => CurrentAreWilling'
<1> SUFFICES ASSUME TypeOK, QueuesAreSound, FinishedAreSound, ConditionsStay, ListsAreSteady,
                    ListsAreSteady', HearsAll, HearsAll', DeletedAreGone, Patient,
                    CurrentAreWilling, [Next]_vars
             PROVE  CurrentAreWilling'
  OBVIOUS
<1>1. CASE UNCHANGED vars
  BY <1>1, SameValue DEF CurrentAreWilling, Current, Willing, Undecided, Value, VariableActive,
     Patient, Steady, Lasting, Never, vars, condVars, queueVars, resolveVars
<1>2. CASE Next
  <2>1. ASSUME NEW m \in ToSet(pendingQueue'), Current(m)' PROVE Willing(m)'
    <3>1. ASSUME NEW n \in Node, TransitionNode(n) PROVE Willing(m)'
      BY <2>1, <3>1, TransitionStaysWilling
    <3>2. ASSUME NEW n \in Node,
                 \/ CheckCandidate(n) \/ KeepPending(n) \/ DropPending(n)
                 \/ AcquireResources(n) \/ FailToAcquire(n)
          PROVE  Willing(m)'
      BY <2>1, <3>2, QueueingStaysWilling
    <3> QED  BY <1>2, <2>1, <3>1, <3>2, OthersStayWilling
  <2> QED  BY <2>1 DEF CurrentAreWilling
<1> QED  BY <1>1, <1>2

LEMMA WillingAlways == Spec /\ []Patient => []CurrentAreWilling
<1>1. Init => CurrentAreWilling
  BY DEF Init, CurrentAreWilling, ToSet
<1> QED
  BY <1>1, StayWilling, TypeCorrect, SoundQueuesAlways, FinishedAlways, ConditionsAlways,
     ListsAlwaysSteady, EverybodyHears, GoneForEver, PTL DEF Spec

\* Only the end of a root is final for the queues.
LEMMA OnlyRootsStayEnded ==
  TypeOK /\ QueuesAreSound /\ FinishedAreSound /\ OnlyRootsEnd /\ [Next]_vars => OnlyRootsEnd'
<1> SUFFICES ASSUME TypeOK, QueuesAreSound, FinishedAreSound, OnlyRootsEnd, [Next]_vars,
                    NEW m \in Node, queueStatus'[m] = "DELETE"
             PROVE  queueStatus[m] = "DELETE" \/ IsRoot(m)
  BY DEF OnlyRootsEnd
<1>1. CASE UNCHANGED vars
  BY <1>1 DEF vars, queueVars
<1>2. ASSUME NEW n \in Node, TransitionNode(n) PROVE queueStatus[m] = "DELETE" \/ IsRoot(m)
  BY <1>2, MovedStatus
<1>3. ASSUME NEW n \in Node, CheckCandidate(n) \/ KeepPending(n) \/ DropPending(n)
                               \/ AcquireResources(n)
      PROVE  queueStatus[m] = "DELETE"
  <2>1. OthersStay(n) /\ queueStatus'[n] # "DELETE"
    BY <1>3, CheckCandidateStatus, KeepPendingStatus, DropPendingStatus, AcquireResourcesStatus
       DEF PendingStatus
  <2> QED  BY <2>1 DEF OthersStay
<1>4. ASSUME NEW n \in Node, FailToAcquire(n) PROVE queueStatus[m] = "DELETE"
  BY <1>4, FailToAcquireStatus, NotifiedMeans
<1>5. CASE Next /\ ~\E n \in Node :
             \/ CheckCandidate(n) \/ KeepPending(n) \/ DropPending(n)
             \/ AcquireResources(n) \/ FailToAcquire(n) \/ TransitionNode(n)
  <2>1. Told(m)
    BY <1>5, OtherStepsTell
  <2> QED  BY <2>1, NotifiedMeans DEF Told
<1> QED  BY <1>1, <1>2, <1>3, <1>4, <1>5

LEMMA OnlyRootsEndAlways == Spec => []OnlyRootsEnd
<1>1. Init => OnlyRootsEnd
  BY DEF Init, OnlyRootsEnd
<1> QED
  BY <1>1, OnlyRootsStayEnded, TypeCorrect, SoundQueuesAlways, FinishedAlways, PTL DEF Spec

\* Everything above a node that has begun runs.
LEMMA AncestorsRun ==
  ASSUME Steady, ListsAreSteady,
         NEW m \in Node, state[m] \notin {"INACTIVE", "FINISHED"}, NEW a \in Ancestors[m]
  PROVE  state[a] \in Running
<1> DEFINE Fine == {k \in Node : state[k] \notin {"INACTIVE", "FINISHED"} =>
                      \A b \in Ancestors[k] : state[b] \in Running}
<1>1. ASSUME NEW k \in Node, IsRoot(k) \/ Parent[k] \in Fine PROVE k \in Fine
  <2>1. CASE IsRoot(k)
    BY <2>1, AncestorsAre
  <2>2. CASE ~IsRoot(k)
    <3>1. SUFFICES ASSUME state[k] \notin {"INACTIVE", "FINISHED"}, NEW b \in Ancestors[k]
                   PROVE  state[b] \in Running
      OBVIOUS
    <3>2. state[Parent[k]] \in Running
      BY <2>2, <3>1 DEF ListsAreSteady, StaysInside
    <3>3. b = Parent[k] \/ b \in Ancestors[Parent[k]]
      BY <2>2, <3>1, ParentFacts
    <3> QED  BY <1>1, <2>2, <3>2, <3>3 DEF Running
  <2> QED  BY <2>1, <2>2
<1>2. Fine \in SUBSET Node
  OBVIOUS
<1> HIDE DEF Fine
<1>3. Fine = Node
  BY <1>1, <1>2, DownTheTree
<1> QED  BY <1>3 DEF Fine

\* A root that ends has no node below it that waits.
LEMMA RootsEndUnheard ==
  ASSUME TypeOK, QueuesAreSound, ConditionsStay, Steady, ListsAreSteady, AllEndAlone,
         NEW n \in Node, TransitionNode(n), IsFinish(n), NEW m \in ToSet(pendingQueue)
  PROVE  m \notin Listeners(StateOf(n))'
<1>1. /\ UNCHANGED condition /\ n \in ToSet(stateChangeQueue) /\ IsRoot(n)
      /\ next[n].state = "FINISHED"
  BY TailFacts DEF TransitionNode, TypeOK, IsFinish
<1>2. m \in Node /\ m # n /\ state[m] = "WAITING"
  <2>1. m \in Node
    BY ElementFacts DEF TypeOK
  <2> QED  BY <1>1, <2>1 DEF QueuesAreSound, PendingIsSound, IsPending
<1>3. n \notin Ancestors[m]
  <2>1. SUFFICES ASSUME n \in Ancestors[m] PROVE FALSE
    OBVIOUS
  <2>2. state[n] \in Running
    BY <1>2, <2>1, AncestorsRun
  <2> QED  BY <1>1, <2>2 DEF AllEndAlone, EndsAlone
<1>4. ASSUME NEW a \in {m} \cup Ancestors[m], NEW c \in ConditionName,
             Reads(condition'[a][c], StateOf(n))
      PROVE  FALSE
  <2>1. a \in Node /\ Ancestors[a] \subseteq Ancestors[m]
    BY <1>2, AncestorFacts
  <2>2. condition[a][c].kind = "state" /\ condition[a][c].of = n
    BY <1>1, <1>4 DEF Reads, StateOf
  <2>3. SamePlan(a, n)
    BY <2>1, <2>2, ReferencesAssumption DEF ConditionsStay
  <2>4. Ancestors[n] = {}
    BY <1>1, AncestorsAre
  <2> QED  BY <1>2, <1>3, <2>1, <2>3, <2>4 DEF SamePlan
<1>5. \A c : Inherits(m, c)' \subseteq Ancestors[m]
  BY DEF Inherits
<1>6. {"exit", "invariant", "end"} \subseteq ConditionName
  BY DEF ConditionName
<1>7. Parent[n] # m
  BY <1>1, <1>2, PlanAssumption DEF IsRoot
<1> QED  BY <1>4, <1>5, <1>6, <1>7 DEF Listeners, StateOf

\* Whom the walk passes it has passed before, or is the node that it looks at.
LEMMA PassedByWalk ==
  ASSUME TypeOK, QueuesAreSound, NEW n \in Node, KeepPending(n), NEW m \in Node,
         \/ Precedes(pendingQueue, m, cursor')
         \/ cursor' = None /\ m \in ToSet(pendingQueue)
  PROVE  m = n \/ Precedes(pendingQueue, m, cursor)
<1>1. PICK i \in DOMAIN pendingQueue : pendingQueue[i] = n /\ cursor' = NextInQueue(i)
  BY DEF KeepPending, Advance
<1>2. /\ DOMAIN pendingQueue = 1..Len(pendingQueue) /\ Len(pendingQueue) \in Nat
      /\ \A j, k \in DOMAIN pendingQueue : pendingQueue[j] = pendingQueue[k] => j = k
      /\ \A j \in DOMAIN pendingQueue : pendingQueue[j] # None
      /\ n = cursor
  <2>1. pendingQueue \in Seq(Node) /\ IsInjective(pendingQueue) /\ None \notin Node
    BY PlanAssumption DEF TypeOK, QueuesAreSound, PendingIsSound
  <2> QED  BY <2>1 DEF IsInjective, KeepPending
<1>3. PICK j \in DOMAIN pendingQueue : pendingQueue[j] = m /\ j <= i
  <2>1. CASE Precedes(pendingQueue, m, cursor')
    <3>1. PICK j, k \in DOMAIN pendingQueue :
            j < k /\ pendingQueue[j] = m /\ pendingQueue[k] = cursor'
      BY <2>1 DEF Precedes
    <3>2. i < Len(pendingQueue) /\ k = i + 1
      BY <1>1, <1>2, <3>1 DEF NextInQueue
    <3>3. j <= i
      BY <1>2, <3>1, <3>2
    <3> QED  BY <3>1, <3>3
  <2>2. CASE cursor' = None /\ m \in ToSet(pendingQueue)
    <3>1. PICK j \in DOMAIN pendingQueue : pendingQueue[j] = m
      BY <2>2 DEF ToSet
    <3>2. ~(i < Len(pendingQueue))
      <4>1. i < Len(pendingQueue) => i + 1 \in DOMAIN pendingQueue
        BY <1>2
      <4> QED  BY <1>1, <1>2, <2>2, <4>1 DEF NextInQueue
    <3>3. j <= i
      BY <1>2, <3>1, <3>2
    <3> QED  BY <3>1, <3>3
  <2> QED  BY <2>1, <2>2
<1>4. CASE j = i
  BY <1>1, <1>3, <1>4
<1>5. CASE j # i
  <2>1. j < i
    BY <1>2, <1>3, <1>5
  <2> QED  BY <1>1, <1>2, <1>3, <2>1 DEF Precedes
<1> QED  BY <1>4, <1>5

LEMMA WalkLooksAtAll ==
  ASSUME TypeOK, QueuesAreSound, FinishedAreSound, PendingAreReady, Patient, AllLookedAt,
         NEW n \in Node, KeepPending(n) \/ DropPending(n)
  PROVE  AllLookedAt'
<1>1. phase = "gather" /\ n = cursor /\ cursor # None /\ phase' \in {"gather", "acquire"}
  BY PlanAssumption DEF KeepPending, DropPending, Advance
<1>2. \A m \in Node : Precedes(pendingQueue, m, cursor) => Current(m)
  BY <1>1 DEF AllLookedAt
<1>3. CASE KeepPending(n)
  <2>1. Current(n)'
    <3>1. CASE queueStatus[n] \in {"PENDING_TRY", "PENDING_TRY_CHECK"}
      <4>1. priorityNodes' = Append(priorityNodes, n)
        BY <1>3, <3>1 DEF KeepPending
      <4>2. n \in ToSet(priorityNodes')
        BY <4>1, AppendFacts DEF TypeOK
      <4> QED  BY <4>2 DEF Current
    <3>2. CASE queueStatus[n] \notin {"PENDING_TRY", "PENDING_TRY_CHECK"}
      BY <1>3, <3>2 DEF KeepPending, TypeOK, Current, CheckStatus
    <3> QED  BY <3>1, <3>2
  <2>2. ASSUME NEW m \in Node,
               \/ Precedes(pendingQueue, m, cursor')
               \/ cursor' = None /\ m \in ToSet(pendingQueue)
        PROVE  Current(m)'
    <3>1. CASE m = n
      BY <2>1, <3>1
    <3>2. CASE m # n
      <4>1. Current(m)
        BY <1>2, <1>3, <2>2, <3>2, PassedByWalk
      <4> QED  BY <1>3, <3>2, <4>1, QueueingCurrent
    <3> QED  BY <3>1, <3>2
  <2>3. UNCHANGED pendingQueue /\ ToSet(pendingQueue) \subseteq Node
    BY <1>3, KeepPendingStatus, ElementFacts DEF TypeOK
  <2>4. \A m \in Node : Precedes(pendingQueue', m, cursor') => Current(m)'
    BY <2>2, <2>3
  <2>5. cursor' = None => AllCurrent'
    BY <2>2, <2>3 DEF AllCurrent
  <2> QED  BY <1>1, <2>4, <2>5 DEF AllLookedAt
<1>4. CASE DropPending(n)
  <2>1. phase' = "acquire" /\ cursor' = None
    BY <1>4 DEF DropPending, Advance
  <2>2. next'[n].state = "FINISHED" /\ ~IsRoot(n)
    BY <1>4, PatientDropsEnd
  <2>3. stateChangeQueue' = Append(stateChangeQueue, n)
    BY <1>4, <2>2 DEF DropPending
  <2>4. n \in ToSet(stateChangeQueue')
    BY <2>3, AppendFacts DEF TypeOK
  <2>5. MoreToCome'
    BY <2>2, <2>4 DEF MoreToCome, IsFinish
  <2> QED  BY <2>1, <2>5 DEF AllLookedAt
<1> QED  BY <1>3, <1>4

LEMMA AcquisitionLooksAtAll ==
  ASSUME TypeOK, QueuesAreSound, FinishedAreSound, Patient, AllLookedAt, NEW n \in Node,
         AcquireResources(n) \/ FailToAcquire(n)
  PROVE  AllLookedAt'
<1>1. /\ phase = "acquire" /\ phase' = "acquire" /\ UNCHANGED <<cursor, next>>
      /\ priorityNodes # <<>> /\ n = Head(priorityNodes)
  BY DEF AcquireResources, FailToAcquire, nodeVars
<1>2. IsPending(n) /\ n \in ToSet(priorityNodes) /\ ToSet(pendingQueue) \subseteq Node
  BY <1>1, FirstToTry, ElementFacts DEF TypeOK
<1>3. CASE AcquireResources(n)
  <2>1. MoreToCome'
    <3>1. n \in ToSet(stateChangeQueue')
      BY <1>3, AcquireResourcesStatus
    <3>2. ~IsFinish(n)'
      BY <1>1, <1>2 DEF IsFinish, IsPending
    <3> QED  BY <3>1, <3>2 DEF MoreToCome
  <2>2. ASSUME cursor # None, NEW m \in Node, Precedes(pendingQueue', m, cursor)
        PROVE  Current(m)'
    <3>1. n \in ToSet(pendingQueue) /\ cursor # n
      <4>1. cursor \in ToSet(pendingQueue) \ ToSet(priorityNodes)
        BY <1>1, <2>2 DEF QueuesAreSound, WalkIsSound
      <4> QED  BY <1>3, <1>2, <4>1, AcquireResourcesStatus
    <3>2. Precedes(pendingQueue, m, cursor) /\ m # n
      <4>1. pendingQueue' = Without(pendingQueue, n)
        BY <1>3 DEF AcquireResources
      <4>2. m \in ToSet(pendingQueue')
        BY <2>2 DEF Precedes, ToSet
      <4>3. m # n
        BY <1>3, <4>2, AcquireResourcesStatus
      <4> QED  BY <2>2, <3>1, <4>1, <4>3, WithoutOrder DEF TypeOK, QueuesAreSound, PendingIsSound
    <3>3. Current(m)
      BY <1>1, <2>2, <3>2 DEF AllLookedAt
    <3> QED  BY <1>3, <3>2, <3>3, QueueingCurrent
  <2> QED  BY <1>1, <2>1, <2>2 DEF AllLookedAt
<1>4. CASE FailToAcquire(n)
  <2>1. UNCHANGED <<pendingQueue, stateChangeQueue, next>> /\ queueStatus'[n] = "PENDING"
    BY <1>4, FailToAcquireStatus
  <2>2. MoreToCome' = MoreToCome
    BY <2>1 DEF MoreToCome, IsFinish
  <2>3. \A m \in Node : Current(m) => Current(m)'
    <3>1. Current(n)'
      BY <2>1 DEF Current, CheckStatus
    <3> QED  BY <1>4, <3>1, QueueingCurrent
  <2>4. AllCurrent => AllCurrent'
    BY <1>2, <2>1, <2>3 DEF AllCurrent
  <2>5. cursor' # None => \A m \in Node : Precedes(pendingQueue', m, cursor') => Current(m)'
    BY <1>1, <2>1, <2>3 DEF AllLookedAt
  <2> QED  BY <1>1, <2>2, <2>4, <2>5 DEF AllLookedAt
<1> QED  BY <1>3, <1>4

LEMMA PhasesLookAtAll ==
  ASSUME TypeOK, QueuesAreSound, AllLookedAt,
         \/ AllChecked \/ GroupDone \/ BatchDone \/ StepDone \/ StartStep
  PROVE  AllLookedAt'
<1> USE DEF queueVars, condVars, resolveVars
<1>1. /\ UNCHANGED <<queueStatus, pendingQueue, priorityNodes, candidateQueue, stateChangeQueue>>
      /\ Patient' <=> Patient
  <2>1. UNCHANGED <<condition, queueStatus, pendingQueue, priorityNodes, candidateQueue,
                    stateChangeQueue>>
    BY DEF AllChecked, GroupDone, BatchDone, StepDone, StartStep
  <2> QED  BY <2>1 DEF Patient, Steady, Lasting, Never
<1>2. AllCurrent' <=> AllCurrent
  BY <1>1 DEF AllCurrent, Current
<1>3. CASE AllChecked
  <2>1. CASE pendingQueue = <<>>
    <3>1. AllCurrent'
      BY <1>1, <2>1 DEF AllCurrent, ToSet
    <3>2. phase' # "gather" /\ phase' # "acquire"
      BY <1>3, <2>1 DEF AllChecked, AfterCheck
    <3> QED  BY <3>1, <3>2 DEF AllLookedAt
  <2>2. CASE pendingQueue # <<>>
    <3>1. phase' = "gather" /\ cursor' = Head(pendingQueue)
      BY <1>3, <2>2 DEF AllChecked, AfterCheck
    <3>2. /\ DOMAIN pendingQueue = 1..Len(pendingQueue) /\ Len(pendingQueue) \in Nat
          /\ \A i, j \in DOMAIN pendingQueue : pendingQueue[i] = pendingQueue[j] => i = j
          /\ 1 \in DOMAIN pendingQueue /\ cursor' = pendingQueue[1]
      BY <2>2, <3>1 DEF TypeOK, QueuesAreSound, PendingIsSound, IsInjective
    <3>3. \A m \in Node : ~Precedes(pendingQueue, m, cursor')
      BY <3>2 DEF Precedes
    <3> QED  BY <1>1, <3>1, <3>3 DEF AllLookedAt
  <2> QED  BY <2>1, <2>2
<1>4. CASE GroupDone
  <2>1. /\ phase = "acquire" /\ UNCHANGED cursor
        /\ phase' = IF cursor # None THEN "gather"
                    ELSE IF stateChangeQueue # <<>> THEN "transition" ELSE "effects"
    BY <1>4 DEF GroupDone
  <2>2. CASE cursor # None
    BY <1>1, <2>1, <2>2 DEF AllLookedAt, Current
  <2>3. CASE cursor = None
    <3>1. ASSUME Patient PROVE MoreToCome \/ AllCurrent
      BY <2>1, <2>3, <3>1 DEF AllLookedAt
    <3>2. MoreToCome => MoreToCome' /\ stateChangeQueue # <<>>
      BY <1>4, <1>1 DEF MoreToCome, IsFinish, ToSet, GroupDone, nodeVars
    <3> QED  BY <1>1, <1>2, <2>1, <2>3, <3>1, <3>2 DEF AllLookedAt
  <2> QED  BY <2>2, <2>3
<1>5. CASE BatchDone
  <2>1. phase = "transition" /\ ~MoreToCome /\ phase' \in {"check", "effects"}
    BY <1>5 DEF BatchDone, MoreToCome, ToSet
  <2> QED  BY <1>1, <1>2, <2>1 DEF AllLookedAt
<1>6. CASE StepDone \/ StartStep
  <2>1. phase' \in {"check", "idle"}
    BY <1>6 DEF StepDone, StartStep
  <2> QED  BY <2>1 DEF AllLookedAt
<1> QED  BY <1>3, <1>4, <1>5, <1>6

LEMMA TransitionLooksAtAll ==
  ASSUME TypeOK, QueuesAreSound, QueuesAreSound', FinishedAreSound, ConditionsStay, Patient,
         ListsAreSteady, AllEndAlone, AllLookedAt, NEW n \in Node, TransitionNode(n)
  PROVE  AllLookedAt'
<1>1. /\ phase = "transition" /\ phase' = "transition" /\ UNCHANGED <<pendingQueue, priorityNodes>>
      /\ stateChangeQueue # <<>> /\ n = Head(stateChangeQueue)
      /\ stateChangeQueue' = Tail(stateChangeQueue)
      /\ next' = [next EXCEPT ![n] = NoTransition]
      /\ QueuesBecome(Notify(Moved(n), Listening(StateOf(n))'))
  BY DEF TransitionNode, resolveVars
<1>2. CASE ~IsFinish(n)
  BY <1>1, <1>2, TransitionKeepsCandidates DEF AllLookedAt
<1>3. CASE IsFinish(n)
  <2>1. MoreToCome => MoreToCome'
    <3>1. SUFFICES ASSUME NEW m \in ToSet(stateChangeQueue), ~IsFinish(m) PROVE MoreToCome'
      BY DEF MoreToCome
    <3>2. m \in Node /\ m # n /\ m \in ToSet(stateChangeQueue')
      BY <1>1, <1>3, <3>1, TailFacts DEF TypeOK, QueuesAreSound, ChangesAreSound
    <3>3. next'[m] = next[m]
      BY <1>1, <3>2 DEF TypeOK
    <3> QED  BY <3>1, <3>2, <3>3 DEF MoreToCome, IsFinish
  <2>2. AllCurrent => AllCurrent'
    <3>1. SUFFICES ASSUME AllCurrent, NEW m \in ToSet(pendingQueue)
                   PROVE  queueStatus'[m] \notin CheckStatus
      BY <1>1 DEF AllCurrent, Current
    <3>2. n \in ToSet(stateChangeQueue) /\ m \in Node
      BY <1>1, TailFacts, ElementFacts DEF TypeOK
    <3>3. m # n /\ state[m] = "WAITING"
      BY <3>2 DEF QueuesAreSound, PendingIsSound, IsPending
    <3>4. queueStatus[m] \notin CheckStatus
      <4>1. priorityNodes = <<>>
        BY <1>1 DEF QueuesAreSound, WalkIsSound
      <4> QED  BY <3>1, <4>1 DEF AllCurrent, Current, ToSet
    <3>5. m \notin Initialized(n) /\ m \notin ToldChildren(n)
      BY <1>3, <3>3 DEF IsFinish, Initialized, ToldChildren
    <3>6. Moved(n).status[m] \in {queueStatus[m], Available(queueStatus[m])}
      BY <3>2, <3>3, <3>5, MovedUntold
    <3>7. Steady /\ m \notin Listening(StateOf(n))'
      <4>1. Steady
        BY DEF Patient
      <4> QED  BY <1>3, <4>1, RootsEndUnheard DEF Listening
    <3>8. queueStatus'[m] = Moved(n).status[m]
      BY <1>1, <3>2, <3>7, UntoldStays DEF QueuesBecome
    <3> QED  BY <3>4, <3>6, <3>8, AvailableKeepsChecks
  <2> QED  BY <1>1, <2>1, <2>2, TransitionKeepsCandidates DEF AllLookedAt
<1> QED  BY <1>2, <1>3

LEMMA SendingLooksAtAll ==
  ASSUME TypeOK, QueuesAreSound, QueuesAreSound', EffectsAreSound, Patient, AllMove,
         NobodyIsLost, OnlyRootsEnd, AllLookedAt, NEW n \in Node,
         \/ ExecuteAssignment(n) \/ RetractAssignment(n) \/ ExecuteCommand(n)
         \/ InvokeAbort(n) \/ ExecuteUpdate(n)
  PROVE  AllLookedAt'
<1>1. phase = "effects" /\ phase' = "effects" /\ UNCHANGED <<pendingQueue, priorityNodes>>
  BY DEF ExecuteAssignment, RetractAssignment, ExecuteCommand, InvokeAbort, ExecuteUpdate,
         EffectsUnchanged, resolveVars
<1>2. CASE ExecuteAssignment(n) \/ RetractAssignment(n)
  <2>1. Type[n] = "Assignment" /\ state[n] \in {"EXECUTING", "FAILING"}
    BY <1>2, TailFacts DEF ExecuteAssignment, RetractAssignment, EffectsAreSound, QueuedFor, TypeOK
  <2>2. ~IsRoot(n)
    BY <2>1 DEF Patient, Resources
  <2>3. queueStatus[n] \in {"NONE", "CHECK"}
    <3>1. stateChangeQueue = <<>>
      BY <1>1 DEF QueuesAreSound, ChangesAreSound
    <3>2. n \notin ToSet(stateChangeQueue) /\ n \notin ToSet(pendingQueue)
      BY <2>1, <3>1 DEF QueuesAreSound, PendingIsSound, IsPending, ToSet
    <3>3. queueStatus[n] \notin MovingStatus \cup PendingStatus \cup {"DELETE"}
      BY <2>2, <3>2 DEF AllMove, NobodyIsLost, OnlyRootsEnd
    <3> QED  BY <3>3 DEF TypeOK, QueueStatus, MovingStatus, PendingStatus
  <2>4. PICK S \in SUBSET Node : QueuesBecome(Notify(Notify(queues, S), {n}))
    <3>1. \E v : SetVariable(n, v)
      BY <1>2 DEF ExecuteAssignment, RetractAssignment
    <3>2. \A source : Listening(source) \in SUBSET Node
      BY DEF Listening, Listeners
    <3> QED  BY <3>1, <3>2 DEF SetVariable
  <2>5. queueStatus'[n] = "CHECK"
    <3>1. Notify(queues, S).status[n] \in {"NONE", "CHECK"}
      BY <2>3, StatusNow, NotifyChecks
    <3>2. Notify(Notify(queues, S), {n}).status[n] = "CHECK"
      BY <3>1, NotifyChecks
    <3> QED  BY <2>4, <3>2 DEF QueuesBecome
  <2>6. n \in ToSet(candidateQueue')
    BY <2>5 DEF QueuesAreSound, CandidatesAreSound
  <2>7. candidateQueue' # <<>>
    BY <2>6 DEF ToSet
  <2> QED  BY <1>1, <2>7 DEF AllLookedAt
<1>3. CASE ExecuteCommand(n) \/ InvokeAbort(n) \/ ExecuteUpdate(n)
  <2>1. AllCurrent => AllCurrent'
    <3>1. SUFFICES ASSUME NEW m \in ToSet(pendingQueue) PROVE queueStatus'[m] = queueStatus[m]
      BY <1>1 DEF AllCurrent, Current
    <3>2. m \in Node /\ state[m] = "WAITING"
      BY ElementFacts DEF TypeOK, QueuesAreSound, PendingIsSound, IsPending
    <3>3. CASE UNCHANGED queueVars
      BY <3>3 DEF queueVars
    <3>4. CASE ExecuteCommand(n) /\ SetCommandHandle(n, "COMMAND_FAILED")
      <4>1. state[n] = "EXECUTING"
        BY <3>4, TailFacts DEF ExecuteCommand, EffectsAreSound, QueuedFor, TypeOK
      <4>2. PICK S \in SUBSET {n} : QueuesBecome(Notify(queues, S))
        BY <3>4 DEF SetCommandHandle
      <4>3. m \notin S
        BY <3>2, <4>1
      <4> QED  BY <3>2, <4>2, <4>3, UntoldStays, StatusNow DEF QueuesBecome
    <3> QED  BY <1>3, <3>3, <3>4 DEF ExecuteCommand, InvokeAbort, ExecuteUpdate
  <2> QED  BY <1>1, <2>1, SendingKeepsCandidates DEF AllLookedAt
<1> QED  BY <1>2, <1>3

LEMMA EverybodyIsLookedAt ==
  TypeOK /\ QueuesAreSound /\ QueuesAreSound' /\ FinishedAreSound /\ ConditionsStay
    /\ EffectsAreSound /\ ListsAreSteady /\ AllEndAlone /\ PendingAreReady /\ AllMove
    /\ NobodyIsLost /\ OnlyRootsEnd /\ Patient /\ AllLookedAt /\ [Next]_vars
  => AllLookedAt'
<1> SUFFICES ASSUME TypeOK, QueuesAreSound, QueuesAreSound', FinishedAreSound, ConditionsStay,
                    EffectsAreSound, ListsAreSteady, AllEndAlone, PendingAreReady, AllMove,
                    NobodyIsLost, OnlyRootsEnd, Patient, AllLookedAt, [Next]_vars
             PROVE  AllLookedAt'
  OBVIOUS
<1>1. CASE UNCHANGED vars
  BY <1>1 DEF AllLookedAt, AllCurrent, Current, MoreToCome, IsFinish, Patient, Steady, Lasting,
     Never, vars, condVars, queueVars, nodeVars, resolveVars
<1>2. ASSUME NEW n \in Node, CheckCandidate(n) PROVE AllLookedAt'
  BY <1>2 DEF AllLookedAt, CheckCandidate
<1>3. ASSUME NEW n \in Node, KeepPending(n) \/ DropPending(n) PROVE AllLookedAt'
  BY <1>3, WalkLooksAtAll
<1>4. ASSUME NEW n \in Node, AcquireResources(n) \/ FailToAcquire(n) PROVE AllLookedAt'
  BY <1>4, AcquisitionLooksAtAll
<1>5. ASSUME NEW n \in Node, TransitionNode(n) PROVE AllLookedAt'
  BY <1>5, TransitionLooksAtAll
<1>6. ASSUME NEW n \in Node,
             \/ ExecuteAssignment(n) \/ RetractAssignment(n) \/ ExecuteCommand(n)
             \/ InvokeAbort(n) \/ ExecuteUpdate(n)
      PROVE  AllLookedAt'
  BY <1>6, SendingLooksAtAll
<1>7. CASE AllChecked \/ GroupDone \/ BatchDone \/ StepDone \/ StartStep
  BY <1>7, PhasesLookAtAll
<1>8. CASE World
  <2>1. phase' = "idle"
    BY <1>8 DEF World, WorldUnchanged, AddPlan, DeleteFinishedPlans, LookupReturn,
           CommandHandleReturn, CommandReturn, CommandAbortAcknowledge, UpdateAcknowledge
  <2> QED  BY <2>1 DEF AllLookedAt
<1> QED  BY <1>1, <1>2, <1>3, <1>4, <1>5, <1>6, <1>7, <1>8 DEF Next, Step

LEMMA LookedAtAlways == Spec /\ []Patient => []AllLookedAt
<1>1. Init => AllLookedAt
  BY DEF Init, AllLookedAt
<1> QED
  BY <1>1, EverybodyIsLookedAt, TypeCorrect, SoundQueuesAlways, FinishedAlways, ConditionsAlways,
     EffectsAlways, ListsAlwaysSteady, EndsAloneAlways, ReadyAlways, AllMoveAlways,
     PatientLosesNobody, OnlyRootsEndAlways, PTL DEF Spec

\* Nothing above a node of a steady plan ends it.
LEMMA NoAncestorEnds ==
  ASSUME NEW n \in Node, Steady
  PROVE  AncestorEnd(n) # "T"
<1>1. {b \in Ancestors[n] : condition[b]["end"].kind # "default"} = {}
  BY AncestorFacts DEF Steady
<1> QED  BY <1>1 DEF AncestorEnd, AnyOf

\* A node that is ready and willing executes.
LEMMA WillingExecute ==
  ASSUME NEW n \in Node, state[n] = "WAITING", Steady, Ready(n), Willing(n)
  PROVE  Evaluated(n).state = "EXECUTING"
<1> DEFINE c == ValuesOf(n)
           d == DestState(Type[n], state[n], c)
<1>1. /\ c.exit # "T" /\ c.skip # "T" /\ c.start = "T" /\ c.pre = "T"
      /\ c.ancestorExit # "T" /\ c.ancestorInvariant # "F" /\ c.ancestorEnd # "T"
  BY NothingFromAncestors, NoAncestorEnds DEF ValuesOf, Ready, Willing, Undecided
<1>2. Evaluated(n).state = d.state
  BY DEF Evaluated, c, d
<1> HIDE DEF c
<1> QED  BY <1>1, <1>2 DEF DestState, FromWaiting, ToState, To

\* In a patient plan no release of a resource is missed: when the executive comes to rest, a node
\* that is left on the pending queue (PendingQueue) would execute still, were it evaluated again,
\* and something that it needs has a holder.  PlexilExec::resolveResourceConflicts() may stop
\* before the end of the queue, and a node that it has passed may be told of a change later: there
\* is another step then, which looks at it.
THEOREM PatientsAreToldOfReleases == Spec => []PatientNoMissedRelease
<1>1. TypeOK /\ QueuesAreSound /\ PendingAreReady /\ Patient /\ CurrentAreWilling /\ AllLookedAt
        /\ PatientWaitsForRunning => NoMissedRelease
  <2>1. SUFFICES ASSUME TypeOK, QueuesAreSound, PendingAreReady, Patient, CurrentAreWilling,
                        AllLookedAt, PatientWaitsForRunning, Quiescent,
                        NEW n \in ToSet(pendingQueue)
                 PROVE  /\ Evaluated(n).state = "EXECUTING"
                        /\ \E r \in Resources(n) : holder[r] # None
    BY DEF NoMissedRelease
  <2>2. phase = "effects" /\ candidateQueue = <<>> /\ n \in Node
    BY <2>1, ElementFacts DEF Quiescent, Performed, TypeOK
  <2>3. Ready(n) /\ Willing(n) /\ state[n] = "WAITING" /\ Steady
    BY <2>1, <2>2 DEF PendingAreReady, AllLookedAt, AllCurrent, CurrentAreWilling, Patient,
       QueuesAreSound, PendingIsSound, IsPending
  <2> QED  BY <2>1, <2>2, <2>3, WillingExecute DEF PatientWaitsForRunning
<1>2. /\ NoMissedRelease => PatientNoMissedRelease
      /\ ~Patient => PatientNoMissedRelease
  BY DEF PatientNoMissedRelease
<1> QED
  BY <1>1, <1>2, PatientOrNot, WillingAlways, LookedAtAlways, PatientsWait, ReadyAlways,
     TypeCorrect, SoundQueuesAlways, PTL

-----------------------------------------------------------------------------
(* Assertions.  What fails in notify(), when the ancestors' conditions are *)
(* checked and when a mutex is asked for, does not fail in calm plans.     *)

\* A node that needs resources is not told to exit or be skipped, nor a root command that has
\* ended to exit, and no list uses a mutex that a node inside it uses.
Calm ==
  /\ Patient
  /\ \A n \in Node :
       /\ Resources(n) # {} => \A c \in {"exit", "skip"} : condition[n][c].kind = "constant"
       /\ IsRoot(n) /\ Type[n] = "Command" => condition[n]["exit"].kind = "constant"
       /\ \A a \in Ancestors[n] : Mutexes(n) \cap Mutexes(a) = {}

\* Only a command node activates a condition more often than it deactivates it.
LeaksAreCommands == \A n \in exitLeaked : Type[n] = "Command"

LEMMA LeaksStayCommands ==
  LeaksAreCommands /\ [Next]_vars => LeaksAreCommands'
<1> SUFFICES ASSUME LeaksAreCommands, [Next]_vars, NEW n \in exitLeaked' PROVE Type[n] = "Command"
  BY DEF LeaksAreCommands
<1>1. CASE UNCHANGED exitLeaked
  BY <1>1 DEF LeaksAreCommands
<1>2. ASSUME NEW m \in Node, TransitionNode(m) PROVE Type[n] = "Command"
  <2>1. exitLeaked' \in {exitLeaked, exitLeaked \cup {m}}
        /\ (Type[m] # "Command" => exitLeaked' = exitLeaked)
    BY <1>2 DEF TransitionNode
  <2> QED  BY <2>1 DEF LeaksAreCommands
<1>3. World => UNCHANGED exitLeaked
  BY DEF World, WorldUnchanged, AddPlan, DeleteFinishedPlans, LookupReturn,
         CommandHandleReturn, CommandReturn, CommandAbortAcknowledge, UpdateAcknowledge
<1>4. (StartStep \/ Step) /\ (~\E m \in Node : TransitionNode(m)) => UNCHANGED exitLeaked
  BY DEF Step, StartStep, ExecuteAssignment, RetractAssignment, ExecuteCommand, InvokeAbort,
         ExecuteUpdate, EffectsUnchanged, BatchDone, StepDone, AllChecked, GroupDone,
         CheckCandidate, KeepPending, DropPending, AcquireResources, FailToAcquire, condVars
<1>5. UNCHANGED vars => UNCHANGED exitLeaked
  BY DEF vars, condVars
<1> QED  BY <1>1, <1>2, <1>3, <1>4, <1>5 DEF Next

\* A root that has not begun or has ended, and a node that waits for resources.
Dormant(m) == IsRoot(m) /\ state[m] \in {"INACTIVE", "FINISHED"}
Awaits(m)  == Resources(m) # {} /\ state[m] = "WAITING"

\* Neither hears of anything but, perhaps, of what the start condition of the latter reads.
RestersHear ==
  \A m \in Node : \A source :
    source.kind \notin {"constant", "default"} /\ m \in Listeners(source) =>
      /\ ~Dormant(m)
      /\ Awaits(m) => Reads(condition[m]["start"], source)

LEMMA CalmRest == TypeOK /\ LeaksAreCommands /\ Calm => RestersHear
<1> SUFFICES ASSUME TypeOK, LeaksAreCommands, Calm, NEW m \in Node, NEW source,
                    source.kind \notin {"constant", "default"}, m \in Listeners(source),
                    Dormant(m) \/ Awaits(m)
             PROVE  Awaits(m) /\ ~Dormant(m) /\ Reads(condition[m]["start"], source)
  BY DEF RestersHear
<1>1. Steady
  BY DEF Calm, Patient
<1>2. Awaits(m) => ~IsRoot(m) /\ ~Has(m, "exit") /\ ~Has(m, "skip")
  BY DEF Calm, Patient, Awaits, Has
<1>3. \A c \in {"exit", "invariant", "end"} : Inherits(m, c) = {}
  BY <1>1, AncestorFacts DEF Inherits, Has, Steady, Never
<1>4. Type[m] = "List" => \A c \in {"exit", "invariant", "end"} : ~Has(m, c)
  BY <1>1 DEF Has, Steady, Never
<1>5. ASSUME NEW c \in {"exit", "invariant", "end"}, KeptActive(m, c) PROVE Type[m] = "List"
  BY <1>5, AncestorFacts DEF KeptActive
<1>6. state[m] \in {"INACTIVE", "FINISHED", "WAITING"}
  BY DEF Dormant, Awaits
<1>7. PICK c \in ConditionName : Active(m, c) /\ Has(m, c) /\ Reads(condition[m][c], source)
  BY <1>3, <1>6 DEF Listeners
<1>8. ~KeptActive(m, c)
  BY <1>4, <1>5, <1>7 DEF KeptActive
<1>9. CASE c = "exit" /\ m \in exitLeaked
  <2>1. ~IsRoot(m)
    BY <1>7, <1>9 DEF LeaksAreCommands, Calm, Has
  <2> QED  BY <1>2, <1>7, <1>9, <2>1 DEF Dormant
<1>10. CASE state[m] \in ActiveStates(c)
  <2>1. state[m] = "WAITING"
    BY <1>6, <1>10 DEF ActiveStates, ConditionName
  <2>2. Awaits(m) /\ ~Dormant(m)
    BY <2>1 DEF Dormant
  <2>3. c \in {"exit", "skip", "start"}
    BY <1>10, <2>1 DEF ActiveStates, ConditionName
  <2> QED  BY <1>2, <1>7, <2>2, <2>3
<1> QED  BY <1>7, <1>8, <1>9, <1>10 DEF Active

\* Those who are not to be told of anything: the nodes on the pending queue, the roots to be
\* deleted and those of the plans that have not been loaded.
RestStatus == PendingStatus \cup {"DELETE"}
Unloaded(m) == IsRoot(m) /\ m \notin plan \cup deleted
Resting(m)  == queueStatus[m] \in RestStatus \/ Unloaded(m)

\* They have been told of nothing, so that the queues take their statuses as they are.
RestersAreSound ==
  \A m \in Node :
    /\ queueStatus[m] \in PendingStatus => m \in ToSet(pendingQueue) /\ queueStatus[m] \notin CheckStatus
    /\ queueStatus[m] = "DELETE" => Dormant(m)
    /\ Unloaded(m) => queueStatus[m] = "NONE" /\ Dormant(m)

LEMMA RestersWait ==
  ASSUME QueuesAreSound, PendingAreReady, Calm, RestersAreSound, NEW m \in Node, Resting(m)
  PROVE  /\ Dormant(m) \/ (Awaits(m) /\ ~IsRoot(m) /\ Ready(m))
         /\ state[m] \in {"INACTIVE", "FINISHED", "WAITING"}
         /\ m \notin ToSet(stateChangeQueue)
<1>1. CASE queueStatus[m] \in PendingStatus
  BY <1>1 DEF RestersAreSound, PendingAreReady, QueuesAreSound, PendingIsSound, IsPending, Calm,
     Patient, Awaits, Ready
<1>2. CASE queueStatus[m] \notin PendingStatus
  <2>1. Dormant(m) /\ queueStatus[m] \in {"DELETE", "NONE"}
    BY <1>2 DEF Resting, RestStatus, RestersAreSound
  <2>2. m \notin ToSet(stateChangeQueue)
    BY <1>2, <2>1 DEF QueuesAreSound, ChangesAreSound, CanMove
  <2> QED  BY <2>1, <2>2 DEF Dormant
<1> QED  BY <1>1, <1>2

\* The queues q as they come about while n moves: nobody who rests has been told, but perhaps
\* of a resource, and nobody else rests; n itself is free, unless it has ended.
LeavesAlone(q, n) ==
  /\ q.fault = "none"
  /\ \A m \in Node \ {n} :
       /\ q.status[m] \in RestStatus => Resting(m)
       /\ Resting(m) => q.status[m] \in {queueStatus[m], Available(queueStatus[m])}
  /\ Free(q, n) \/ (IsFinish(n) /\ q.status[n] = "DELETE")

LEMMA StatusesAtRest ==
  ASSUME NEW s
  PROVE  /\ Notified(s) \in RestStatus <=> s \in RestStatus
         /\ Available(s) \in RestStatus <=> s \in RestStatus
         /\ Available(Available(s)) = Available(s)
         /\ s \notin CheckStatus => Available(s) \notin CheckStatus
         /\ s \in {"NONE", "CHECK"} => Notified(s) \in {"NONE", "CHECK"} /\ Available(s) = s
         /\ s = "NONE" => s \notin RestStatus
         /\ Notified(s) = "DELETE" \/ Available(s) = "DELETE" => s = "DELETE"
         /\ Available(s) \in PendingStatus <=> s \in PendingStatus
BY DEF Notified, Available, RestStatus, PendingStatus, CheckStatus

\* Telling those who do not rest disturbs nobody.
LEMMA NotifyLeavesAlone ==
  ASSUME RestersAreSound, NEW n \in Node, NEW q, LeavesAlone(q, n), NEW S \in SUBSET Node,
         \A m \in S : IF m = n THEN Free(q, n) ELSE ~Resting(m)
  PROVE  LeavesAlone(Notify(q, S), n) /\ (Free(q, n) => Free(Notify(q, S), n))
<1>1. Notify(q, S).fault = "none"
  <2>1. \A m \in S : q.status[m] \notin {"PENDING_TRY_CHECK", "DELETE"}
    BY DEF LeavesAlone, RestStatus, PendingStatus, Free
  <2> QED  BY <2>1 DEF Notify, LeavesAlone
<1>2. ASSUME NEW m \in Node \ {n}
      PROVE  /\ Notify(q, S).status[m] \in RestStatus => Resting(m)
             /\ Resting(m) => Notify(q, S).status[m] \in {queueStatus[m], Available(queueStatus[m])}
  <2>1. /\ m \notin S => Notify(q, S).status[m] = q.status[m]
        /\ Notify(q, S).status[m] \in {q.status[m], Notified(q.status[m])}
    BY UntoldStays, NotifiedFacts
  <2> QED  BY <2>1, StatusesAtRest DEF LeavesAlone
<1>3. Free(q, n) => Free(Notify(q, S), n)
  BY NotifyKeeps
<1>4. q.status[n] = "DELETE" => Notify(q, S).status[n] = "DELETE"
  BY NotifyKeeps DEF KeepsDeleted
<1> QED  BY <1>1, <1>2, <1>3, <1>4 DEF LeavesAlone

LEMMA AvailableLeavesAlone ==
  ASSUME RestersAreSound, NEW n \in Node, NEW q, LeavesAlone(q, n), NEW R, Free(q, n)
  PROVE  LeavesAlone(NotifyAvailable(q, R), n) /\ Free(NotifyAvailable(q, R), n)
<1> DEFINE new == NotifyAvailable(q, R)
<1>1. new.fault = q.fault /\ \A m \in Node : new.status[m] \in {q.status[m], Available(q.status[m])}
  BY DEF NotifyAvailable
<1> HIDE DEF new
<1>2. Free(new, n)
  BY <1>1, StatusesAtRest DEF Free
<1>3. ASSUME NEW m \in Node \ {n}
      PROVE  /\ new.status[m] \in RestStatus => Resting(m)
             /\ Resting(m) => new.status[m] \in {queueStatus[m], Available(queueStatus[m])}
  BY <1>1, StatusesAtRest DEF LeavesAlone
<1>4. LeavesAlone(new, n)
  BY <1>1, <1>2, <1>3 DEF LeavesAlone
<1> QED  BY <1>2, <1>4 DEF new

\* Nobody who rests is told that n moves.
LEMMA MovingTellsNoRester ==
  ASSUME TypeOK, QueuesAreSound, RestersHear, RestersHear', PendingAreReady, AllResetTogether, Calm,
         Calm', RestersAreSound, NEW n \in Node, TransitionNode(n), NEW m \in Node, Resting(m)
  PROVE  m # n /\ m \notin Initialized(n) /\ m \notin ToldChildren(n) /\ m \notin Listening(StateOf(n))'
<1>1. n \in ToSet(stateChangeQueue) /\ state' = [state EXCEPT ![n] = next[n].state]
      /\ UNCHANGED condition
  BY TailFacts DEF TransitionNode, TypeOK
<1>2. /\ Dormant(m) \/ (Awaits(m) /\ ~IsRoot(m) /\ Ready(m))
      /\ state[m] \in {"INACTIVE", "FINISHED", "WAITING"}
      /\ m # n
  BY <1>1, RestersWait
<1>3. Lasting(m, condition[m]["start"]) \/ Dormant(m)
  BY <1>2 DEF Calm, Patient, Awaits
<1>4. m \notin Initialized(n)
  <2>1. SUFFICES ASSUME m \in Initialized(n) PROVE FALSE
    OBVIOUS
  <2>3. PICK v : m \in Listeners(VariableOf(v))
    BY <2>1 DEF Initialized, Listening
  <2>2. ~Dormant(m) /\ Awaits(m) /\ Reads(condition[m]["start"], VariableOf(v))
    BY <1>2, <2>3 DEF RestersHear, VariableOf
  <2> QED  BY <1>3, <2>2 DEF Reads, VariableOf, Lasting
<1>5. m \notin ToldChildren(n)
  <2>1. SUFFICES ASSUME Parent[m] = n, state[m] \in {"INACTIVE", "FINISHED"} PROVE FALSE
    BY DEF ToldChildren, Children
  <2>2. ~IsRoot(m)
    BY <2>1, PlanAssumption DEF IsRoot
  <2> QED  BY <1>2, <2>1, <2>2 DEF Dormant, Awaits
<1>6. m \notin Listening(StateOf(n))'
  <2>1. SUFFICES ASSUME m \in Listeners(StateOf(n))' PROVE FALSE
    BY DEF Listening
  <2>2. state'[m] = state[m] /\ (Dormant(m)' <=> Dormant(m)) /\ (Awaits(m)' <=> Awaits(m))
    BY <1>1, <1>2 DEF TypeOK, Dormant, Awaits
  <2>3. ~Dormant(m)' /\ (Awaits(m)' => Reads(condition'[m]["start"], StateOf(n)))
    BY <2>1 DEF RestersHear, StateOf
  <2>4. Awaits(m) /\ ~IsRoot(m) /\ Ready(m) /\ Reads(condition[m]["start"], StateOf(n))
    BY <1>1, <1>2, <2>2, <2>3
  <2>5. Parent[n] = Parent[m] /\ state[n] = "FINISHED"
    BY <1>2, <1>3, <2>2, <2>3, <2>4 DEF Reads, StateOf, Lasting, Ready, Value, Truth
  <2>6. ResetTogether(n)
    BY DEF AllResetTogether, Calm, Patient
  <2> QED  BY <1>1, <2>4, <2>5, <2>6 DEF ResetTogether, Awaits, IsRoot
<1> QED  BY <1>2, <1>4, <1>5, <1>6

LEMMA MovingLeavesAlone ==
  ASSUME TypeOK, QueuesAreSound, RestersHear, RestersHear', PendingAreReady, AllResetTogether, Calm,
         Calm', RestersAreSound, NEW n \in Node, TransitionNode(n)
  PROVE  /\ fault' = "none"
         /\ \A m \in Node \ {n} :
              /\ queueStatus'[m] \in RestStatus => Resting(m)
              /\ Resting(m) => queueStatus'[m] \in {queueStatus[m], Available(queueStatus[m])}
         /\ queueStatus'[n] \in {"NONE", "CHECK"} \/ (IsFinish(n) /\ queueStatus'[n] = "DELETE")
<1> DEFINE popped == WithStatus(queues, n, "NONE")
           rechecked == IF queueStatus[n] = "TRANSITION_CHECK" THEN Notify(popped, {n})
                        ELSE popped
           freed == NotifyAvailable(rechecked, ReleasedByHolder(n))
           ready == Notify(freed, Initialized(n))
           told == IF IsFinish(n) THEN Finish(ready, n) ELSE Notify(ready, {n})
<1>1. /\ Initialized(n) \in SUBSET Node /\ ToldChildren(n) \in SUBSET Node
      /\ Listening(StateOf(n))' \in SUBSET Node
  BY DEF Initialized, Listening, Listeners, ToldChildren, Children
<1>2. ASSUME NEW m \in Initialized(n) \cup ToldChildren(n) \cup Listening(StateOf(n))'
      PROVE  ~Resting(m)
  BY <1>1, <1>2, MovingTellsNoRester
<1>3. LeavesAlone(popped, n) /\ Free(popped, n)
  <2>1. popped.fault = "none"
    BY DEF WithStatus, queues, TransitionNode
  <2>2. Differ(queueStatus, popped.status, n, "NONE")
    BY StatusNow, WithStatusIs, OtherStatuses
  <2> HIDE DEF popped
  <2> QED  BY <2>1, <2>2 DEF Differ, LeavesAlone, Free, Resting
<1>4. LeavesAlone(rechecked, n) /\ Free(rechecked, n)
  <2>1. LeavesAlone(Notify(popped, {n}), n) /\ Free(Notify(popped, {n}), n)
    <3> HIDE DEF popped
    <3>1. {n} \in SUBSET Node /\ \A m \in {n} : IF m = n THEN Free(popped, n) ELSE ~Resting(m)
      BY <1>3
    <3> QED  BY <1>3, <3>1, NotifyLeavesAlone
  <2> HIDE DEF popped
  <2> QED  BY <1>3, <2>1
<1>5. LeavesAlone(freed, n) /\ Free(freed, n)
  <2> HIDE DEF rechecked
  <2> QED  BY <1>4, AvailableLeavesAlone
<1>6. LeavesAlone(ready, n) /\ Free(ready, n)
  <2> HIDE DEF freed
  <2>1. \A m \in Initialized(n) : IF m = n THEN Free(freed, n) ELSE ~Resting(m)
    BY <1>2, <1>5
  <2> QED  BY <1>1, <1>5, <2>1, NotifyLeavesAlone
<1>7. LeavesAlone(told, n) /\ (~IsFinish(n) => Free(told, n))
  <2>1. LeavesAlone(Notify(ready, {n}), n) /\ Free(Notify(ready, {n}), n)
    <3> HIDE DEF ready
    <3>1. {n} \in SUBSET Node /\ \A m \in {n} : IF m = n THEN Free(ready, n) ELSE ~Resting(m)
      BY <1>6
    <3> QED  BY <1>6, <3>1, NotifyLeavesAlone
  <2>2. ASSUME IsFinish(n) PROVE LeavesAlone(Finish(ready, n), n)
    <3>1. TypedQueues(ready)
      BY <1>1, QueuesTyped, WithStatusTyped, OtherStatuses, NotifyTyped, NotifyAvailableTyped
    <3> HIDE DEF ready
    <3>2. ready.status \in [Node -> QueueStatus]
      BY <3>1 DEF TypedQueues
    <3>3. Differ(ready.status, Finish(ready, n).status, n, "DELETE")
          /\ Finish(ready, n).fault = ready.fault
      <4>1. CASE ready.status[n] = "CHECK"
        BY <3>2, <4>1, OtherStatuses DEF Finish, Differ
      <4>2. CASE ready.status[n] = "NONE"
        <5>1. Finish(ready, n) = WithStatus(ready, n, "DELETE")
          BY <4>2 DEF Finish
        <5> QED  BY <3>2, <5>1, WithStatusIs, OtherStatuses DEF WithStatus
      <4> QED  BY <1>6, <4>1, <4>2 DEF Free
    <3> QED  BY <1>6, <2>2, <3>2, <3>3 DEF LeavesAlone, Differ
  <2> HIDE DEF ready
  <2> QED  BY <2>1, <2>2
<1>8. LeavesAlone(Moved(n), n) /\ (~IsFinish(n) => Free(Moved(n), n))
  <2>1. Moved(n) = IF Type[n] = "List" THEN Notify(told, ToldChildren(n)) ELSE told
    BY DEF Moved
  <2> HIDE DEF told
  <2>2. \A m \in ToldChildren(n) : IF m = n THEN Free(told, n) ELSE ~Resting(m)
    <3>1. n \in ToldChildren(n) => ~IsFinish(n)
      BY PlanAssumption DEF ToldChildren, Children, IsFinish, IsRoot
    <3> QED  BY <1>2, <1>7, <3>1
  <2> QED  BY <1>1, <1>7, <2>1, <2>2, NotifyLeavesAlone
<1> HIDE DEF popped, rechecked, freed, ready, told
<1>9. \A m \in Listening(StateOf(n))' : IF m = n THEN Free(Moved(n), n) ELSE ~Resting(m)
  <2>1. IsFinish(n) => Dormant(n)'
    BY DEF IsFinish, Dormant, IsRoot, TransitionNode, TypeOK
  <2>2. n \in Listening(StateOf(n))' => ~Dormant(n)'
    BY DEF RestersHear, Listening, StateOf
  <2> QED  BY <1>2, <1>8, <2>1, <2>2
<1>10. QueuesBecome(Notify(Moved(n), Listening(StateOf(n))'))
  BY DEF TransitionNode
<1>11. LeavesAlone(Notify(Moved(n), Listening(StateOf(n))'), n)
  BY <1>1, <1>8, <1>9, NotifyLeavesAlone
<1> QED  BY <1>10, <1>11 DEF QueuesBecome, LeavesAlone, Free

\* The checks that are made of a node of a calm plan succeed: it inherits no condition, and
\* whoever holds a mutex that it wants is not above it.
LEMMA CalmIsChecked ==
  ASSUME Calm, NEW n \in Node, NEW q
  PROVE  Checked(q, n) = q
<1>1. \A c \in {"exit", "invariant", "end"} : Inherits(n, c) = {}
  BY AncestorFacts DEF Inherits, Has, Steady, Never, Calm, Patient
<1>2. AncestorsChecked(n) \subseteq {"exit", "invariant", "end"}
  BY DEF AncestorsChecked
<1> QED  BY <1>1, <1>2 DEF Checked, AncestorsInactive

LEMMA NotRecursive ==
  ASSUME TypeOK, Calm, HoldersAreSound, NEW n \in Node, NEW m \in FirstBusy(n) \cap Mutex
  PROVE  holder[m] \notin Ancestors[n]
<1>1. m \in Mutexes(n) /\ holder[m] # None
  <2>1. PICK j \in DOMAIN Wanted(n) : m = Wanted(n)[j] /\ holder[m] # None
    BY DEF FirstBusy
  <2>2. /\ Using[n] \in Seq(Mutex)
        /\ Type[n] = "Assignment" => Dest[n] \in Variable
    BY PlanAssumption
  <2>3. CASE Type[n] = "Assignment"
    <3>1. (j \in DOMAIN Using[n] /\ Wanted(n)[j] = Using[n][j]) \/ Wanted(n)[j] = Dest[n]
      BY <2>1, <2>2, <2>3 DEF Wanted
    <3> QED  BY <2>1, <2>2, <2>3, <3>1, PlanAssumption DEF Mutexes
  <2>4. CASE Type[n] # "Assignment"
    <3>1. j \in DOMAIN Using[n] /\ Wanted(n)[j] = Using[n][j]
      BY <2>1, <2>2, <2>4 DEF Wanted
    <3> QED  BY <2>1, <3>1 DEF Mutexes
  <2> QED  BY <2>3, <2>4
<1>2. ASSUME holder[m] \in Ancestors[n] PROVE FALSE
  <2>1. m \in Resources(holder[m]) /\ holder[m] \in Node
    BY <1>1, <1>2, AncestorFacts DEF HoldersAreSound, HolderIsSound, Resource
  <2>2. m \in Mutexes(holder[m])
    BY <2>1, PlanAssumption DEF Resources
  <2> QED  BY <1>1, <1>2, <2>2 DEF Calm
<1> QED  BY <1>2

LEMMA QueueingFaultless ==
  ASSUME TypeOK, QueuesAreSound, FinishedAreSound', Calm, HoldersAreSound, RestersAreSound,
         NEW n \in Node,
         \/ CheckCandidate(n) \/ KeepPending(n) \/ DropPending(n)
         \/ AcquireResources(n) \/ FailToAcquire(n)
  PROVE  fault' = "none" /\ ~DropPending(n)
<1> DEFINE Sure(q) == q.fault \in {"none", "not queueable"}
<1>1. fault = "none" /\ queues.fault = fault
  BY DEF queues, CheckCandidate, KeepPending, DropPending, AcquireResources, FailToAcquire
<1>2. ASSUME NEW q, Sure(q), NEW s
      PROVE  Sure(StateChangeStatus(q, n)) /\ Sure(WithStatus(q, n, s))
  <2>1. \A t : WithStatus(q, n, t).fault = q.fault
    BY DEF WithStatus
  <2>2. WithFault(q, "not queueable").fault = "not queueable"
    BY DEF WithFault
  <2>3. StateChangeStatus(q, n) \in {WithStatus(q, n, "TRANSITION"), WithFault(q, "not queueable")}
    BY DEF StateChangeStatus
  <2> QED  BY <1>2, <2>1, <2>2, <2>3
<1>3. ASSUME NEW q, Sure(q), QueuesBecome(q) PROVE fault' = "none"
  BY <1>3 DEF QueuesBecome, FinishedAreSound
<1>4. ~DropPending(n)
  BY DEF DropPending, RestersAreSound, CheckStatus, PendingStatus
<1>5. CASE CheckCandidate(n)
  <2> DEFINE popped == [queues EXCEPT !.status[n] = "NONE", !.candidates = Tail(@)]
  <2>1. popped.fault = "none"
    BY <1>1 DEF queues
  <2>2. \/ QueuesBecome(Checked(popped, n)) \/ QueuesBecome(StateChangeStatus(Checked(popped, n), n))
        \/ QueuesBecome(WithStatus(Checked(popped, n), n, "PENDING_TRY"))
    BY <1>5 DEF CheckCandidate
  <2> HIDE DEF popped
  <2>3. Checked(popped, n) = popped
    BY CalmIsChecked
  <2>4. Sure(popped)
    BY <2>1
  <2> HIDE DEF Sure
  <2> QED  BY <1>2, <1>3, <1>4, <2>2, <2>3, <2>4
<1>6. CASE KeepPending(n)
  <2>1. fault' \in {fault, Checked(queues, n).fault}
    BY <1>6 DEF KeepPending
  <2> QED  BY <1>1, <1>4, <2>1, CalmIsChecked
<1>7. CASE AcquireResources(n)
  <2>1. Sure(queues) /\ QueuesBecome(StateChangeStatus(WithStatus(queues, n, "NONE"), n))
    BY <1>1, <1>7 DEF AcquireResources
  <2> HIDE DEF Sure
  <2> QED  BY <1>2, <1>3, <1>4, <2>1
<1>8. CASE FailToAcquire(n)
  <2>1. PICK released :
          LET q == WithStatus(NotifyAvailable(queues, released), n, "PENDING")
          IN  QueuesBecome(IF \E m \in FirstBusy(n) \cap Mutex : holder[m] \in Ancestors[n]
                           THEN WithFault(q, "recursive mutex") ELSE q)
    BY <1>8 DEF FailToAcquire
  <2>2. QueuesBecome(WithStatus(NotifyAvailable(queues, released), n, "PENDING"))
    BY <2>1, NotRecursive
  <2>3. NotifyAvailable(queues, released).fault = "none"
    BY <1>1 DEF NotifyAvailable
  <2>4. Sure(WithStatus(NotifyAvailable(queues, released), n, "PENDING"))
    <3> DEFINE q == NotifyAvailable(queues, released)
    <3>1. Sure(q)
      BY <2>3
    <3> HIDE DEF q, Sure
    <3> QED  BY <1>2, <3>1 DEF q
  <2> HIDE DEF Sure
  <2> QED  BY <1>3, <1>4, <2>2, <2>4
<1> QED  BY <1>4, <1>5, <1>6, <1>7, <1>8

LEMMA QueueingKeepsRest ==
  ASSUME TypeOK, QueuesAreSound, FinishedAreSound, PendingAreReady, Calm, RestersAreSound,
         NEW n \in Node,
         CheckCandidate(n) \/ KeepPending(n) \/ AcquireResources(n) \/ FailToAcquire(n)
  PROVE  RestersAreSound'
<1>1. UNCHANGED <<state, plan, deleted>>
  BY DEF CheckCandidate, KeepPending, AcquireResources, FailToAcquire, planVars, condVars
<1>2. \A m \in Node : (Dormant(m)' <=> Dormant(m)) /\ (Unloaded(m)' <=> Unloaded(m))
  BY <1>1 DEF Dormant, Unloaded
<1>3. \A m \in Node \ {n} :
        /\ queueStatus'[m] \in {queueStatus[m], Available(queueStatus[m])}
        /\ m \in ToSet(pendingQueue') <=> m \in ToSet(pendingQueue)
  <2>1. CASE CheckCandidate(n)
    BY <2>1, CheckCandidateStatus DEF OthersStay
  <2>2. CASE KeepPending(n)
    BY <2>2, KeepPendingStatus DEF OthersStay
  <2>3. CASE AcquireResources(n)
    BY <2>3, AcquireResourcesStatus DEF OthersStay
  <2>4. CASE FailToAcquire(n)
    BY <2>4, FailToAcquireStatus
  <2> QED  BY <2>1, <2>2, <2>3, <2>4
<1>4. /\ ~Unloaded(n) /\ queueStatus'[n] \notin CheckStatus \cup {"DELETE"}
      /\ queueStatus'[n] \in PendingStatus => n \in ToSet(pendingQueue')
  <2>1. CASE CheckCandidate(n)
    BY <2>1, CheckCandidateStatus DEF RestersAreSound, CheckStatus, PendingStatus
  <2>2. CASE KeepPending(n)
    <3>1. queueStatus[n] \in PendingStatus \ CheckStatus
      BY <2>2, KeepPendingStatus DEF RestersAreSound
    <3>2. queueStatus'[n] \in {queueStatus[n], "PENDING"}
      BY <2>2 DEF KeepPending, TypeOK
    <3>3. queueStatus'[n] \in PendingStatus \ CheckStatus
      BY <3>1, <3>2 DEF PendingStatus, CheckStatus
    <3> QED  BY <2>2, <3>1, <3>3, KeepPendingStatus DEF RestersAreSound, PendingStatus, CheckStatus
  <2>3. CASE AcquireResources(n)
    <3>1. queueStatus[n] \in PendingStatus
      BY <2>3, AcquireResourcesStatus DEF IsPending
    <3> QED  BY <2>3, <3>1, AcquireResourcesStatus DEF RestersAreSound, PendingStatus, CheckStatus
  <2>4. CASE FailToAcquire(n)
    <3>1. queueStatus[n] \in PendingStatus
      BY <2>4, FailToAcquireStatus DEF IsPending, QueuesAreSound, PendingIsSound
    <3> QED  BY <2>4, <3>1, FailToAcquireStatus DEF RestersAreSound, PendingStatus, CheckStatus
  <2> QED  BY <2>1, <2>2, <2>3, <2>4
<1>5. ASSUME NEW m \in Node \ {n}
      PROVE  /\ queueStatus'[m] \in PendingStatus =>
                  m \in ToSet(pendingQueue') /\ queueStatus'[m] \notin CheckStatus
             /\ queueStatus'[m] = "DELETE" => Dormant(m)'
             /\ Unloaded(m)' => queueStatus'[m] = "NONE" /\ Dormant(m)'
  <2>1. queueStatus'[m] \in {queueStatus[m], Available(queueStatus[m])}
    BY <1>3
  <2> QED  BY <1>2, <1>3, <2>1, StatusesAtRest DEF RestersAreSound
<1> QED
  BY <1>2, <1>4, <1>5 DEF RestersAreSound

\* The queues q as they come about when those who do not rest are told.
LeavesAllAlone(q) ==
  /\ q.fault = "none"
  /\ \A m \in Node : /\ q.status[m] \in RestStatus => Resting(m)
                     /\ Resting(m) => q.status[m] = queueStatus[m]

LEMMA NotifyLeavesAllAlone ==
  ASSUME RestersAreSound, NEW q, LeavesAllAlone(q), NEW S \in SUBSET Node, \A m \in S : ~Resting(m)
  PROVE  LeavesAllAlone(Notify(q, S))
<1>1. Notify(q, S).fault = "none"
  <2>1. \A m \in S : q.status[m] \notin {"PENDING_TRY_CHECK", "DELETE"}
    BY DEF LeavesAllAlone, RestStatus, PendingStatus
  <2> QED  BY <2>1 DEF Notify, LeavesAllAlone
<1>2. ASSUME NEW m \in Node
      PROVE  /\ Notify(q, S).status[m] \in RestStatus => Resting(m)
             /\ Resting(m) => Notify(q, S).status[m] = queueStatus[m]
  <2>1. /\ m \notin S => Notify(q, S).status[m] = q.status[m]
        /\ Notify(q, S).status[m] \in {q.status[m], Notified(q.status[m])}
    BY UntoldStays, NotifiedFacts
  <2> QED  BY <2>1, StatusesAtRest DEF LeavesAllAlone
<1> QED  BY <1>1, <1>2 DEF LeavesAllAlone

LEMMA LeftAloneStaySound ==
  ASSUME RestersAreSound, NEW q, LeavesAllAlone(q), queueStatus' = q.status,
         UNCHANGED <<state, pendingQueue>>, plan \cup deleted \subseteq plan' \cup deleted'
  PROVE  RestersAreSound'
<1> SUFFICES ASSUME NEW m \in Node
             PROVE  /\ queueStatus'[m] \in PendingStatus =>
                         m \in ToSet(pendingQueue') /\ queueStatus'[m] \notin CheckStatus
                    /\ queueStatus'[m] = "DELETE" => Dormant(m)'
                    /\ Unloaded(m)' => queueStatus'[m] = "NONE" /\ Dormant(m)'
  BY DEF RestersAreSound
<1>1. (Dormant(m)' <=> Dormant(m)) /\ (Unloaded(m)' => Unloaded(m)) /\ (Unloaded(m) => Resting(m))
  BY DEF Dormant, Unloaded, Resting
<1>2. /\ queueStatus'[m] \in RestStatus => queueStatus'[m] = queueStatus[m]
      /\ Unloaded(m) => queueStatus'[m] = queueStatus[m]
  BY <1>1 DEF LeavesAllAlone
<1> QED  BY <1>1, <1>2 DEF RestersAreSound, RestStatus

\* Nobody who rests hears of a lookup or a variable.
LEMMA RestersUntold ==
  ASSUME QueuesAreSound, RestersHear, PendingAreReady, Calm, RestersAreSound,
         NEW source, source.kind \in {"lookup", "variable"}, NEW m \in Listening(source)
  PROVE  m \in Node /\ ~Resting(m)
<1>1. m \in Node /\ m \in Listeners(source)
  BY DEF Listening, Listeners
<1>2. ASSUME Resting(m) PROVE FALSE
  <2>1. Awaits(m) /\ Reads(condition[m]["start"], source)
    BY <1>1, <1>2, RestersWait DEF RestersHear
  <2>2. Lasting(m, condition[m]["start"])
    BY <1>1, <2>1 DEF Calm, Patient, Awaits
  <2> QED  BY <2>1, <2>2 DEF Reads, Lasting
<1> QED  BY <1>1, <1>2

LEMMA OtherStepsFaultless ==
  ASSUME TypeOK, QueuesAreSound, EffectsAreSound, RestersHear, PendingAreReady, Calm,
         RestersAreSound, FinishedAreSound', Next,
         ~\E n \in Node :
             \/ CheckCandidate(n) \/ KeepPending(n) \/ DropPending(n)
             \/ AcquireResources(n) \/ FailToAcquire(n) \/ TransitionNode(n)
  PROVE  fault' = "none" /\ RestersAreSound'
<1> USE DEF queueVars
<1> DEFINE Goal == fault' = "none" /\ RestersAreSound'
<1>1. UNCHANGED <<state, pendingQueue>>
  BY OtherStepsTell
<1>2. LeavesAllAlone(queues) \/ fault # "none"
  BY StatusNow DEF LeavesAllAlone, queues, Resting
<1>3. ASSUME NEW q, LeavesAllAlone(q), QueuesBecome(q), UNCHANGED <<plan, deleted>> PROVE Goal
  <2>1. queueStatus' = q.status /\ fault' = "none"
    BY <1>3 DEF QueuesBecome, LeavesAllAlone
  <2> QED  BY <1>1, <1>3, <2>1, LeftAloneStaySound
<1>4. ASSUME NEW S \in SUBSET Node, \A m \in S : ~Resting(m), QueuesBecome(Notify(queues, S)),
             fault = "none", UNCHANGED <<plan, deleted>>
      PROVE  Goal
  BY <1>2, <1>3, <1>4, NotifyLeavesAllAlone
<1>5. ASSUME UNCHANGED queueStatus, fault' = "none", fault = "none",
             plan \cup deleted \subseteq plan' \cup deleted'
      PROVE  Goal
  BY <1>1, <1>2, <1>5, StatusNow, LeftAloneStaySound
<1>6. \A source : source.kind \in {"lookup", "variable"} =>
        Listening(source) \in SUBSET Node /\ \A m \in Listening(source) : ~Resting(m)
  BY RestersUntold DEF Listening, Listeners
<1>7. \A n \in Node : state[n] \in Running => ~Resting(n)
  BY RestersWait DEF Running
<1>8. /\ \A v : VariableOf(v).kind = "variable"
      /\ \A l : LookupOf(l).kind = "lookup"
  BY DEF VariableOf, LookupOf
<1>9. ASSUME NEW n \in Node, ExecuteAssignment(n) \/ RetractAssignment(n) PROVE Goal
  <2>1. /\ n \in ToSet(assignmentsToExecute) \/ n \in ToSet(assignmentsToRetract)
        /\ fault = "none" /\ UNCHANGED <<plan, deleted>>
        /\ \E v : SetVariable(n, v)
    BY <1>9, TailFacts DEF ExecuteAssignment, RetractAssignment, EffectsUnchanged, planVars, TypeOK
  <2>2. ~Resting(n)
    BY <1>7, <2>1 DEF EffectsAreSound, QueuedFor, Running
  <2>3. PICK S \in SUBSET Node : /\ QueuesBecome(Notify(Notify(queues, S), {n}))
                                 /\ \A m \in S : ~Resting(m)
    BY <1>6, <1>8, <2>1 DEF SetVariable
  <2>4. LeavesAllAlone(Notify(queues, S))
    BY <1>2, <2>1, <2>3, NotifyLeavesAllAlone
  <2>5. LeavesAllAlone(Notify(Notify(queues, S), {n}))
    BY <2>2, <2>4, NotifyLeavesAllAlone
  <2> QED  BY <1>3, <2>1, <2>3, <2>5
<1>10. ASSUME NEW n \in Node, NEW h, SetCommandHandle(n, h), fault = "none", UNCHANGED <<plan, deleted>>
       PROVE  Goal
  <2>1. PICK S \in {{}, {n}} : QueuesBecome(Notify(queues, S)) /\ (S = {n} => state[n] \in Running)
    BY <1>10 DEF SetCommandHandle, Running
  <2>2. S \in SUBSET Node /\ \A m \in S : ~Resting(m)
    BY <1>7, <2>1
  <2> QED  BY <1>4, <1>10, <2>1, <2>2
<1>11. ASSUME NEW n \in Node, ExecuteCommand(n) \/ \E h \in Handle : CommandHandleReturn(n, h)
       PROVE  Goal
  <2>1. fault = "none" /\ UNCHANGED <<plan, deleted>>
    BY <1>11 DEF ExecuteCommand, CommandHandleReturn, EffectsUnchanged, planVars
  <2>2. UNCHANGED queueVars \/ \E h : SetCommandHandle(n, h)
    BY <1>11 DEF ExecuteCommand, CommandHandleReturn
  <2> QED  BY <1>5, <1>10, <2>1, <2>2
<1>12. ASSUME NEW n \in Node, InvokeAbort(n) \/ ExecuteUpdate(n) PROVE Goal
  BY <1>5, <1>12 DEF InvokeAbort, ExecuteUpdate, EffectsUnchanged, planVars
<1>13. ASSUME NEW n \in Node, AddPlan(n) PROVE Goal
  <2>1. Unloaded(n) /\ fault = "none" /\ QueuesBecome(Notify(queues, {n})) /\ plan' = plan \cup {n}
        /\ UNCHANGED deleted
    BY <1>13 DEF AddPlan, Unloaded
  <2>2. queueStatus[n] = "NONE"
    BY <2>1 DEF RestersAreSound
  <2>3. fault' = "none"
    BY <2>1, <2>2, StatusNow DEF QueuesBecome, Notify, queues
  <2>4. queueStatus'[n] = "CHECK" /\ \A m \in Node \ {n} : queueStatus'[m] = queueStatus[m]
    BY <2>1, <2>2, StatusNow DEF QueuesBecome, Notify, queues, Notified
  <2>5. ~Unloaded(n)' /\ \A m \in Node : (Dormant(m)' <=> Dormant(m)) /\ (Unloaded(m)' => Unloaded(m))
    BY <1>1, <2>1 DEF Unloaded, Dormant
  <2>6. RestersAreSound'
    BY <1>1, <2>4, <2>5 DEF RestersAreSound, PendingStatus
  <2> QED  BY <2>3, <2>6
<1>14. ASSUME NEW n \in Node, NEW v \in TruthValue, CommandReturn(n, v) PROVE Goal
  <2>1. fault = "none" /\ UNCHANGED <<plan, deleted>>
        /\ QueuesBecome(Notify(queues, Listening(VariableOf(Dest[n]))))
    BY <1>14 DEF CommandReturn, planVars
  <2> QED  BY <1>4, <1>6, <1>8, <2>1
<1>15. ASSUME NEW n \in Node,
              \/ \E b \in BOOLEAN : CommandAbortAcknowledge(n, b)
              \/ \E b \in BOOLEAN : UpdateAcknowledge(n, b)
       PROVE  Goal
  <2>1. fault = "none" /\ UNCHANGED <<plan, deleted>> /\ QueuesBecome(Notify(queues, {n}))
        /\ state[n] \in Running
    BY <1>15 DEF CommandAbortAcknowledge, UpdateAcknowledge, Answerable, planVars
  <2> QED  BY <1>4, <1>7, <2>1
<1>16. ASSUME NEW l \in Lookup, NEW v \in TruthValue, LookupReturn(l, v) PROVE Goal
  <2>1. fault = "none" /\ UNCHANGED <<plan, deleted>>
        /\ QueuesBecome(Notify(queues, Listening(LookupOf(l))))
    BY <1>16 DEF LookupReturn, planVars
  <2> QED  BY <1>4, <1>6, <1>8, <2>1
<1>17. ASSUME DeleteFinishedPlans PROVE Goal
  <2>1. fault = "none" /\ UNCHANGED queueVars /\ plan' = plan \ ToSet(finishedRootNodes)
        /\ deleted' = deleted \cup {n \in Node : n \in ToSet(finishedRootNodes)
                                                 \/ Ancestors[n] \cap ToSet(finishedRootNodes) # {}}
    BY <1>17 DEF DeleteFinishedPlans
  <2>2. plan \cup deleted \subseteq plan' \cup deleted'
    BY <2>1 DEF TypeOK
  <2> QED  BY <1>5, <2>1, <2>2
<1>18. ASSUME AllChecked \/ GroupDone \/ BatchDone \/ StepDone PROVE Goal
  BY <1>5, <1>18 DEF AllChecked, GroupDone, BatchDone, StepDone, planVars
<1>19. ASSUME StartStep PROVE Goal
  <2>1. fault = "none" /\ fault' \in {"none", "not queueable"} /\ UNCHANGED <<queueStatus, plan, deleted>>
    BY <1>19 DEF StartStep, planVars
  <2>2. fault' = "none"
    BY <2>1 DEF FinishedAreSound
  <2> QED  BY <1>5, <2>1, <2>2
<1>20. Goal
  <2> HIDE DEF Goal
  <2>1. CASE World
    BY <1>11, <1>13, <1>14, <1>15, <1>16, <1>17, <2>1 DEF World
  <2>2. CASE StartStep \/ Step
    BY <1>9, <1>11, <1>12, <1>18, <1>19, <2>2 DEF Step
  <2> QED  BY <2>1, <2>2 DEF Next
<1> QED  BY <1>20

LEMMA RestersStaySound ==
  TypeOK /\ QueuesAreSound /\ FinishedAreSound /\ FinishedAreSound' /\ EffectsAreSound
    /\ PendingAreReady /\ AllResetTogether /\ HoldersAreSound /\ RestersHear /\ RestersHear'
    /\ Calm /\ Calm' /\ NoFault /\ RestersAreSound /\ [Next]_vars
  => NoFault' /\ RestersAreSound'
<1> SUFFICES ASSUME TypeOK, QueuesAreSound, FinishedAreSound, FinishedAreSound', EffectsAreSound,
                    PendingAreReady, AllResetTogether, HoldersAreSound, RestersHear, RestersHear',
                    Calm, Calm', fault = "none", RestersAreSound, [Next]_vars
             PROVE  fault' = "none" /\ RestersAreSound'
  BY DEF NoFault
<1>1. CASE UNCHANGED vars
  <2>1. UNCHANGED <<state, queueStatus, pendingQueue, plan, deleted, fault>>
    BY <1>1 DEF vars, condVars, queueVars, planVars
  <2> QED  BY <2>1 DEF RestersAreSound, Dormant, Unloaded
<1>2. ASSUME NEW n \in Node,
             \/ CheckCandidate(n) \/ KeepPending(n) \/ DropPending(n)
             \/ AcquireResources(n) \/ FailToAcquire(n)
      PROVE  fault' = "none" /\ RestersAreSound'
  BY <1>2, QueueingFaultless, QueueingKeepsRest
<1>3. ASSUME NEW n \in Node, TransitionNode(n) PROVE fault' = "none" /\ RestersAreSound'
  <2>1. /\ n \in ToSet(stateChangeQueue) /\ state' = [state EXCEPT ![n] = next[n].state]
        /\ UNCHANGED <<pendingQueue, plan, deleted>>
    BY <1>3, TailFacts DEF TransitionNode, TypeOK
  <2>2. ~Resting(n) /\ \A m \in Node \ {n} : (Dormant(m)' <=> Dormant(m))
    BY <2>1, RestersWait DEF TypeOK, Dormant
  <2>3. \A m \in Node : (Unloaded(m)' <=> Unloaded(m)) /\ (Unloaded(m) => Resting(m))
    BY <2>1 DEF Unloaded, Resting
  <2>4. ASSUME NEW m \in Node \ {n}
        PROVE  /\ queueStatus'[m] \in PendingStatus =>
                    m \in ToSet(pendingQueue') /\ queueStatus'[m] \notin CheckStatus
               /\ queueStatus'[m] = "DELETE" => Dormant(m)'
               /\ Unloaded(m)' => queueStatus'[m] = "NONE" /\ Dormant(m)'
    <3>1. queueStatus'[m] \in RestStatus \/ Unloaded(m) =>
            Resting(m) /\ queueStatus'[m] \in {queueStatus[m], Available(queueStatus[m])}
      BY <1>3, <2>3, MovingLeavesAlone
    <3> QED  BY <2>1, <2>2, <2>3, <3>1, StatusesAtRest DEF RestersAreSound, RestStatus
  <2>5. /\ ~Unloaded(n)' /\ queueStatus'[n] \notin PendingStatus
        /\ queueStatus'[n] = "DELETE" => Dormant(n)'
    <3>1. queueStatus'[n] \in {"NONE", "CHECK"} \/ (IsFinish(n) /\ queueStatus'[n] = "DELETE")
      BY <1>3, MovingLeavesAlone
    <3>2. IsFinish(n) => Dormant(n)'
      BY <2>1 DEF IsFinish, Dormant, TypeOK
    <3> QED  BY <2>2, <2>3, <3>1, <3>2 DEF PendingStatus
  <2>6. RestersAreSound'
    BY <2>4, <2>5 DEF RestersAreSound
  <2> QED  BY <1>3, <2>6, MovingLeavesAlone
<1>4. CASE Next /\ ~\E n \in Node :
             \/ CheckCandidate(n) \/ KeepPending(n) \/ DropPending(n)
             \/ AcquireResources(n) \/ FailToAcquire(n) \/ TransitionNode(n)
  BY <1>4, OtherStepsFaultless
<1> QED  BY <1>1, <1>2, <1>3, <1>4

LEMMA CalmForEver == ConditionsStay /\ [Next]_vars => (Calm' <=> Calm)
<1> SUFFICES ASSUME ConditionsStay, [Next]_vars PROVE Calm' <=> Calm
  OBVIOUS
<1>1. UNCHANGED condition
  BY ConditionsUnchanged
<1>2. Patient' <=> Patient
  BY PatientForEver
<1> QED  BY <1>1, <1>2 DEF Calm

LEMMA CalmOrNot == Spec => []Calm \/ []~Calm
<1>1. ConditionsStay /\ [Next]_vars => (Calm' <=> Calm)
  BY CalmForEver
<1> QED  BY <1>1, ConditionsAlways, PTL DEF Spec

\* In a calm plan no assertion of NodeImpl.cc and PlexilExec.cc fails: no node is told of a
\* change when notify() has no case for its queue status, none is refused by a queue, every
\* ancestor condition that getDestState() reads is active, and no node asks for a mutex that a
\* list above it holds.
THEOREM CalmHasNoFault == Spec => [](Calm => NoFault)
<1>1. Init /\ Calm => NoFault /\ RestersAreSound
  <2> SUFFICES ASSUME Init PROVE NoFault /\ RestersAreSound
    OBVIOUS
  <2>1. /\ fault = "none" /\ queueStatus = [n \in Node |-> "NONE"]
        /\ state = [n \in Node |-> "INACTIVE"]
    BY DEF Init
  <2> QED  BY <2>1 DEF NoFault, RestersAreSound, PendingStatus, Dormant, Unloaded
<1>2. Init => LeaksAreCommands
  BY DEF Init, LeaksAreCommands
<1>3. LeaksAreCommands /\ [Next]_vars => LeaksAreCommands'
  BY LeaksStayCommands
<1>4. Calm => Steady
  BY DEF Calm, Patient
<1>5. TypeOK /\ LeaksAreCommands /\ Calm => RestersHear
  BY CalmRest
<1> QED
  BY <1>1, <1>2, <1>3, <1>4, <1>5, RestersStaySound, CalmOrNot, TypeCorrect, SoundQueuesAlways,
     FinishedAlways, EffectsAlways, ReadyAlways, ResetTogetherAlways, SteadyKeepsNone,
     HoldersAlways, PTL DEF Spec
=============================================================================
