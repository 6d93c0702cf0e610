------------------------------ MODULE PlexilExec ------------------------------
(***************************************************************************)
(* The executive of PLEXIL: PlexilExec::step() and the node operations it  *)
(* calls.  A step drains the candidate queue, evaluating the conditions of *)
(* each node; lets the nodes on the pending queue try for their mutexes    *)
(* and variables, by priority; moves every node on the state change queue  *)
(* to its next state, which makes new candidates; and repeats until it is  *)
(* quiescent or has assignments or commands to send.                       *)
(*                                                                         *)
(* The executive runs on one thread and an action here is one iteration    *)
(* of one of its loops.  Between steps the application delivers what the   *)
(* interfaces have queued: lookup values, command handles and results,     *)
(* acknowledgements, new plans.  An assertion of the code that fails ends  *)
(* the process: fault names it, and nothing happens after.                 *)
(***************************************************************************)
EXTENDS NodeConditions, SequencesExt

VARIABLES
  outcome,              \* NodeImpl::m_outcome
  next,                 \* m_nextState, m_nextOutcome, m_nextFailureType
  queueStatus,          \* m_queueStatus
  candidateQueue, pendingQueue, stateChangeQueue, finishedRootNodes,
  holder,               \* Reservable::m_holder
  waiters,              \* Reservable::m_waiters; every waiter is told of a release
  saved,                \* the value of each variable to restore on retraction
  assignmentsToExecute, assignmentsToRetract,
  commandsToExecute, commandsToAbort, updatesToExecute,
  plan,                 \* the root nodes of the plans loaded
  deleted,              \* the nodes of finished plans, after their deletion
  phase,                \* where PlexilExec::step() is
  cursor,               \* resolveResourceConflicts: temp, then priorityHead
  priorityNodes,        \* the nodes of one priority that may try for their resources
  requests,             \* commands and updates the interfaces have been given
  aborts,               \* commands the interfaces have been told to abort
  fault

queueVars    == <<queueStatus, candidateQueue, fault>>
resourceVars == <<holder, waiters>>
effectVars   == <<assignmentsToExecute, assignmentsToRetract, commandsToExecute,
                  commandsToAbort, updatesToExecute>>
nodeVars     == <<outcome, next, saved>>
planVars     == <<plan, deleted, finishedRootNodes>>
resolveVars  == <<cursor, priorityNodes>>
worldVars    == <<requests, aborts>>

vars == <<condVars, queueVars, resourceVars, effectVars, nodeVars, planVars,
          resolveVars, worldVars, pendingQueue, stateChangeQueue, phase>>

QueueStatus == {"NONE", "CHECK", "PENDING_TRY", "PENDING_TRY_CHECK", "PENDING",
                "PENDING_CHECK", "TRANSITION", "TRANSITION_CHECK", "DELETE"}

PendingStatus == {"PENDING_TRY", "PENDING_TRY_CHECK", "PENDING", "PENDING_CHECK"}

Phase == {"idle", "check", "gather", "acquire", "transition", "effects"}

Fault == {"none", "notify", "ancestor inactive", "not queueable", "recursive mutex"}

-----------------------------------------------------------------------------
(* Notifications.  The queue status of the nodes, the candidate queue and  *)
(* the fault change together, and several times in one action: q holds the *)
(* three of them.                                                          *)

queues == [status |-> queueStatus, candidates |-> candidateQueue, fault |-> fault]

QueuesBecome(q) == /\ queueStatus' = q.status
                   /\ candidateQueue' = q.candidates
                   /\ fault' = q.fault

Notified(s) == CASE s = "NONE"        -> "CHECK"
                 [] s = "PENDING"     -> "PENDING_CHECK"
                 [] s = "PENDING_TRY" -> "PENDING_TRY_CHECK"
                 [] s = "TRANSITION"  -> "TRANSITION_CHECK"
                 [] OTHER             -> s

\* Slips: a node that is a candidate already is queued again, or one that is about
\* to change its state.
NotifyAgain(q, S) ==
  [status     |-> [n \in Node |-> IF n \in S THEN Notified(q.status[n]) ELSE q.status[n]],
   candidates |-> q.candidates \o InOrder[{n \in S : q.status[n] \in {"NONE", "CHECK"}}],
   fault      |-> q.fault]

NotifyAtOnce(q, S) ==
  [status     |-> [n \in Node |-> IF n \in S THEN Notified(q.status[n]) ELSE q.status[n]],
   candidates |-> q.candidates \o InOrder[{n \in S : q.status[n] \in {"NONE", "TRANSITION"}}],
   fault      |-> q.fault]

\* NodeImpl::notify() on each node of S.  The switch has no case for
\* QUEUE_PENDING_TRY_CHECK, and refuses a node awaiting deletion.
Notify(q, S) ==
  [status     |-> [n \in Node |-> IF n \in S THEN Notified(q.status[n]) ELSE q.status[n]],
   candidates |-> q.candidates \o InOrder[{n \in S : q.status[n] = "NONE"}],
   fault      |-> IF \E n \in S : q.status[n] \in {"PENDING_TRY_CHECK", "DELETE"}
                  THEN "notify" ELSE q.fault]

WithStatus(q, n, s) == [q EXCEPT !.status[n] = s]

\* An assertion fails: errorMsg, checkError or assert.
WithFault(q, f) == [status |-> q.status, candidates |-> q.candidates, fault |-> f]

\* Reservable::release() of the resources R by n, their holder: every node on
\* their waiting lists that is on the pending queue will try again.
AvailableChecked(s) == IF s = "PENDING_CHECK" THEN "PENDING_TRY_CHECK" ELSE s  \* slip

Available(s) == CASE s = "PENDING"       -> "PENDING_TRY"
                  [] s = "PENDING_CHECK" -> "PENDING_TRY_CHECK"
                  [] OTHER               -> s

NotifyAvailable(q, R) ==
  [q EXCEPT !.status =
     [n \in Node |-> IF \E r \in R : n \in waiters[r] THEN Available(q.status[n])
                     ELSE q.status[n]]]

Listening(source) == Listeners(source) \ deleted

-----------------------------------------------------------------------------
(* Evaluating a node's conditions *)

\* getDestState() leaves the outcome and failure type of an earlier evaluation
\* in place unless it sets them.
Evaluated(n) ==
  LET d == DestState(Type[n], state[n], ValuesOf(n))
  IN  [state   |-> d.state,
       outcome |-> IF d.outcome = "NO_OUTCOME" THEN next[n].outcome ELSE d.outcome,
       failure |-> IF d.failure = "NO_FAILURE" THEN next[n].failure ELSE d.failure]

\* The checkError calls of getDestState: n's ancestor conditions must be active.
Checked(q, n) == IF AncestorsInactive(n) THEN WithFault(q, "ancestor inactive") ELSE q

ResourceCheckRequired(n) == next'[n].state = "EXECUTING" /\ Resources(n) # {}

\* addStateChangeNode: any status but QUEUE_NONE is an internal error.
StateChangeStatus(q, n) ==
  IF q.status[n] = "NONE" THEN WithStatus(q, n, "TRANSITION")
  ELSE WithFault(q, "not queueable")

PlacesAtEnd(queue, n) == {Len(queue) + 1}  \* slip: in order of arrival

\* PriorityQueue::insert(): in sorted order, after all entries less than or equal.
Places(queue, n) ==
  {i \in 1..Len(queue) + 1 :
     /\ \A j \in 1..i - 1 : Priority[queue[j]] <= Priority[n]
     /\ i <= Len(queue) => Priority[queue[i]] > Priority[n]}

\* Nothing happens after an assertion has failed.
At(p) == phase = p /\ fault = "none"

AfterCheck(pending, changing) ==
  IF pending # <<>> THEN "gather" ELSE IF changing # <<>> THEN "transition" ELSE "effects"

\* step() with the queues as they are; the time of the step is left out.
StartStep ==
  /\ At("idle")
  /\ phase' = "check"
  /\ IF stateChangeQueue = <<>> THEN UNCHANGED fault ELSE fault' = "not queueable"
  /\ UNCHANGED <<condVars, queueStatus, candidateQueue, resourceVars, effectVars, nodeVars,
                 planVars, resolveVars, worldVars, pendingQueue, stateChangeQueue>>

\* One iteration of the loop over the candidate queue: n is taken off it and
\* stays where it is, goes to the state change queue, or to the pending queue.
CheckCandidate(n) ==
  /\ At("check")
  /\ candidateQueue # <<>>
  /\ n = Head(candidateQueue)
  /\ next' = [next EXCEPT ![n] = Evaluated(n)]
  /\ LET q == Checked([queues EXCEPT !.status[n] = "NONE", !.candidates = Tail(@)], n)
     IN  \/ /\ next'[n].state = "NO_STATE"
            /\ QueuesBecome(q)
            /\ UNCHANGED <<pendingQueue, stateChangeQueue>>
         \/ /\ next'[n].state # "NO_STATE"
            /\ ~ResourceCheckRequired(n)
            /\ QueuesBecome(StateChangeStatus(q, n))
            /\ stateChangeQueue' = Append(stateChangeQueue, n)
            /\ UNCHANGED pendingQueue
         \/ /\ ResourceCheckRequired(n)
            /\ QueuesBecome(WithStatus(q, n, "PENDING_TRY"))
            /\ \E i \in Places(pendingQueue, n) : pendingQueue' = InsertAt(pendingQueue, i, n)
            /\ UNCHANGED stateChangeQueue
  /\ UNCHANGED <<condVars, resourceVars, effectVars, outcome, saved, planVars, resolveVars,
                 worldVars, phase>>

AllChecked ==
  /\ At("check")
  /\ candidateQueue = <<>>
  /\ phase' = AfterCheck(pendingQueue, stateChangeQueue)
  /\ cursor' = IF pendingQueue # <<>> THEN Head(pendingQueue) ELSE None
  /\ UNCHANGED <<condVars, queueVars, resourceVars, effectVars, nodeVars, planVars,
                 priorityNodes, worldVars, pendingQueue, stateChangeQueue>>

-----------------------------------------------------------------------------
(* resolveResourceConflicts() *)

\* A queue without n, which is on it.
Without(queue, n) == RemoveAt(queue, CHOOSE i \in DOMAIN queue : queue[i] = n)

\* temp = temp->next(): the walk goes on while the priority is the same.
Advance(temp) ==
  /\ cursor' = temp
  /\ phase' = IF temp # None /\ Priority[temp] = Priority[cursor] THEN "gather" ELSE "acquire"

NextInQueue(i) == IF i < Len(pendingQueue) THEN pendingQueue[i + 1] ELSE None

\* resourceCheckEligible() of a node that stays on the pending queue.
KeepPending(n) ==
  /\ At("gather")
  /\ n = cursor
  /\ IF queueStatus[n] \in {"PENDING_CHECK", "PENDING_TRY_CHECK"}
     THEN /\ next' = [next EXCEPT ![n] = Evaluated(n)]
          /\ next'[n].state = "EXECUTING"
          /\ fault' = Checked(queues, n).fault
     ELSE UNCHANGED <<next, fault>>
  /\ IF queueStatus[n] \in {"PENDING_TRY", "PENDING_TRY_CHECK"}
     THEN /\ priorityNodes' = Append(priorityNodes, n)
          /\ UNCHANGED queueStatus
     ELSE /\ queueStatus' = [queueStatus EXCEPT ![n] = "PENDING"]
          /\ UNCHANGED priorityNodes
  /\ \E i \in DOMAIN pendingQueue : pendingQueue[i] = n /\ Advance(NextInQueue(i))
  /\ UNCHANGED <<condVars, candidateQueue, resourceVars, effectVars, outcome, saved, planVars,
                 worldVars, pendingQueue, stateChangeQueue>>

\* resourceCheckEligible() of a node that will not execute after all.  It leaves
\* the queue, which clears its next pointer, and goes to the state change queue
\* if it has somewhere else to go; the walk sees no next node and stops here.
\* QUEUE_PENDING_CHECK then falls through to setQueueStatus(QUEUE_PENDING).
DropPending(n) ==
  /\ At("gather")
  /\ n = cursor
  /\ queueStatus[n] \in {"PENDING_CHECK", "PENDING_TRY_CHECK"}
  /\ next' = [next EXCEPT ![n] = Evaluated(n)]
  /\ next'[n].state # "EXECUTING"
  /\ pendingQueue' = Without(pendingQueue, n)
  /\ waiters' = [r \in Resource |-> waiters[r] \ (IF r \in Resources(n) THEN {n} ELSE {})]
  /\ LET q == WithStatus(Checked(queues, n), n, "NONE")
         moved == IF next'[n].state = "NO_STATE" THEN q ELSE StateChangeStatus(q, n)
     IN  QueuesBecome(IF queueStatus[n] = "PENDING_CHECK" THEN WithStatus(moved, n, "PENDING")
                      ELSE moved)
  /\ stateChangeQueue' = IF next'[n].state = "NO_STATE" THEN stateChangeQueue
                         ELSE Append(stateChangeQueue, n)
  /\ Advance(None)
  /\ UNCHANGED <<condVars, holder, effectVars, outcome, saved, planVars, priorityNodes,
                 worldVars>>

\* The resources n needs, in the order tryResourceAcquisition() asks for them.
Wanted(n) == Using[n] \o (IF Type[n] = "Assignment" THEN <<Dest[n]>> ELSE <<>>)

TakenAll(n) == Mutexes(n)  \* slip: it releases mutexes it did not get

\* Those it gets before the first that has a holder, and that first one.
Taken(n) == {Wanted(n)[j] : j \in {k \in DOMAIN Wanted(n) :
                                   \A i \in 1..k : holder[Wanted(n)[i]] = None}}

FirstBusy(n) == {Wanted(n)[j] : j \in {k \in DOMAIN Wanted(n) :
                                       /\ holder[Wanted(n)[k]] # None
                                       /\ \A i \in 1..k - 1 : holder[Wanted(n)[i]] = None}}

\* tryResourceAcquisition() succeeds: the node holds all it needs and will execute.
AcquireResources(n) ==
  /\ At("acquire")
  /\ priorityNodes # <<>>
  /\ n = Head(priorityNodes)
  /\ priorityNodes' = Tail(priorityNodes)
  /\ \A r \in Resources(n) : holder[r] = None
  /\ holder' = [r \in Resource |-> IF r \in Resources(n) THEN n ELSE holder[r]]
  /\ waiters' = [r \in Resource |-> waiters[r] \ (IF r \in Resources(n) THEN {n} ELSE {})]
  /\ pendingQueue' = Without(pendingQueue, n)
  /\ stateChangeQueue' = Append(stateChangeQueue, n)
  /\ QueuesBecome(StateChangeStatus(WithStatus(queues, n, "NONE"), n))
  /\ UNCHANGED <<condVars, effectVars, nodeVars, planVars, cursor, worldVars, phase>>

\* It fails: the mutexes it got are released again, which tells their waiters,
\* and it waits for all of them.  A mutex it holds from before is released too.
FailToAcquire(n) ==
  /\ At("acquire")
  /\ priorityNodes # <<>>
  /\ n = Head(priorityNodes)
  /\ priorityNodes' = Tail(priorityNodes)
  /\ \E r \in Resources(n) : holder[r] # None
  /\ LET released == Taken(n) \cup {m \in Mutexes(n) : holder[m] = n}
         q == WithStatus(NotifyAvailable(queues, released), n, "PENDING")
     IN  /\ holder' = [r \in Resource |-> IF r \in released THEN None ELSE holder[r]]
         /\ QueuesBecome(IF \E m \in FirstBusy(n) \cap Mutex : holder[m] \in Ancestors[n]
                         THEN WithFault(q, "recursive mutex") ELSE q)
  /\ waiters' = [r \in Resource |-> waiters[r] \cup (IF r \in Resources(n) THEN {n} ELSE {})]
  /\ UNCHANGED <<condVars, effectVars, nodeVars, planVars, cursor, worldVars, pendingQueue,
                 stateChangeQueue, phase>>

GroupDone ==
  /\ At("acquire")
  /\ priorityNodes = <<>>
  /\ phase' = IF cursor # None THEN "gather"
              ELSE IF stateChangeQueue # <<>> THEN "transition" ELSE "effects"
  /\ UNCHANGED <<condVars, queueVars, resourceVars, effectVars, nodeVars, planVars,
                 resolveVars, worldVars, pendingQueue, stateChangeQueue>>

-----------------------------------------------------------------------------
(* NodeImpl::transition() *)

\* Slips: only a node that is finished releases its mutexes, or one that succeeded.
ReleasedLate(n)      == IF next[n].state = "FINISHED" THEN Mutexes(n) ELSE {}
ReleasedOnSuccess(n) == IF next[n].outcome = "SUCCESS" THEN Mutexes(n) ELSE {}

\* transitionToIterationEnded() and transitionToFinished(), with the wrappers of
\* AssignmentNode that release its variable.
Released(n) ==
  CASE next[n].state = "ITERATION_ENDED" /\ state[n] # "WAITING" -> Resources(n)
    [] next[n].state = "FINISHED" /\ state[n] = "WAITING"        -> Mutexes(n)
    [] next[n].state = "FINISHED" /\ state[n] = "FAILING"        -> Resources(n) \cap Variable
    [] OTHER                                                     -> {}

ReleasedByAny(n) == Released(n)  \* slip: whoever holds them

ReleasedByHolder(n) == {r \in Released(n) : holder[r] = n}

ResetWhenFinished(n) == state[n] = "FINISHED"  \* slip

\* reset() when the node will run again.
Reset(n) == \/ state[n] = "ITERATION_ENDED" /\ next[n].state = "WAITING"
            \/ state[n] = "FINISHED"

\* Variables whose activation count leaves zero when n starts to execute.
Activated(n) == {v \in Variable : ~VariableActive(v) /\ (Owner[v] = n \/ Dest[n] = v)}

\* Those a known initial value is published to, before the state of n has changed.
Initialized(n) ==
  UNION {Listening(VariableOf(v)) :
           v \in {w \in Activated(n) : next[n].state = "EXECUTING" /\ Initial[w] # "U"}}

\* Slip: children are told of a list that waits only.
ToldWhenWaiting(n) ==
  {m \in Children(n) : next[n].state = "WAITING" /\ state[m] = "FINISHED"}

\* ListNode::setState(): the children that may react to the new state.
ToldChildren(n) ==
  LET s == next[n].state
  IN  {m \in Children(n) : \/ s = "WAITING" /\ state[m] = "FINISHED"
                           \/ s \in {"EXECUTING", "FINISHED"} /\ state[m] = "INACTIVE"}

FinishByState(q, n) == WithStatus(q, n, "FINISHED")  \* slip: the state for the status

\* addFinishedRootNode()
Finish(q, n) ==
  CASE q.status[n] = "CHECK" ->
         [status |-> [q.status EXCEPT ![n] = "DELETE"], fault |-> q.fault,
          candidates |-> Without(q.candidates, n)]
    [] q.status[n] = "NONE"  -> WithStatus(q, n, "DELETE")
    [] OTHER                 -> WithFault(q, "not queueable")

IsFinish(n) == IsRoot(n) /\ next[n].state = "FINISHED"

\* The queues after n leaves the state change queue and changes its state, up to
\* the notification of the listeners to its state.
Moved(n) ==
  LET popped == WithStatus(queues, n, "NONE")
      rechecked == IF queueStatus[n] = "TRANSITION_CHECK" THEN Notify(popped, {n}) ELSE popped
      freed == NotifyAvailable(rechecked, ReleasedByHolder(n))
      ready == Notify(freed, Initialized(n))
      told == IF IsFinish(n) THEN Finish(ready, n) ELSE Notify(ready, {n})
  IN  IF Type[n] = "List" THEN Notify(told, ToldChildren(n)) ELSE told

Enqueue(queue, n, type, s) ==
  IF Type[n] = type /\ next[n].state = s THEN Append(queue, n) ELSE queue

\* The early return for a next state equal to the current one never happens: see
\* ChangesAreLegal.
TransitionNode(n) ==
  /\ At("transition")
  /\ stateChangeQueue # <<>>
  /\ n = Head(stateChangeQueue)
  /\ next[n].state \notin {state[n], "NO_STATE"}
  /\ stateChangeQueue' = Tail(stateChangeQueue)
  /\ state' = [state EXCEPT ![n] = next[n].state]
  /\ outcome' = [outcome EXCEPT ![n] =
       IF next[n].outcome # "NO_OUTCOME" THEN next[n].outcome
       ELSE IF Reset(n) THEN "NO_OUTCOME" ELSE @]
  /\ failure' = [failure EXCEPT ![n] =
       IF next[n].outcome # "NO_OUTCOME" /\ next[n].failure # "NO_FAILURE" THEN next[n].failure
       ELSE IF Reset(n) THEN "NO_FAILURE" ELSE @]
  /\ next' = [next EXCEPT ![n] = NoTransition]
  /\ holder' = [r \in Resource |-> IF r \in ReleasedByHolder(n) THEN None ELSE holder[r]]
  /\ finishedRootNodes' =
       IF IsFinish(n) THEN Append(finishedRootNodes, n) ELSE finishedRootNodes
  /\ IF next[n].state = "EXECUTING"
     THEN /\ value' = [v \in Variable |-> IF v \in Activated(n) THEN Initial[v] ELSE value[v]]
          /\ saved' = IF Type[n] = "Assignment"
                      THEN [saved EXCEPT ![Dest[n]] = value'[Dest[n]]] ELSE saved
          /\ handle' = [handle EXCEPT ![n] = "NO_COMMAND_HANDLE"]
          /\ ack' = [ack EXCEPT ![n] = FALSE]
          /\ exitLeaked' = IF Type[n] = "Command" THEN exitLeaked \cup {n} ELSE exitLeaked
     ELSE UNCHANGED <<value, saved, handle, ack, exitLeaked>>
  /\ abortComplete' = [abortComplete EXCEPT ![n] =
       @ /\ <<Type[n], next[n].state>> \notin
              {<<"Command", "EXECUTING">>, <<"Assignment", "FAILING">>}]
  /\ assignmentsToExecute' = Enqueue(assignmentsToExecute, n, "Assignment", "EXECUTING")
  /\ assignmentsToRetract' = Enqueue(assignmentsToRetract, n, "Assignment", "FAILING")
  /\ commandsToExecute' = Enqueue(commandsToExecute, n, "Command", "EXECUTING")
  /\ commandsToAbort' = Enqueue(commandsToAbort, n, "Command", "FAILING")
  /\ updatesToExecute' = Enqueue(updatesToExecute, n, "Update", "EXECUTING")
  /\ UNCHANGED <<condition, lookup, waiters, plan, deleted, resolveVars, worldVars,
                 pendingQueue, phase>>
  /\ \E told \in {Listening(StateOf(n))'} :
       QueuesBecome(Notify(Moved(n), told))

Assigned == assignmentsToExecute = <<>> /\ assignmentsToRetract = <<>>

NothingQueued == Assigned /\ commandsToExecute = <<>> /\ commandsToAbort = <<>>

\* The quiescence loop goes on only if the batch left no assignment or command.
BatchDone ==
  /\ At("transition")
  /\ stateChangeQueue = <<>>
  /\ phase' = IF NothingQueued /\ candidateQueue # <<>> THEN "check" ELSE "effects"
  /\ UNCHANGED <<condVars, queueVars, resourceVars, effectVars, nodeVars, planVars,
                 resolveVars, worldVars, pendingQueue, stateChangeQueue>>

-----------------------------------------------------------------------------
(* performAssignments() and executeOutboundQueue() *)

EffectsUnchanged ==
  UNCHANGED <<condition, state, failure, lookup, exitLeaked, resourceVars, outcome, next,
              planVars, resolveVars, pendingQueue, stateChangeQueue, phase>>

\* Slip: only the node itself is told.
SetVariableQuietly(n, v) ==
  value' = [value EXCEPT ![Dest[n]] = v] /\ QueuesBecome(Notify(queues, {n}))

\* setValue() and restoreSavedValue() publish a change of the variable; the ack
\* or abort-complete of the assignment then tells the node itself.
SetVariable(n, v) ==
  LET variable == Dest[n]
      told == IF value[variable] = v THEN {} ELSE Listening(VariableOf(variable))
  IN  /\ value' = [value EXCEPT ![variable] = v]
      /\ QueuesBecome(Notify(Notify(queues, told), {n}))

ExecuteAssignment(n) ==
  /\ At("effects")
  /\ assignmentsToExecute # <<>>
  /\ n = Head(assignmentsToExecute)
  /\ assignmentsToExecute' = Tail(assignmentsToExecute)
  /\ SetVariable(n, Rhs[n])
  /\ ack' = [ack EXCEPT ![n] = TRUE]
  /\ EffectsUnchanged
  /\ UNCHANGED <<handle, abortComplete, saved, assignmentsToRetract, commandsToExecute,
                 commandsToAbort, updatesToExecute, worldVars>>

RetractAssignment(n) ==
  /\ At("effects")
  /\ assignmentsToExecute = <<>>
  /\ assignmentsToRetract # <<>>
  /\ n = Head(assignmentsToRetract)
  /\ assignmentsToRetract' = Tail(assignmentsToRetract)
  /\ SetVariable(n, saved[Dest[n]])
  /\ abortComplete' = [abortComplete EXCEPT ![n] = TRUE]
  /\ EffectsUnchanged
  /\ UNCHANGED <<handle, ack, saved, assignmentsToExecute, commandsToExecute, commandsToAbort,
                 updatesToExecute, worldVars>>

\* The command handle and what listens to it: CommandHandleKnown in FINISHING, and
\* in EXECUTING the wrapper of an end condition that is not simply true.
SetCommandHandle(n, h) ==
  /\ handle' = [handle EXCEPT ![n] = h]
  /\ QueuesBecome(Notify(queues,
       IF \/ state[n] = "FINISHING"
          \/ state[n] = "EXECUTING" /\ condition[n]["end"] # [kind |-> "constant", of |-> "T"]
       THEN {n} ELSE {}))

\* The arbiter accepts a command and it goes to its interface, or the command is
\* denied, or the interface refuses it: its handle then says so at once.
ExecuteCommand(n) ==
  /\ At("effects")
  /\ Assigned
  /\ commandsToExecute # <<>>
  /\ n = Head(commandsToExecute)
  /\ commandsToExecute' = Tail(commandsToExecute)
  /\ \/ requests' = requests \cup {n} /\ UNCHANGED <<handle, queueVars>>
     \/ SetCommandHandle(n, "COMMAND_FAILED") /\ UNCHANGED requests
  /\ EffectsUnchanged
  /\ UNCHANGED <<value, ack, abortComplete, saved, assignmentsToExecute, assignmentsToRetract,
                 commandsToAbort, updatesToExecute, aborts>>

InvokeAbort(n) ==
  /\ At("effects")
  /\ Assigned /\ commandsToExecute = <<>>
  /\ commandsToAbort # <<>>
  /\ n = Head(commandsToAbort)
  /\ commandsToAbort' = Tail(commandsToAbort)
  /\ aborts' = aborts \cup {n}
  /\ EffectsUnchanged
  /\ UNCHANGED <<value, handle, ack, abortComplete, queueVars, saved, assignmentsToExecute,
                 assignmentsToRetract, commandsToExecute, updatesToExecute, requests>>

ExecuteUpdate(n) ==
  /\ At("effects")
  /\ Assigned /\ commandsToExecute = <<>> /\ commandsToAbort = <<>>
  /\ updatesToExecute # <<>>
  /\ n = Head(updatesToExecute)
  /\ updatesToExecute' = Tail(updatesToExecute)
  /\ requests' = requests \cup {n}
  /\ EffectsUnchanged
  /\ UNCHANGED <<value, handle, ack, abortComplete, queueVars, saved, assignmentsToExecute,
                 assignmentsToRetract, commandsToExecute, commandsToAbort, aborts>>

Performed == /\ phase = "effects" /\ Assigned
             /\ commandsToExecute = <<>> /\ commandsToAbort = <<>> /\ updatesToExecute = <<>>

\* The end of step().  runExec() steps again while there are candidates.
StepDone ==
  /\ At("effects")
  /\ Performed
  /\ phase' = IF candidateQueue # <<>> THEN "check" ELSE "idle"
  /\ UNCHANGED <<condVars, queueVars, resourceVars, effectVars, nodeVars, planVars,
                 resolveVars, worldVars, pendingQueue, stateChangeQueue>>

-----------------------------------------------------------------------------
(* Between steps: InterfaceManager::processQueue() and deleteFinishedPlans() *)

WorldUnchanged ==
  UNCHANGED <<condition, state, failure, exitLeaked, resourceVars, effectVars, nodeVars,
              resolveVars, worldVars, pendingQueue, stateChangeQueue, phase>>

\* addPlan(): the root is told first.
AddPlan(r) ==
  /\ At("idle")
  /\ IsRoot(r) /\ r \notin plan \cup deleted
  /\ plan' = plan \cup {r}
  /\ QueuesBecome(Notify(queues, {r}))
  /\ WorldUnchanged
  /\ UNCHANGED <<lookup, value, handle, ack, abortComplete, deleted, finishedRootNodes>>

\* Once the input queue is empty and no node is a candidate.
DeleteFinishedPlans ==
  /\ At("idle")
  /\ candidateQueue = <<>>
  /\ finishedRootNodes # <<>>
  /\ LET roots == ToSet(finishedRootNodes)
     IN  /\ plan' = plan \ roots
         /\ deleted' = deleted \cup {n \in Node : n \in roots \/ Ancestors[n] \cap roots # {}}
  /\ finishedRootNodes' = <<>>
  /\ WorldUnchanged
  /\ UNCHANGED <<lookup, value, handle, ack, abortComplete, queueVars>>

LookupReturn(l, v) ==
  /\ At("idle")
  /\ lookup[l] # v
  /\ lookup' = [lookup EXCEPT ![l] = v]
  /\ QueuesBecome(Notify(queues, Listening(LookupOf(l))))
  /\ WorldUnchanged
  /\ UNCHANGED <<value, handle, ack, abortComplete, planVars>>

AnswerableLate(n) == n \in requests /\ n \notin deleted  \* slip: also when it has ended

\* What an interface answers to a command or an update it was given, now or in
\* an earlier execution of the node, is ignored unless the node is running.
Answerable(n) == n \in requests /\ n \notin deleted /\ state[n] \in Running

CommandHandleReturn(n, h) ==
  /\ At("idle")
  /\ Type[n] = "Command" /\ Answerable(n)
  /\ SetCommandHandle(n, h)
  /\ WorldUnchanged
  /\ UNCHANGED <<lookup, value, ack, abortComplete, planVars>>

CommandReturn(n, v) ==
  /\ At("idle")
  /\ Type[n] = "Command" /\ Answerable(n) /\ Dest[n] # None
  /\ value[Dest[n]] # v
  /\ value' = [value EXCEPT ![Dest[n]] = v]
  /\ QueuesBecome(Notify(queues, Listening(VariableOf(Dest[n]))))
  /\ WorldUnchanged
  /\ UNCHANGED <<lookup, handle, ack, abortComplete, planVars>>

CommandAbortAcknowledge(n, b) ==
  /\ At("idle")
  /\ n \in aborts \ deleted /\ state[n] \in Running
  /\ abortComplete[n] # b
  /\ abortComplete' = [abortComplete EXCEPT ![n] = b]
  /\ QueuesBecome(Notify(queues, {n}))
  /\ WorldUnchanged
  /\ UNCHANGED <<lookup, value, handle, ack, planVars>>

UpdateAcknowledge(n, b) ==
  /\ At("idle")
  /\ Type[n] = "Update" /\ Answerable(n)
  /\ ack[n] # b
  /\ ack' = [ack EXCEPT ![n] = b]
  /\ QueuesBecome(Notify(queues, {n}))
  /\ WorldUnchanged
  /\ UNCHANGED <<lookup, value, handle, abortComplete, planVars>>

-----------------------------------------------------------------------------
Init ==
  /\ condition \in Conditions
  /\ state = [n \in Node |-> "INACTIVE"]
  /\ outcome = [n \in Node |-> "NO_OUTCOME"]
  /\ failure = [n \in Node |-> "NO_FAILURE"]
  /\ next = [n \in Node |-> NoTransition]
  /\ lookup = [l \in Lookup |-> "U"]
  /\ value = [v \in Variable |-> Initial[v]]
  /\ saved = [v \in Variable |-> "U"]
  /\ handle = [n \in Node |-> "NO_COMMAND_HANDLE"]
  /\ ack = [n \in Node |-> FALSE]
  /\ abortComplete = [n \in Node |-> FALSE]
  /\ exitLeaked = {}
  /\ queueStatus = [n \in Node |-> "NONE"]
  /\ candidateQueue = <<>> /\ pendingQueue = <<>> /\ stateChangeQueue = <<>>
  /\ finishedRootNodes = <<>>
  /\ holder = [r \in Resource |-> None]
  /\ waiters = [r \in Resource |-> {}]
  /\ assignmentsToExecute = <<>> /\ assignmentsToRetract = <<>>
  /\ commandsToExecute = <<>> /\ commandsToAbort = <<>> /\ updatesToExecute = <<>>
  /\ plan = {} /\ deleted = {}
  /\ phase = "idle"
  /\ cursor = None /\ priorityNodes = <<>>
  /\ requests = {} /\ aborts = {}
  /\ fault = "none"

\* What the executive does by itself, once a step has begun.
Step ==
  \/ \E n \in Node :
       \/ CheckCandidate(n)
       \/ KeepPending(n)
       \/ DropPending(n)
       \/ AcquireResources(n)
       \/ FailToAcquire(n)
       \/ TransitionNode(n)
       \/ ExecuteAssignment(n)
       \/ RetractAssignment(n)
       \/ ExecuteCommand(n)
       \/ InvokeAbort(n)
       \/ ExecuteUpdate(n)
  \/ AllChecked
  \/ GroupDone
  \/ BatchDone
  \/ StepDone

\* What the interfaces and the application do between steps.
World ==
  \/ \E n \in Node :
       \/ AddPlan(n)
       \/ \E h \in Handle \ {"NO_COMMAND_HANDLE"} : CommandHandleReturn(n, h)
       \/ \E v \in TruthValue : CommandReturn(n, v)
       \/ \E b \in BOOLEAN : CommandAbortAcknowledge(n, b)
       \/ \E b \in BOOLEAN : UpdateAcknowledge(n, b)
  \/ \E l \in Lookup, v \in TruthValue : LookupReturn(l, v)
  \/ DeleteFinishedPlans

Next == StartStep \/ Step \/ World

Spec == Init /\ [][Next]_vars

-----------------------------------------------------------------------------
(* Properties *)

\* Every variable has its type: each queue holds nodes, each holder is a node.
TypeOK ==
  /\ condition \in [Node -> [ConditionName -> Expression]]
  /\ state \in [Node -> NodeState]
  /\ outcome \in [Node -> Outcome]
  /\ failure \in [Node -> FailureType]
  /\ next \in [Node -> Destination]
  /\ lookup \in [Lookup -> TruthValue]
  /\ value \in [Variable -> TruthValue]
  /\ saved \in [Variable -> TruthValue]
  /\ handle \in [Node -> Handle]
  /\ ack \in [Node -> BOOLEAN]
  /\ abortComplete \in [Node -> BOOLEAN]
  /\ exitLeaked \subseteq Node
  /\ queueStatus \in [Node -> QueueStatus]
  /\ candidateQueue \in Seq(Node) /\ pendingQueue \in Seq(Node)
  /\ stateChangeQueue \in Seq(Node) /\ finishedRootNodes \in Seq(Node)
  /\ assignmentsToExecute \in Seq(Node) /\ assignmentsToRetract \in Seq(Node)
  /\ commandsToExecute \in Seq(Node) /\ commandsToAbort \in Seq(Node)
  /\ updatesToExecute \in Seq(Node) /\ priorityNodes \in Seq(Node)
  /\ holder \in [Resource -> Node \cup {None}]
  /\ waiters \in [Resource -> SUBSET Node]
  /\ plan \subseteq Node /\ deleted \subseteq Node
  /\ requests \subseteq Node /\ aborts \subseteq Node
  /\ phase \in Phase
  /\ cursor \in Node \cup {None}
  /\ fault \in Fault

Holds(n) == \A r \in Resources(n) : holder[r] = n

\* A node that executes, finishes or fails holds every mutex it uses, and an
\* assignment the variable it sets: no two such nodes share a resource.
MutualExclusion == \A n \in Node : state[n] \in Running => Holds(n)

\* Candidates are the nodes with that status, each queued once.
CandidatesAreSound ==
  /\ IsInjective(candidateQueue)
  /\ ToSet(candidateQueue) = {n \in Node : queueStatus[n] = "CHECK"}

\* What is on the pending queue waits, with nothing else to do than to execute.
IsPending(n) == /\ queueStatus[n] \in PendingStatus
                /\ state[n] = "WAITING" /\ next[n].state = "EXECUTING"
                /\ n \notin ToSet(stateChangeQueue)

PendingIsSound == /\ IsInjective(pendingQueue)
                  /\ \A n \in ToSet(pendingQueue) : IsPending(n)

\* What is on the state change queue can make its move, and holds what it needs.
CanMove(n) == /\ queueStatus[n] \in {"TRANSITION", "TRANSITION_CHECK"} \cup PendingStatus
              /\ next[n].state \in LegalSuccessor(Type[n], state[n])
              /\ next[n].state = "EXECUTING" => Holds(n)

ChangesAreSound == /\ IsInjective(stateChangeQueue)
                   /\ \A n \in ToSet(stateChangeQueue) : CanMove(n)
                   /\ phase \in {"idle", "effects"} => stateChangeQueue = <<>>

\* Where the walk over the pending queue is, and what it has gathered behind it.
WalkIsSound ==
  /\ IsInjective(priorityNodes)
  /\ ToSet(priorityNodes) \subseteq ToSet(pendingQueue)
  /\ phase \notin {"gather", "acquire"} => priorityNodes = <<>>
  /\ phase = "gather" =>
       \E i \in DOMAIN pendingQueue :
         /\ cursor = pendingQueue[i]
         /\ ToSet(priorityNodes) \subseteq {pendingQueue[j] : j \in 1..i - 1}
  /\ phase = "acquire" /\ cursor # None =>
       cursor \in ToSet(pendingQueue) \ ToSet(priorityNodes)

\* The inductive invariant: mutual exclusion holds because the queues are kept apart.
QueuesAreSound == /\ CandidatesAreSound /\ PendingIsSound /\ ChangesAreSound
                  /\ WalkIsSound /\ MutualExclusion

\* A node that holds a resource is running, or about to: it gives up all it
\* holds when it is done.  ("Release any mutexes held by this node".)
HolderIsRunning ==
  \A r \in Resource : holder[r] # None =>
    \/ state[holder[r]] \in Running
    \/ state[holder[r]] = "WAITING" /\ holder[r] \in ToSet(stateChangeQueue)

\* "A node can be in at most one queue at any time": the queues link the nodes
\* through one pointer.
OneQueue ==
  \A n \in Node :
    Cardinality({i \in DOMAIN candidateQueue : candidateQueue[i] = n})
      + Cardinality({i \in DOMAIN pendingQueue : pendingQueue[i] = n})
      + Cardinality({i \in DOMAIN stateChangeQueue : stateChangeQueue[i] = n})
      + Cardinality({i \in DOMAIN finishedRootNodes : finishedRootNodes[i] = n}) <= 1

\* The status of a node says it is on the pending queue only when it is.
PendingStatusMeansPending ==
  \A n \in Node : queueStatus[n] \in PendingStatus => n \in ToSet(pendingQueue)

\* The step is over and runExec() will not take another.
Quiescent == Performed /\ candidateQueue = <<>>

Loaded(n) == n \notin deleted /\ ({n} \cup Ancestors[n]) \cap plan # {}

\* No change of a condition is missed: once the executive is quiescent, a node
\* that is not waiting for a resource has nowhere to go.
NoMissedTransition ==
  Quiescent => \A n \in Node :
    Loaded(n) /\ n \notin ToSet(pendingQueue) /\ queueStatus[n] # "DELETE"
      => Evaluated(n).state = "NO_STATE"

\* No release of a resource is missed: a node left on the pending queue still
\* wants to execute, and something it needs has a holder.
NoMissedRelease ==
  Quiescent => \A n \in ToSet(pendingQueue) :
    Evaluated(n).state = "EXECUTING" /\ \E r \in Resources(n) : holder[r] # None

\* What is queued to be sent is what its node is waiting for: the quiescence loop
\* stops before a node can move on, and no request is queued twice.
EffectsMatchState ==
  /\ \A n \in ToSet(assignmentsToExecute \o commandsToExecute) : state[n] = "EXECUTING"
  /\ \A n \in ToSet(assignmentsToRetract \o commandsToAbort) : state[n] = "FAILING"
  /\ \A n \in ToSet(updatesToExecute) : state[n] \in {"EXECUTING", "FAILING"} /\ ~ack[n]
  /\ \A queue \in {assignmentsToExecute, commandsToExecute, assignmentsToRetract,
                   commandsToAbort, updatesToExecute} : IsInjective(queue)

\* A node runs only inside a list that runs.
RunsInsideParent ==
  \A n \in Node : ~IsRoot(n) /\ state[n] \in Running => state[Parent[n]] \in Running

\* When a plan is deleted nothing of the executive refers to its nodes any more.
NothingDangles ==
  \A n \in deleted :
    /\ \A queue \in {candidateQueue, pendingQueue, stateChangeQueue, assignmentsToExecute,
                     assignmentsToRetract, commandsToExecute, commandsToAbort, updatesToExecute} :
         n \notin ToSet(queue)
    /\ \A r \in Resource : holder[r] # n /\ n \notin waiters[r]

\* What a plan can do to defeat the properties above: LeakedMutex, LostWakeup, StoppedWalk,
\* Orphan and EarlyFinish show each.  Steady plans leave their lists to end when the children
\* have: nothing interrupts a list.
Never(e, v) == e.kind = "constant" /\ e.of # v

Steady ==
  \A n \in Node : Type[n] = "List" =>
    /\ condition[n]["end"].kind = "default"
    /\ Never(condition[n]["exit"], "T") /\ Never(condition[n]["invariant"], "F")

\* A condition of n that stays true once it is: it waits at most for a sibling to finish.
Lasting(n, e) == \/ e.kind = "constant" /\ e.of = "T"
                 \/ e.kind = "state" /\ e.in = {"FINISHED"} /\ Parent[e.of] = Parent[n]

\* In patient plans, besides, a node inside a list that may start stays so until it has its
\* resources, or its exit or skip condition says it is done.
Patient ==
  Steady /\ \A n \in Node : Resources(n) # {} =>
              ~IsRoot(n) /\ \A c \in {"start", "pre"} : Lasting(n, condition[n][c])

\* In a steady plan no node keeps a mutex after its use.
SteadyHolderIsRunning == Steady => HolderIsRunning

\* When a steady plan is deleted nothing of the executive refers to its nodes.
SteadyNothingDangles == Steady => NothingDangles

\* In a patient plan no change of a condition is missed, of a pending node either.
PatientNoMissedTransition == Patient => NoMissedTransition

\* In a patient plan every node that waits for a resource tries for it when it is released.
PatientNoMissedRelease == Patient => NoMissedRelease

\* A node that has ended has an outcome, and a failure type exactly when it
\* failed or was interrupted, whatever was evaluated in between.
OutcomeMatchesFailure ==
  \A n \in Node : state[n] \in {"ITERATION_ENDED", "FINISHED"} =>
    /\ outcome[n] # "NO_OUTCOME"
    /\ outcome[n] \in {"FAILURE", "INTERRUPTED"} <=> failure[n] # "NO_FAILURE"

\* No assertion of the code fails.
NoFault == fault = "none"

\* A node only moves to a legal successor of its state.
ChangesAreLegal ==
  [][\A n \in Node : state'[n] # state[n] =>
       state'[n] \in LegalSuccessor(Type[n], state[n])]_vars

\* An assignment that succeeds leaves its value in the variable, and one that is
\* aborted leaves the value it found, whoever else assigns the variable.
AssignmentIsAtomic ==
  [][\A n \in Node :
       Type[n] = "Assignment" /\ state[n] \in Running /\ state'[n] \notin Running =>
         value[Dest[n]] = IF state[n] = "EXECUTING" THEN Rhs[n] ELSE saved[Dest[n]]]_vars

\* A command returns its result while no assignment to the same variable runs: what
\* reserves the variable for an assignment does not keep a result out, the plan has to.
ResultsComeApart ==
  [][\A m, n \in Node, v \in TruthValue :
       Type[n] = "Assignment" /\ state[n] \in Running /\ CommandReturn(m, v)
         => Dest[m] # Dest[n]]_vars

\* A node gets its resources only when no node of better priority that may try
\* for a resource they share is passed over.
PriorityRespected ==
  [][\A n, m \in Node :
       /\ n \in ToSet(pendingQueue) /\ n \in ToSet(stateChangeQueue') /\ next[n].state = "EXECUTING"
       /\ m \in ToSet(pendingQueue') /\ Priority[m] < Priority[n]
       /\ Resources(m) \cap Resources(n) # {}
       => \E r \in Resources(m) : holder[r] # None]_vars

AtWork == {n \in Node : state[n] \in Running}

Needs == [n \in Node |-> Resources(n)]

Reserving == INSTANCE Reservations WITH Client <- Node, held <- holder, working <- AtWork

\* Through queues, priorities, retries and failed acquisitions, the executive implements
\* Reservations: a node takes its mutexes and its variable all at once, executes only with
\* all of them, and while it executes nobody takes any of them away.
ImplementsReservations == Reserving!Spec

\* The quiescence loop, and the steps of runExec(), end, unless nodes of the plan
\* repeat for ever.
FairSpec == Spec /\ WF_vars(Step)

StepEnds ==
  []<>(phase = "idle")
    \/ []<><<\E n \in Node : state[n] = "ITERATION_ENDED" /\ state'[n] = "WAITING">>_state
=============================================================================
