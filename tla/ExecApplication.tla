--------------------------- MODULE ExecApplication ---------------------------
(***************************************************************************)
(* The application around the executive, in its default mode: one worker   *)
(* thread runs the executive, and other threads (the main program and the  *)
(* interface adapters) put entries in the input queue and notify it.       *)
(*                                                                         *)
(* A thread is a program counter; an action is what a thread does between  *)
(* two accesses to what it shares with the others.  A step of the          *)
(* executive is one action here and is the whole of the module PlexilExec: *)
(* all that is kept of the executive is which plans have finished, and     *)
(* that an interface may answer a command in the middle of the step.       *)
(***************************************************************************)
EXTENDS Integers, Sequences, SequencesExt, FiniteSets

CONSTANTS
  Client,          \* the threads other than the worker
  Main,            \* the one that adds plans, waits for them, and stops the application
  Waiter,          \* those that call notifyAndWaitForCompletion()
  Plan,
  MaxEvents,       \* bound: values and answers put in the input queue
  MaxMarks,        \* bound: marks put in the input queue
  MaxSuspensions,  \* bound: calls of suspend()
  MaxWaits         \* bound: calls of waitForPlanFinished()

ASSUME ClientAssumption ==
  Main \in Client /\ Waiter \subseteq Client

ASSUME BoundAssumption ==
  {MaxEvents, MaxMarks, MaxSuspensions, MaxWaits} \subseteq Nat

VARIABLES
  worker,        \* where the worker thread is
  single,        \* it is in step(), which looks at the queue once, not in runExec()
  needsStep,     \* processQueue: an entry has been given to the executive
  oldMark,       \* runExec: the last mark when it began
  allFinished,   \* runExec: the answer of allPlansFinished()
  pc,            \* where each client is
  sequence,      \* notifyAndWaitForCompletion: the mark it waits for
  inputQueue,    \* SerializedInputQueue
  markCount,     \* InterfaceManager::m_markCount
  lastMark,      \* m_lastMark
  sem, markSem, allFinishedSem,
  planLoaded,    \* m_planLoaded
  finishedRootNodesDeleted, \* PlexilExec::m_finishedRootNodesDeleted
  plan,          \* what has become of each plan
  suspended, stop, interfacesStarted,
  events,        \* entries put by the interfaces so far
  suspensions,   \* calls of suspend() so far
  waits,         \* calls of waitForPlanFinished() that have returned
  put, got,      \* how many entries have been put in the queue and taken from it
  target         \* put, when a client called notifyAndWaitForCompletion()

workerVars  == <<worker, single, needsStep, oldMark, allFinished>>
clientVars  == <<pc, sequence, target>>
queueVars   == <<inputQueue, put, got>>
markVars    == <<markCount, lastMark>>
semVars     == <<sem, markSem, allFinishedSem>>
planVars    == <<planLoaded, finishedRootNodesDeleted, plan>>
controlVars == <<suspended, stop, interfacesStarted>>
boundVars   == <<events, suspensions, waits>>

vars == <<workerVars, clientVars, queueVars, markVars, semVars, planVars, controlVars,
          boundVars>>

WorkerPC == {"drain", "step", "redrain", "clean", "postFinished", "postMark", "wait",
             "awake", "done"}

ClientPC == {"idle", "owing", "adding", "counting", "marking", "notifying", "waiting",
             "passing", "testing", "rousing", "halting", "posting", "sleeping", "joining",
             "stopped"}

PlanState == {"none", "queued", "running", "finished", "deleted"}

Entry == [kind : {"event"}] \cup [kind : {"mark"}, seq : Nat] \cup [kind : {"plan"}, plan : Plan]

\* SerializedInputQueue::put()
Put(entry) == inputQueue' = Append(inputQueue, entry) /\ put' = put + 1 /\ UNCHANGED got

Go(c, to) == pc' = [pc EXCEPT ![c] = to]

-----------------------------------------------------------------------------
(* The worker thread *)

\* The thread holds m_execMutex from here until it has cleaned up.
Begin == /\ worker' = "drain" /\ needsStep' = FALSE /\ oldMark' = lastMark

\* Slip: a mark is passed over, like an entry of no interest.
MarkIgnored(entry) == UNCHANGED lastMark

\* markProcessed()
MarkProcessed(entry) == lastMark' = IF entry.kind = "mark" THEN entry.seq ELSE lastMark

\* processQueue(): one entry.
ProcessEntry ==
  /\ worker \in {"drain", "redrain"}
  /\ inputQueue # <<>>
  /\ LET entry == Head(inputQueue)
     IN  /\ MarkProcessed(entry)
         /\ needsStep' = (needsStep \/ entry.kind # "mark")
         /\ plan' = IF entry.kind = "plan" THEN [plan EXCEPT ![entry.plan] = "running"] ELSE plan
  /\ inputQueue' = Tail(inputQueue) /\ got' = got + 1 /\ UNCHANGED put
  /\ UNCHANGED <<worker, single, oldMark, allFinished, clientVars, markCount, semVars,
                 planLoaded, finishedRootNodesDeleted, controlVars, boundVars>>

\* processQueue() returns.  The first call's answer is not looked at.
QueueProcessed ==
  /\ worker \in {"drain", "redrain"}
  /\ inputQueue = <<>>
  /\ worker' = IF worker = "redrain" /\ ~needsStep THEN "clean" ELSE "step"
  /\ needsStep' = FALSE
  /\ UNCHANGED <<single, oldMark, allFinished, clientVars, queueVars, markVars, semVars,
                 planVars, controlVars, boundVars>>

\* Slip: only the queue that was there at the start is processed.
AfterStepOnce == "clean"

AfterStep == IF single THEN "clean" ELSE "redrain"

\* PlexilExec::step(), until it needs no further step.
StepExec ==
  /\ worker = "step"
  /\ worker' = AfterStep
  /\ \E finished \in SUBSET {p \in Plan : plan[p] = "running"} :
       plan' = [p \in Plan |-> IF p \in finished THEN "finished" ELSE plan[p]]
  /\ \/ UNCHANGED <<queueVars, events, sem>>
     \/ /\ events < MaxEvents
        /\ events' = events + 1
        /\ Put([kind |-> "event"]) /\ sem' = sem + 1
  /\ UNCHANGED <<single, needsStep, oldMark, allFinished, clientVars, markVars, markSem,
                 allFinishedSem, planLoaded, finishedRootNodesDeleted, controlVars,
                 suspensions, waits>>

\* Slip: as the comment on m_finishedRootNodesDeleted has it, and of this run only.
AllFinishedNow == \E p \in Plan : plan[p] = "finished"

\* deleteFinishedPlans() raises the flag whether it deletes one or not, and
\* allPlansFinished() believes it when no plan is active.
AllPlansFinished == \A p \in Plan : plan[p] # "running"

CleanUp ==
  /\ worker = "clean"
  /\ worker' = "postFinished"
  /\ allFinished' = AllPlansFinished
  /\ plan' = [p \in Plan |-> IF plan[p] = "finished" THEN "deleted" ELSE plan[p]]
  /\ finishedRootNodesDeleted' = TRUE
  /\ UNCHANGED <<single, needsStep, oldMark, clientVars, queueVars, markVars, semVars,
                 planLoaded, controlVars, boundVars>>

\* The thread has released m_execMutex.
PostAllFinished ==
  /\ worker = "postFinished"
  /\ worker' = "postMark"
  /\ allFinishedSem' = IF planLoaded /\ allFinished THEN allFinishedSem + 1 ELSE allFinishedSem
  /\ UNCHANGED <<single, needsStep, oldMark, allFinished, clientVars, queueVars, markVars, sem,
                 markSem, planVars, controlVars, boundVars>>

PostMark ==
  /\ worker = "postMark"
  /\ worker' = "wait"
  /\ single' = FALSE
  /\ markSem' = IF lastMark > oldMark THEN markSem + 1 ELSE markSem
  /\ UNCHANGED <<needsStep, oldMark, allFinished, clientVars, queueVars, markVars, sem,
                 allFinishedSem, planVars, controlVars, boundVars>>

\* Slip: the thread does not sleep.
AwakeAlways == TRUE

SemaphorePosted == sem > 0

\* waitForExternalEvent(): m_sem.wait() returns.
WaitForExternalEvent ==
  /\ worker = "wait"
  /\ SemaphorePosted
  /\ sem' = sem - 1
  /\ worker' = "awake"
  /\ UNCHANGED <<single, needsStep, oldMark, allFinished, clientVars, queueVars, markVars,
                 markSem, allFinishedSem, planVars, controlVars, boundVars>>

\* It waits again while the application is suspended.
IgnoreEvent ==
  /\ worker = "awake"
  /\ ~stop /\ suspended
  /\ worker' = "wait"
  /\ UNCHANGED <<single, needsStep, oldMark, allFinished, clientVars, queueVars, markVars,
                 semVars, planVars, controlVars, boundVars>>

RunExec ==
  /\ worker = "awake"
  /\ ~stop /\ ~suspended
  /\ Begin
  /\ UNCHANGED <<single, allFinished, clientVars, queueVars, markVars, semVars, planVars,
                 controlVars, boundVars>>

\* worker() acknowledges the request and returns.
AcknowledgeStop ==
  /\ worker = "awake"
  /\ stop
  /\ stop' = FALSE
  /\ worker' = "done"
  /\ UNCHANGED <<single, needsStep, oldMark, allFinished, clientVars, queueVars, markVars,
                 semVars, planVars, suspended, interfacesStarted, boundVars>>

Worker ==
  \/ ProcessEntry \/ QueueProcessed \/ StepExec \/ CleanUp \/ PostAllFinished \/ PostMark
  \/ WaitForExternalEvent \/ IgnoreEvent \/ RunExec \/ AcknowledgeStop

-----------------------------------------------------------------------------
(* The other threads *)

\* An interface puts a value or an answer in the queue; a call of notifyExec()
\* is then due, and more entries may come before it.
PutEntry(c) ==
  /\ pc[c] \in {"idle", "owing"}
  /\ events < MaxEvents
  /\ events' = events + 1
  /\ Put([kind |-> "event"])
  /\ Go(c, "owing")
  /\ UNCHANGED <<workerVars, sequence, target, markVars, semVars, planVars, controlVars,
                 suspensions, waits>>

\* notifyExec(), in background mode.
NotifyExec(c) ==
  /\ pc[c] = "owing"
  /\ sem' = sem + 1
  /\ Go(c, "idle")
  /\ UNCHANGED <<workerVars, sequence, target, queueVars, markVars, markSem, allFinishedSem,
                 planVars, controlVars, boundVars>>

\* addPlan(), by way of handleAddPlan(): the entry first.
QueuePlan(p) ==
  /\ pc[Main] = "idle"
  /\ plan[p] = "none"
  /\ plan' = [plan EXCEPT ![p] = "queued"]
  /\ Put([kind |-> "plan", plan |-> p])
  /\ Go(Main, "adding")
  /\ UNCHANGED <<workerVars, sequence, target, markVars, semVars, planLoaded,
                 finishedRootNodesDeleted, controlVars, boundVars>>

\* The flag after it.  The caller then notifies, or calls notifyAndWaitForCompletion().
PlanLoaded ==
  /\ pc[Main] = "adding"
  /\ planLoaded' = TRUE
  /\ Go(Main, "owing")
  /\ UNCHANGED <<workerVars, sequence, target, queueVars, markVars, semVars,
                 finishedRootNodesDeleted, plan, controlVars, boundVars>>

\* waitForPlanFinished() returns.
WaitForPlanFinished ==
  /\ pc[Main] = "idle"
  /\ planLoaded
  /\ waits < MaxWaits
  /\ allFinishedSem > 0
  /\ allFinishedSem' = allFinishedSem - 1
  /\ waits' = waits + 1
  /\ UNCHANGED <<workerVars, clientVars, queueVars, markVars, sem, markSem, planVars,
                 controlVars, events, suspensions>>

\* markQueue() increments m_markCount, which no lock protects: it reads it, ...
ReadMarkCount(c) ==
  /\ c \in Waiter
  /\ pc[c] \in {"idle", "owing"}
  /\ markCount < MaxMarks
  /\ sequence' = [sequence EXCEPT ![c] = markCount + 1]
  /\ target' = [target EXCEPT ![c] = put]
  /\ Go(c, "counting")
  /\ UNCHANGED <<workerVars, queueVars, markVars, semVars, planVars, controlVars, boundVars>>

\* ... then writes it.
WriteMarkCount(c) ==
  /\ pc[c] = "counting"
  /\ markCount' = sequence[c]
  /\ Go(c, "marking")
  /\ UNCHANGED <<workerVars, sequence, target, queueVars, lastMark, semVars, planVars,
                 controlVars, boundVars>>

PutMark(c) ==
  /\ pc[c] = "marking"
  /\ Put([kind |-> "mark", seq |-> sequence[c]])
  /\ Go(c, "notifying")
  /\ UNCHANGED <<workerVars, sequence, target, markVars, semVars, planVars, controlVars,
                 boundVars>>

NotifyOfMark(c) ==
  /\ pc[c] = "notifying"
  /\ sem' = sem + 1
  /\ Go(c, "waiting")
  /\ UNCHANGED <<workerVars, sequence, target, queueVars, markVars, markSem, allFinishedSem,
                 planVars, controlVars, boundVars>>

WaitForMark(c) ==
  /\ pc[c] = "waiting"
  /\ markSem > 0
  /\ markSem' = markSem - 1
  /\ Go(c, "passing")
  /\ UNCHANGED <<workerVars, sequence, target, queueVars, markVars, sem, allFinishedSem,
                 planVars, controlVars, boundVars>>

\* In case it is another thread's mark.
PassMark(c) ==
  /\ pc[c] = "passing"
  /\ markSem' = markSem + 1
  /\ Go(c, "testing")
  /\ UNCHANGED <<workerVars, sequence, target, queueVars, markVars, sem, allFinishedSem,
                 planVars, controlVars, boundVars>>

\* Slip: any mark will do.
AnyMark(c) == TRUE

MarkReached(c) == lastMark >= sequence[c]

TestMark(c) ==
  /\ pc[c] = "testing"
  /\ Go(c, IF MarkReached(c) THEN "idle" ELSE "waiting")
  /\ UNCHANGED <<workerVars, sequence, target, queueVars, markVars, semVars, planVars,
                 controlVars, boundVars>>

Suspend(c) ==
  /\ pc[c] = "idle"
  /\ interfacesStarted /\ ~suspended
  /\ suspensions < MaxSuspensions
  /\ suspended' = TRUE /\ suspensions' = suspensions + 1
  /\ UNCHANGED <<workerVars, clientVars, queueVars, markVars, semVars, planVars, stop,
                 interfacesStarted, events, waits>>

\* Slip: what came while the application was suspended is left to the next event.
AfterResumeOnly == "idle"

AfterResume == "owing"

Resume(c) ==
  /\ pc[c] = "idle"
  /\ interfacesStarted /\ suspended
  /\ suspended' = FALSE
  /\ Go(c, AfterResume)
  /\ UNCHANGED <<workerVars, sequence, target, queueVars, markVars, semVars, planVars, stop,
                 interfacesStarted, boundVars>>

\* stop(): first, a suspended executive is woken.
Stop ==
  /\ pc[Main] = "idle"
  /\ interfacesStarted
  /\ suspended' = FALSE
  /\ Go(Main, IF suspended THEN "rousing" ELSE "halting")
  /\ UNCHANGED <<workerVars, sequence, target, queueVars, markVars, semVars, planVars, stop,
                 interfacesStarted, boundVars>>

Rouse ==
  /\ pc[Main] = "rousing"
  /\ sem' = sem + 1
  /\ Go(Main, "halting")
  /\ UNCHANGED <<workerVars, sequence, target, queueVars, markVars, markSem, allFinishedSem,
                 planVars, controlVars, boundVars>>

RequestStop ==
  /\ pc[Main] = "halting"
  /\ stop' = TRUE
  /\ Go(Main, "posting")
  /\ UNCHANGED <<workerVars, sequence, target, queueVars, markVars, semVars, planVars,
                 suspended, interfacesStarted, boundVars>>

\* notifyExec(), and a post of its own.
PostStop ==
  /\ pc[Main] = "posting"
  /\ sem' = sem + 2
  /\ Go(Main, "sleeping")
  /\ UNCHANGED <<workerVars, sequence, target, queueVars, markVars, markSem, allFinishedSem,
                 planVars, controlVars, boundVars>>

\* After a second: a worker that has not acknowledged the request is killed.
Halt ==
  /\ pc[Main] = "sleeping"
  /\ worker' = IF stop THEN "done" ELSE worker
  /\ Go(Main, "joining")
  /\ UNCHANGED <<single, needsStep, oldMark, allFinished, sequence, target, queueVars, markVars,
                 semVars, planVars, controlVars, boundVars>>

Join ==
  /\ pc[Main] = "joining"
  /\ worker = "done"
  /\ interfacesStarted' = FALSE
  /\ Go(Main, "stopped")
  /\ UNCHANGED <<workerVars, sequence, target, queueVars, markVars, semVars, planVars, suspended,
                 stop, boundVars>>

\* What a thread has begun, it finishes; what it may choose to begin, it may never begin.
Continue(c) ==
  \/ NotifyExec(c) \/ WriteMarkCount(c) \/ PutMark(c) \/ NotifyOfMark(c)
  \/ WaitForMark(c) \/ PassMark(c) \/ TestMark(c)

Call(c) == PutEntry(c) \/ ReadMarkCount(c) \/ Suspend(c) \/ Resume(c)

MainContinues == PlanLoaded \/ Rouse \/ RequestStop \/ PostStop \/ Halt \/ Join

MainCalls == (\E p \in Plan : QueuePlan(p)) \/ WaitForPlanFinished \/ Stop

-----------------------------------------------------------------------------
\* run() has started the worker, whose first call is step().
Init ==
  /\ worker = "drain" /\ single = TRUE /\ needsStep = FALSE /\ oldMark = 0
  /\ allFinished = FALSE
  /\ pc = [c \in Client |-> "idle"]
  /\ sequence = [c \in Client |-> 0] /\ target = [c \in Client |-> 0]
  /\ inputQueue = <<>> /\ put = 0 /\ got = 0
  /\ markCount = 0 /\ lastMark = 0
  /\ sem = 0 /\ markSem = 0 /\ allFinishedSem = 0
  /\ planLoaded = FALSE /\ finishedRootNodesDeleted = FALSE
  /\ plan = [p \in Plan |-> "none"]
  /\ suspended = FALSE /\ stop = FALSE /\ interfacesStarted = TRUE
  /\ events = 0 /\ suspensions = 0 /\ waits = 0

Next ==
  \/ Worker
  \/ MainContinues \/ MainCalls
  \/ \E c \in Client : Continue(c) \/ Call(c)

Spec == Init /\ [][Next]_vars

\* The scheduler runs every thread that can run.  Nothing obliges a thread to make
\* a call.
FairSpec ==
  /\ Spec
  /\ WF_vars(Worker) /\ WF_vars(MainContinues)
  /\ \A c \in Client : WF_vars(Continue(c))

-----------------------------------------------------------------------------
(* Properties *)

\* The types.  A semaphore's count is never negative: nobody passes one that was
\* not posted.
TypeOK ==
  /\ worker \in WorkerPC
  /\ single \in BOOLEAN /\ needsStep \in BOOLEAN /\ allFinished \in BOOLEAN
  /\ pc \in [Client -> ClientPC]
  /\ sequence \in [Client -> Nat] /\ target \in [Client -> Nat]
  /\ inputQueue \in Seq(Entry) /\ put \in Nat /\ got \in Nat
  /\ oldMark \in Nat /\ markCount \in Nat /\ lastMark \in Nat
  /\ sem \in Nat /\ markSem \in Nat /\ allFinishedSem \in Nat
  /\ planLoaded \in BOOLEAN /\ finishedRootNodesDeleted \in BOOLEAN
  /\ plan \in [Plan -> PlanState]
  /\ suspended \in BOOLEAN /\ stop \in BOOLEAN /\ interfacesStarted \in BOOLEAN
  /\ events \in Nat /\ suspensions \in Nat /\ waits \in Nat

\* A thread has put an entry and has yet to call notifyExec(), or is about to wake
\* the worker for another reason.
Due(c) == pc[c] \in {"owing", "adding", "counting", "marking", "notifying",
                     "rousing", "halting", "posting"}

\* The worker sleeps, and nothing is about to wake it.
Asleep == worker = "wait" /\ sem = 0 /\ \A c \in Client : ~Due(c)

\* No wakeup is lost: the worker does not sleep on a queue that holds an entry,
\* unless the application is suspended; and what came meanwhile is seen when it is
\* resumed (notifyExec(), waitForExternalEvent(), resume(), and runExec(), which
\* looks at the queue again after a step).
NoEventForgotten == Asleep /\ ~suspended => inputQueue = <<>>

\* notifyAndWaitForCompletion() returns only when every entry that was in the queue
\* at the time of the call has been taken from it, although the semaphore it waits
\* on counts every thread's marks, and those of the past.
WaitedForAll ==
  [][\A c \in Client : pc[c] = "testing" /\ pc'[c] = "idle" => got >= target[c]]_vars

\* A plan's end is announced, even if the plan was put in the queue and ran to its
\* end before addPlan() set the flag that the worker consults (addPlan(), runExec()).
FinishIsTold ==
  /\ Asleep /\ ~suspended
  /\ planLoaded
  /\ \A p \in Plan : plan[p] \in {"none", "finished", "deleted"}
  => allFinishedSem > 0 \/ waits > 0

\* notifyAndWaitForCompletion() returns, unless the application is suspended or its
\* worker has stopped.
WaiterReturns ==
  \A c \in Waiter :
    pc[c] = "waiting" ~> (pc[c] = "idle" \/ suspended \/ worker = "done")

\* waitForPlanFinished() returns when the plan that is being executed has finished
\* (the comment on its declaration), and not while one is running or is queued.
PlanFinished ==
  [][allFinishedSem' < allFinishedSem => \A p \in Plan : plan[p] \notin {"queued", "running"}]_vars

=============================================================================
