------------------------ MODULE ExecApplicationProofs ------------------------
(***************************************************************************)
(* The threads of the application, for any number of threads, plans,       *)
(* entries, marks and suspensions: no wakeup is lost, a plan that has      *)
(* finished is announced, and a thread that waits returns only when all it *)
(* has put in the queue has been processed.                                *)
(*                                                                         *)
(* NoEventForgotten speaks of a sleeping worker only.  It follows from     *)
(* Accounted, which every step preserves: an entry in the queue always has *)
(* someone or something that will bring the worker back to it.             *)
(***************************************************************************)
EXTENDS ExecApplication, TLAPS

\* While the queue holds an entry, the worker is reading it or about to, or it has
\* ended, or the semaphore is up, or a thread is about to raise it, or the
\* application is suspended (and resume() will raise it).
Accounted ==
  inputQueue # <<>> =>
    \/ worker \in {"drain", "redrain", "awake", "done"}
    \/ sem > 0
    \/ \E c \in Client : Due(c)
    \/ suspended

Wakeful ==
  /\ sem \in Nat
  /\ pc \in [Client -> ClientPC]
  /\ Accounted

\* It holds at the start: the queue is empty.
LEMMA InitWakeful == Init => Wakeful
  BY DEF Init, Wakeful, Accounted, ClientPC

\* The worker goes to sleep, or begins a step, only with a queue it has found empty
\* or a semaphore that is up.
LEMMA WorkerWakeful == Wakeful /\ Worker => Wakeful'
<1>. SUFFICES ASSUME Wakeful, Worker PROVE Wakeful'
  OBVIOUS
<1>. USE DEF Wakeful, Accounted, Due, clientVars, queueVars, semVars, controlVars
<1>1. ASSUME ProcessEntry PROVE Wakeful'
  BY <1>1 DEF ProcessEntry
<1>2. ASSUME QueueProcessed PROVE Wakeful'
  BY <1>2 DEF QueueProcessed
<1>3. ASSUME StepExec PROVE Wakeful'
  <2>1. CASE UNCHANGED <<queueVars, events, sem>>
    BY <1>3, <2>1 DEF StepExec
  <2>2. CASE sem' = sem + 1
    BY <1>3, <2>2 DEF StepExec
  <2>. QED
    BY <1>3, <2>1, <2>2 DEF StepExec
<1>4. ASSUME CleanUp PROVE Wakeful'
  BY <1>4 DEF CleanUp
<1>5. ASSUME PostAllFinished PROVE Wakeful'
  BY <1>5 DEF PostAllFinished
<1>6. ASSUME PostMark PROVE Wakeful'
  BY <1>6 DEF PostMark
<1>7. ASSUME WaitForExternalEvent PROVE Wakeful'
  BY <1>7 DEF WaitForExternalEvent, SemaphorePosted
<1>8. ASSUME IgnoreEvent PROVE Wakeful'
  BY <1>8 DEF IgnoreEvent
<1>9. ASSUME RunExec PROVE Wakeful'
  BY <1>9 DEF RunExec, Begin
<1>10. ASSUME AcknowledgeStop PROVE Wakeful'
  BY <1>10 DEF AcknowledgeStop
<1>. QED
  BY <1>1, <1>2, <1>3, <1>4, <1>5, <1>6, <1>7, <1>8, <1>9, <1>10 DEF Worker

\* A thread that goes to a place from which it will raise the semaphore accounts for
\* whatever is in the queue.
LEMMA GoesToRaise ==
  ASSUME Wakeful, NEW c \in Client, NEW to \in ClientPC, Go(c, to),
         to \in {"owing", "adding", "counting", "marking", "notifying", "rousing", "halting",
                 "posting"},
         UNCHANGED sem
  PROVE  Wakeful'
<1>1. pc' \in [Client -> ClientPC] /\ Due(c)'
  BY DEF Go, Wakeful, Due
<1>. QED
  BY <1>1 DEF Wakeful, Accounted

\* So does one that raises it.
LEMMA Raises ==
  ASSUME Wakeful, NEW c \in Client, NEW to \in ClientPC, Go(c, to),
         sem' = sem + 1 \/ sem' = sem + 2
  PROVE  Wakeful'
<1>1. pc' \in [Client -> ClientPC]
  BY DEF Go, Wakeful
<1>2. sem' \in Nat /\ sem' > 0
  BY DEF Wakeful
<1>. QED
  BY <1>1, <1>2 DEF Wakeful, Accounted

\* A thread that owes the worker nothing may go anywhere.
LEMMA OwesNothing ==
  ASSUME Wakeful, NEW c \in Client, NEW to \in ClientPC, ~Due(c), Go(c, to),
         UNCHANGED <<inputQueue, sem, suspended>>,
         worker' = worker \/ worker' = "done"
  PROVE  Wakeful'
<1>1. pc' \in [Client -> ClientPC]
  BY DEF Go, Wakeful
<1>2. ASSUME NEW d \in Client, Due(d) PROVE Due(d)'
  <2>1. d # c
    BY <1>2
  <2>2. pc'[d] = pc[d]
    BY <2>1 DEF Go, Wakeful
  <2>. QED
    BY <1>2, <2>2 DEF Due
<1>. QED
  BY <1>1, <1>2 DEF Wakeful, Accounted

\* What a thread has begun, and the calls it may make.
LEMMA ClientWakeful ==
  ASSUME Wakeful, NEW c \in Client, Continue(c) \/ Call(c)
  PROVE  Wakeful'
<1>. USE DEF ClientPC, workerVars, queueVars, semVars, controlVars
<1>1. ASSUME NotifyExec(c) \/ NotifyOfMark(c) PROVE Wakeful'
  BY <1>1, Raises DEF NotifyExec, NotifyOfMark
<1>2. ASSUME PutEntry(c) \/ ReadMarkCount(c) \/ WriteMarkCount(c) \/ PutMark(c) PROVE Wakeful'
  BY <1>2, GoesToRaise DEF PutEntry, ReadMarkCount, WriteMarkCount, PutMark
<1>3. ASSUME WaitForMark(c) \/ PassMark(c) \/ TestMark(c) PROVE Wakeful'
  BY <1>3, OwesNothing DEF WaitForMark, PassMark, TestMark, Due
<1>4. ASSUME Suspend(c) PROVE Wakeful'
  BY <1>4 DEF Suspend, Wakeful, Accounted, clientVars
<1>5. ASSUME Resume(c) PROVE Wakeful'
  BY <1>5, GoesToRaise DEF Resume, AfterResume
<1>. QED
  BY <1>1, <1>2, <1>3, <1>4, <1>5 DEF Continue, Call

\* The thread that adds plans and stops the application.
LEMMA MainWakeful == Wakeful /\ (MainContinues \/ MainCalls) => Wakeful'
<1>. SUFFICES ASSUME Wakeful, MainContinues \/ MainCalls PROVE Wakeful'
  OBVIOUS
<1>. USE ClientAssumption DEF ClientPC, workerVars, queueVars, semVars, controlVars
<1>1. ASSUME NEW p \in Plan, QueuePlan(p) PROVE Wakeful'
  BY <1>1, GoesToRaise DEF QueuePlan
<1>2. ASSUME PlanLoaded \/ RequestStop PROVE Wakeful'
  BY <1>2, GoesToRaise DEF PlanLoaded, RequestStop
<1>3. ASSUME Rouse \/ PostStop PROVE Wakeful'
  BY <1>3, Raises DEF Rouse, PostStop
<1>4. ASSUME WaitForPlanFinished PROVE Wakeful'
  BY <1>4 DEF WaitForPlanFinished, Wakeful, Accounted, clientVars, Due
<1>5. ASSUME Stop PROVE Wakeful'
  BY <1>5, GoesToRaise DEF Stop
<1>6. ASSUME Halt \/ Join PROVE Wakeful'
  BY <1>6, OwesNothing DEF Halt, Join, Due
<1>. QED
  BY <1>1, <1>2, <1>3, <1>4, <1>5, <1>6 DEF MainContinues, MainCalls

\* The worker never sleeps on an entry nobody will wake it for: notifyExec(),
\* waitForExternalEvent(), resume(), stop() and the drains of runExec().
THEOREM NoEventIsForgotten == Spec => []NoEventForgotten
<1>1. Wakeful /\ [Next]_vars => Wakeful'
  <2>1. ASSUME Wakeful, UNCHANGED vars PROVE Wakeful'
    BY <2>1 DEF vars, workerVars, clientVars, queueVars, semVars, controlVars, Wakeful, Accounted,
                Due
  <2>. QED
    BY <2>1, WorkerWakeful, ClientWakeful, MainWakeful DEF Next
<1>2. Wakeful => NoEventForgotten
  BY DEF Wakeful, Accounted, NoEventForgotten, Asleep
<1>. QED
  BY InitWakeful, <1>1, <1>2, PTL DEF Spec

-----------------------------------------------------------------------------
(* Types *)

\* An entry that is put, or taken, leaves a queue of entries.
LEMMA PutTyped ==
  ASSUME TypeOK, NEW entry \in Entry, Put(entry)
  PROVE  inputQueue' \in Seq(Entry) /\ put' \in Nat /\ got' \in Nat
<1>1. inputQueue \in Seq(Entry) /\ put \in Nat /\ got \in Nat
  BY DEF TypeOK
<1>2. Append(inputQueue, entry) \in Seq(Entry)
  <2> HIDE DEF Entry
  <2> QED  BY <1>1
<1> QED  BY <1>1, <1>2 DEF Put

LEMMA TakenTyped ==
  ASSUME TypeOK, inputQueue # <<>>
  PROVE  /\ Head(inputQueue) \in Entry /\ Tail(inputQueue) \in Seq(Entry)
         /\ Head(inputQueue).kind = "mark" => Head(inputQueue).seq \in Nat
         /\ Head(inputQueue).kind = "plan" => Head(inputQueue).plan \in Plan
<1>1. inputQueue \in Seq(Entry)
  BY DEF TypeOK
<1>2. Head(inputQueue) \in Entry /\ Tail(inputQueue) \in Seq(Entry)
  <2> HIDE DEF Entry
  <2> QED  BY <1>1
<1>3. \A entry \in Entry : /\ entry.kind = "mark" => entry.seq \in Nat
                           /\ entry.kind = "plan" => entry.plan \in Plan
  BY DEF Entry
<1> QED  BY <1>2, <1>3

LEMMA WorkerTyped ==
  ASSUME TypeOK, Worker
  PROVE  TypeOK'
<1> USE DEF clientVars, queueVars, markVars, semVars, planVars, controlVars, boundVars
<1>1. CASE ProcessEntry
  <2> DEFINE entry == Head(inputQueue)
  <2>1. /\ entry.kind = "mark" => entry.seq \in Nat
        /\ entry.kind = "plan" => entry.plan \in Plan
        /\ inputQueue' \in Seq(Entry)
    BY <1>1, TakenTyped DEF ProcessEntry
  <2>2. lastMark' \in Nat
    BY <1>1, <2>1 DEF ProcessEntry, MarkProcessed, TypeOK
  <2>3. plan' \in [Plan -> PlanState]
    BY <1>1, <2>1 DEF ProcessEntry, TypeOK, PlanState
  <2>4. needsStep' \in BOOLEAN
    BY <1>1 DEF ProcessEntry, TypeOK
  <2>5. got' \in Nat
    BY <1>1 DEF ProcessEntry, TypeOK
  <2> HIDE DEF entry
  <2> QED  BY <1>1, <2>1, <2>2, <2>3, <2>4, <2>5 DEF ProcessEntry, TypeOK
<1>2. CASE QueueProcessed
  BY <1>2 DEF QueueProcessed, TypeOK, WorkerPC
<1>3. CASE StepExec
  <2>1. plan' \in [Plan -> PlanState]
    BY <1>3 DEF StepExec, TypeOK, PlanState
  <2>2. /\ inputQueue' \in Seq(Entry) /\ put' \in Nat /\ got' \in Nat
        /\ events' \in Nat /\ sem' \in Nat
    <3>1. [kind |-> "event"] \in Entry
      BY DEF Entry
    <3>2. CASE UNCHANGED <<queueVars, events, sem>>
      BY <3>2 DEF TypeOK
    <3>3. CASE Put([kind |-> "event"]) /\ events' = events + 1 /\ sem' = sem + 1
      BY <3>1, <3>3, PutTyped DEF TypeOK
    <3> QED  BY <1>3, <3>2, <3>3 DEF StepExec
  <2>3. worker' \in WorkerPC
    BY <1>3 DEF StepExec, AfterStep, WorkerPC
  <2> QED  BY <1>3, <2>1, <2>2, <2>3 DEF StepExec, TypeOK
<1>4. CASE CleanUp
  <2>1. plan' \in [Plan -> PlanState]
    BY <1>4 DEF CleanUp, TypeOK, PlanState
  <2>2. allFinished' \in BOOLEAN
    BY <1>4 DEF CleanUp, AllPlansFinished
  <2> QED  BY <1>4, <2>1, <2>2 DEF CleanUp, TypeOK, WorkerPC
<1>5. CASE PostAllFinished
  BY <1>5 DEF PostAllFinished, TypeOK, WorkerPC
<1>6. CASE PostMark
  <2>1. markSem' \in Nat
    BY <1>6 DEF PostMark, TypeOK
  <2>2. worker' \in WorkerPC /\ single' \in BOOLEAN
    BY <1>6 DEF PostMark, WorkerPC
  <2> QED  BY <1>6, <2>1, <2>2 DEF PostMark, TypeOK
<1>7. CASE WaitForExternalEvent
  BY <1>7 DEF WaitForExternalEvent, SemaphorePosted, TypeOK, WorkerPC
<1>8. CASE IgnoreEvent
  BY <1>8 DEF IgnoreEvent, TypeOK, WorkerPC
<1>9. CASE RunExec
  BY <1>9 DEF RunExec, Begin, TypeOK, WorkerPC
<1>10. CASE AcknowledgeStop
  BY <1>10 DEF AcknowledgeStop, TypeOK, WorkerPC
<1> QED
  BY <1>1, <1>2, <1>3, <1>4, <1>5, <1>6, <1>7, <1>8, <1>9, <1>10 DEF Worker

LEMMA ClientTyped ==
  ASSUME TypeOK, NEW c \in Client, Continue(c) \/ Call(c)
  PROVE  TypeOK'
<1> USE DEF workerVars, queueVars, markVars, semVars, planVars, controlVars, boundVars
<1>1. ASSUME NEW to \in ClientPC, Go(c, to)
      PROVE  pc' \in [Client -> ClientPC]
  BY <1>1 DEF Go, TypeOK
<1>2. CASE PutEntry(c)
  <2>1. inputQueue' \in Seq(Entry) /\ put' \in Nat /\ got' \in Nat
    BY <1>2, PutTyped DEF PutEntry, Entry
  <2> QED  BY <1>1, <1>2, <2>1 DEF PutEntry, ClientPC, TypeOK
<1>3. CASE NotifyExec(c) \/ NotifyOfMark(c)
  <2>1. sem' \in Nat
    BY <1>3 DEF NotifyExec, NotifyOfMark, TypeOK
  <2>2. pc' \in [Client -> ClientPC]
    BY <1>1, <1>3 DEF NotifyExec, NotifyOfMark, ClientPC
  <2>3. CASE NotifyExec(c)
    BY <2>1, <2>2, <2>3 DEF NotifyExec, TypeOK
  <2>4. CASE NotifyOfMark(c)
    BY <2>1, <2>2, <2>4 DEF NotifyOfMark, TypeOK
  <2> QED  BY <1>3, <2>3, <2>4
<1>4. CASE ReadMarkCount(c)
  <2>1. sequence' \in [Client -> Nat] /\ target' \in [Client -> Nat]
    BY <1>4 DEF ReadMarkCount, TypeOK
  <2> QED  BY <1>1, <1>4, <2>1 DEF ReadMarkCount, ClientPC, TypeOK
<1>5. CASE WriteMarkCount(c)
  BY <1>1, <1>5 DEF WriteMarkCount, ClientPC, TypeOK
<1>6. CASE PutMark(c)
  <2>1. [kind |-> "mark", seq |-> sequence[c]] \in Entry
    BY DEF TypeOK, Entry
  <2>2. inputQueue' \in Seq(Entry) /\ put' \in Nat /\ got' \in Nat
    BY <1>6, <2>1, PutTyped DEF PutMark
  <2> QED  BY <1>1, <1>6, <2>2 DEF PutMark, ClientPC, TypeOK
<1>7. CASE WaitForMark(c) \/ PassMark(c) \/ TestMark(c)
  <2>1. CASE WaitForMark(c)
    <3>1. markSem' \in Nat
      BY <2>1 DEF WaitForMark, TypeOK
    <3>2. pc' \in [Client -> ClientPC]
      BY <1>1, <2>1 DEF WaitForMark, ClientPC
    <3> QED  BY <2>1, <3>1, <3>2 DEF WaitForMark, TypeOK
  <2>2. CASE PassMark(c)
    <3>1. markSem' \in Nat
      BY <2>2 DEF PassMark, TypeOK
    <3>2. pc' \in [Client -> ClientPC]
      BY <1>1, <2>2 DEF PassMark, ClientPC
    <3> QED  BY <2>2, <3>1, <3>2 DEF PassMark, TypeOK
  <2>3. CASE TestMark(c)
    <3>1. pc' \in [Client -> ClientPC]
      <4>1. (IF MarkReached(c) THEN "idle" ELSE "waiting") \in ClientPC
        BY DEF ClientPC
      <4> QED  BY <1>1, <2>3, <4>1 DEF TestMark
    <3> QED  BY <2>3, <3>1 DEF TestMark, TypeOK
  <2> QED  BY <1>7, <2>1, <2>2, <2>3
<1>8. CASE Suspend(c)
  BY <1>8 DEF Suspend, clientVars, TypeOK
<1>9. CASE Resume(c)
  BY <1>1, <1>9 DEF Resume, AfterResume, ClientPC, TypeOK
<1> QED
  BY <1>2, <1>3, <1>4, <1>5, <1>6, <1>7, <1>8, <1>9 DEF Continue, Call

LEMMA MainTyped ==
  ASSUME TypeOK, MainContinues \/ MainCalls
  PROVE  TypeOK'
<1> USE DEF workerVars, queueVars, markVars, semVars, planVars, controlVars, boundVars
<1>1. ASSUME NEW to \in ClientPC, Go(Main, to)
      PROVE  pc' \in [Client -> ClientPC]
  BY <1>1 DEF Go, TypeOK
<1>2. ASSUME NEW p \in Plan, QueuePlan(p)
      PROVE  TypeOK'
  <2>1. inputQueue' \in Seq(Entry) /\ put' \in Nat /\ got' \in Nat
    <3>1. [kind |-> "plan", plan |-> p] \in Entry
      BY DEF Entry
    <3> QED  BY <1>2, <3>1, PutTyped DEF QueuePlan
  <2>2. plan' \in [Plan -> PlanState]
    BY <1>2 DEF QueuePlan, TypeOK, PlanState
  <2> QED  BY <1>1, <1>2, <2>1, <2>2 DEF QueuePlan, ClientPC, TypeOK
<1>3. CASE PlanLoaded \/ RequestStop
  BY <1>1, <1>3 DEF PlanLoaded, RequestStop, ClientPC, TypeOK
<1>4. CASE Rouse \/ PostStop
  <2>1. sem' \in Nat
    BY <1>4 DEF Rouse, PostStop, TypeOK
  <2>2. pc' \in [Client -> ClientPC]
    BY <1>1, <1>4 DEF Rouse, PostStop, ClientPC
  <2>3. CASE Rouse
    BY <2>1, <2>2, <2>3 DEF Rouse, TypeOK
  <2>4. CASE PostStop
    BY <2>1, <2>2, <2>4 DEF PostStop, TypeOK
  <2> QED  BY <1>4, <2>3, <2>4
<1>5. CASE WaitForPlanFinished
  BY <1>5 DEF WaitForPlanFinished, clientVars, TypeOK
<1>6. CASE Stop
  BY <1>1, <1>6 DEF Stop, ClientPC, TypeOK
<1>7. CASE Halt \/ Join
  <2>1. pc' \in [Client -> ClientPC]
    BY <1>1, <1>7 DEF Halt, Join, ClientPC
  <2>2. CASE Halt
    <3>1. worker' \in WorkerPC
      BY <2>2 DEF Halt, WorkerPC, TypeOK
    <3> QED  BY <2>1, <2>2, <3>1 DEF Halt, TypeOK
  <2>3. CASE Join
    BY <2>1, <2>3 DEF Join, TypeOK
  <2> QED  BY <1>7, <2>2, <2>3
<1> QED
  BY <1>2, <1>3, <1>4, <1>5, <1>6, <1>7 DEF MainContinues, MainCalls

LEMMA TypeInductive == TypeOK /\ [Next]_vars => TypeOK'
<1>1. TypeOK /\ UNCHANGED vars => TypeOK'
  BY DEF vars, workerVars, clientVars, queueVars, markVars, semVars, planVars, controlVars,
         boundVars, TypeOK
<1> QED  BY <1>1, WorkerTyped, ClientTyped, MainTyped DEF Next

LEMMA TypeInitially == Init => TypeOK
<1> SUFFICES ASSUME Init PROVE TypeOK
  OBVIOUS
<1>1. <<>> \in Seq(Entry)
  <2> HIDE DEF Entry
  <2> QED  OBVIOUS
<1>2. inputQueue \in Seq(Entry)
  BY <1>1 DEF Init
<1>3. pc \in [Client -> ClientPC] /\ plan \in [Plan -> PlanState]
  BY DEF Init, ClientPC, PlanState
<1>4. sequence \in [Client -> Nat] /\ target \in [Client -> Nat]
  BY DEF Init
<1>5. worker \in WorkerPC
  BY DEF Init, WorkerPC
<1> QED  BY <1>2, <1>3, <1>4, <1>5 DEF Init, TypeOK

\* Every variable of the application keeps its type; above all, no thread ever passes a
\* semaphore that was not posted.
THEOREM TypesAreKept == Spec => []TypeOK
  BY TypeInitially, TypeInductive, PTL DEF Spec

-----------------------------------------------------------------------------
(* The end of a plan is announced *)

\* When no plan is active, its end has been announced, or something brings the worker to
\* announce it.
Told ==
  planLoaded /\ (\A p \in Plan : plan[p] \notin {"queued", "running"}) =>
    \/ allFinishedSem > 0 \/ waits > 0
    \/ sem > 0 \/ suspended \/ \E c \in Client : Due(c)
    \/ worker \in {"drain", "step", "redrain", "clean", "awake", "done"}
    \/ worker = "postFinished" /\ allFinished

LEMMA WorkerTells ==
  ASSUME TypeOK, Told, Worker
  PROVE  Told'
<1> USE DEF Told, Due, clientVars, queueVars, markVars, semVars, planVars, controlVars, boundVars
<1>1. CASE ProcessEntry \/ QueueProcessed
  <2>1. worker' \in {"drain", "step", "redrain", "clean"}
    BY <1>1 DEF ProcessEntry, QueueProcessed
  <2> QED  BY <2>1
<1>2. CASE StepExec
  <2>1. worker' \in {"clean", "redrain"}
    BY <1>2 DEF StepExec, AfterStep
  <2> QED  BY <2>1
<1>3. CASE CleanUp
  <2>1. worker' = "postFinished" /\ planLoaded' = planLoaded /\ allFinished' = AllPlansFinished
        /\ plan' = [p \in Plan |-> IF plan[p] = "finished" THEN "deleted" ELSE plan[p]]
    BY <1>3 DEF CleanUp
  <2>2. (\A p \in Plan : plan'[p] \notin {"queued", "running"}) => AllPlansFinished
    BY <2>1 DEF AllPlansFinished
  <2> QED  BY <2>1, <2>2
<1>4. CASE PostAllFinished
  BY <1>4 DEF PostAllFinished, TypeOK
<1>5. CASE PostMark
  BY <1>5 DEF PostMark
<1>6. CASE WaitForExternalEvent
  BY <1>6 DEF WaitForExternalEvent
<1>7. CASE IgnoreEvent
  BY <1>7 DEF IgnoreEvent
<1>8. CASE RunExec
  BY <1>8 DEF RunExec, Begin
<1>9. CASE AcknowledgeStop
  BY <1>9 DEF AcknowledgeStop
<1> QED
  BY <1>1, <1>2, <1>3, <1>4, <1>5, <1>6, <1>7, <1>8, <1>9 DEF Worker

\* A thread that is or will be due to wake the worker, or has just done it.
LEMMA DueTells ==
  ASSUME TypeOK, NEW c \in Client, NEW to \in ClientPC, Go(c, to),
         to \in {"owing", "adding", "counting", "marking", "notifying", "rousing", "halting",
                 "posting"} \/ sem' = sem + 1 \/ sem' = sem + 2
  PROVE  Told'
<1>1. sem' = sem + 1 \/ sem' = sem + 2 => sem' > 0
  BY DEF TypeOK
<1>2. pc'[c] = to
  BY DEF Go, TypeOK
<1> QED  BY <1>1, <1>2 DEF Told, Due

\* A thread that owes nothing leaves the others in charge.
LEMMA OthersTell ==
  ASSUME TypeOK, Told, NEW c \in Client, NEW to \in ClientPC, ~Due(c), Go(c, to),
         UNCHANGED <<planVars, allFinishedSem, waits, sem, suspended, allFinished>>,
         worker' = worker \/ worker' = "done"
  PROVE  Told'
<1>1. \A d \in Client : Due(d) => Due(d)'
  BY DEF Go, TypeOK, Due
<1> QED  BY <1>1 DEF Told, planVars

LEMMA ClientTells ==
  ASSUME TypeOK, Told, NEW c \in Client, Continue(c) \/ Call(c)
  PROVE  Told'
<1> USE DEF ClientPC, workerVars, semVars, planVars, controlVars, boundVars
<1>1. CASE NotifyExec(c) \/ NotifyOfMark(c)
  BY <1>1, DueTells DEF NotifyExec, NotifyOfMark
<1>2. CASE PutEntry(c) \/ ReadMarkCount(c) \/ WriteMarkCount(c) \/ PutMark(c) \/ Resume(c)
  BY <1>2, DueTells DEF PutEntry, ReadMarkCount, WriteMarkCount, PutMark, Resume, AfterResume
<1>3. CASE WaitForMark(c) \/ PassMark(c) \/ TestMark(c)
  BY <1>3, OthersTell DEF WaitForMark, PassMark, TestMark, Due
<1>4. CASE Suspend(c)
  BY <1>4 DEF Suspend, Told
<1> QED
  BY <1>1, <1>2, <1>3, <1>4 DEF Continue, Call

LEMMA MainTells ==
  ASSUME TypeOK, Told, MainContinues \/ MainCalls
  PROVE  Told'
<1> USE ClientAssumption DEF ClientPC, workerVars, semVars, planVars, controlVars, boundVars
<1>1. ASSUME NEW p \in Plan, QueuePlan(p)
      PROVE  Told'
  BY <1>1, DueTells DEF QueuePlan
<1>2. CASE PlanLoaded \/ RequestStop \/ Stop
  BY <1>2, DueTells DEF PlanLoaded, RequestStop, Stop
<1>3. CASE Rouse \/ PostStop
  BY <1>3, DueTells DEF Rouse, PostStop
<1>4. CASE WaitForPlanFinished
  BY <1>4 DEF WaitForPlanFinished, Told, TypeOK
<1>5. CASE Halt \/ Join
  BY <1>5, OthersTell DEF Halt, Join, Due
<1> QED
  BY <1>1, <1>2, <1>3, <1>4, <1>5 DEF MainContinues, MainCalls

\* The end of the plans is announced, although a plan may run to its end before addPlan()
\* sets m_planLoaded, which the worker consults: addPlan() notifies it again.
THEOREM FinishIsAnnounced == Spec => []FinishIsTold
<1>1. TypeOK /\ Told /\ [Next]_vars => TypeOK' /\ Told'
  <2>1. Told /\ UNCHANGED vars => Told'
    BY DEF vars, workerVars, clientVars, semVars, planVars, controlVars, boundVars, Told, Due
  <2> QED  BY <2>1, TypeInductive, WorkerTells, ClientTells, MainTells DEF Next
<1>2. Told => FinishIsTold
  BY DEF Told, FinishIsTold, Asleep
<1>3. Init => Told
  BY DEF Init, Told
<1> QED
  BY <1>1, <1>2, <1>3, TypeInitially, PTL DEF Spec

-----------------------------------------------------------------------------
(* A thread that waits for its mark waits for everything before it *)

\* c is in notifyAndWaitForCompletion().
Awaiting(c) == pc[c] \in {"counting", "marking", "notifying", "waiting", "passing", "testing"}

\* The marks that have been read, or are in the queue, were counted; and the count of
\* entries is right.
MarksCounted ==
  /\ put = got + Len(inputQueue)
  /\ lastMark <= markCount
  /\ \A i \in 1..Len(inputQueue) :
       inputQueue[i].kind = "mark" => inputQueue[i].seq <= markCount

\* A mark as high as c's own was put behind the entries c waits for: it is still to
\* be counted, or has been read after them, or is behind them in the queue.
Awaited(c) ==
  /\ c \in Waiter
  /\ sequence[c] = IF pc[c] = "counting" THEN markCount + 1 ELSE markCount
  /\ target[c] <= put
  /\ lastMark < sequence[c] \/ target[c] <= got
  /\ \A i \in 1..Len(inputQueue) :
       inputQueue[i].kind = "mark" /\ inputQueue[i].seq >= sequence[c] => target[c] <= got + i

Marks == MarksCounted /\ \A c \in Client : Awaiting(c) => Awaited(c)

\* A step that touches neither the queue nor the marks, nor what a waiting thread
\* remembers, and lets no thread begin to wait.
LEMMA MarksUntouched ==
  ASSUME Marks, UNCHANGED <<queueVars, markVars, sequence, target>>,
         \A c \in Client : Awaiting(c)' => /\ Awaiting(c)
                                           /\ pc'[c] = "counting" <=> pc[c] = "counting"
  PROVE  Marks'
<1>1. MarksCounted'
  BY DEF Marks, MarksCounted, queueVars, markVars
<1>2. ASSUME NEW c \in Client, Awaiting(c)' PROVE Awaited(c)'
  <2>1. Awaited(c)
    BY <1>2 DEF Marks
  <2>2. pc'[c] = "counting" <=> pc[c] = "counting"
    BY <1>2
  <2> QED  BY <2>1, <2>2 DEF Awaited, queueVars, markVars
<1> QED  BY <1>1, <1>2 DEF Marks

\* An entry put at the end of the queue, unless it is a mark that was never counted.
LEMMA MarksPut ==
  ASSUME TypeOK, Marks, NEW entry \in Entry, Put(entry),
         entry.kind = "mark" => entry.seq <= markCount,
         UNCHANGED <<markVars, sequence, target>>,
         \A c \in Client : Awaiting(c)' => /\ Awaiting(c)
                                           /\ pc'[c] = "counting" <=> pc[c] = "counting"
  PROVE  Marks'
<1>1. /\ inputQueue \in Seq(Entry) /\ put \in Nat /\ got \in Nat
      /\ target \in [Client -> Nat] /\ sequence \in [Client -> Nat]
      /\ Len(inputQueue) \in Nat
  BY DEF TypeOK
<1>2. inputQueue' = Append(inputQueue, entry) /\ put' = put + 1 /\ got' = got
  BY DEF Put
<1>3. /\ Len(inputQueue') = Len(inputQueue) + 1
      /\ \A i \in 1..Len(inputQueue) : inputQueue'[i] = inputQueue[i]
      /\ inputQueue'[Len(inputQueue) + 1] = entry
  <2> HIDE DEF Entry
  <2> QED  BY <1>1, <1>2
<1>4. \A i \in 1..Len(inputQueue') : i \in 1..Len(inputQueue) \/ i = Len(inputQueue) + 1
  BY <1>1, <1>3
<1>5. MarksCounted
  BY DEF Marks
<1>6. MarksCounted'
  <2>1. put' = got' + Len(inputQueue')
    BY <1>1, <1>2, <1>3, <1>5 DEF MarksCounted
  <2>2. lastMark' <= markCount'
    BY <1>5 DEF MarksCounted, markVars
  <2>3. ASSUME NEW i \in 1..Len(inputQueue'), inputQueue'[i].kind = "mark"
        PROVE  inputQueue'[i].seq <= markCount'
    <3>1. CASE i \in 1..Len(inputQueue)
      BY <1>3, <1>5, <2>3, <3>1 DEF MarksCounted, markVars
    <3>2. CASE i = Len(inputQueue) + 1
      BY <1>3, <2>3, <3>2 DEF markVars
    <3> QED  BY <1>4, <3>1, <3>2
  <2> QED  BY <2>1, <2>2, <2>3 DEF MarksCounted
<1>7. ASSUME NEW c \in Client, Awaiting(c)' PROVE Awaited(c)'
  <2>1. Awaited(c)
    BY <1>7 DEF Marks
  <2>2. pc'[c] = "counting" <=> pc[c] = "counting"
    BY <1>7
  <2>3. target[c] \in Nat /\ target'[c] = target[c] /\ sequence'[c] = sequence[c]
    BY <1>1
  <2>4. target'[c] <= put'
    BY <1>1, <1>2, <2>1, <2>3 DEF Awaited
  <2>5. ASSUME NEW i \in 1..Len(inputQueue'),
               inputQueue'[i].kind = "mark", inputQueue'[i].seq >= sequence'[c]
        PROVE  target'[c] <= got' + i
    <3>1. CASE i \in 1..Len(inputQueue)
      BY <1>2, <1>3, <2>1, <2>3, <2>5, <3>1 DEF Awaited
    <3>2. CASE i = Len(inputQueue) + 1
      <4>1. got' + i = put + 1
        BY <1>1, <1>2, <1>5, <3>2 DEF MarksCounted
      <4>2. target[c] <= put
        BY <2>1 DEF Awaited
      <4> QED  BY <1>1, <2>3, <4>1, <4>2
    <3> QED  BY <1>4, <3>1, <3>2
  <2> QED  BY <1>2, <2>1, <2>2, <2>3, <2>4, <2>5 DEF Awaited, markVars
<1> QED  BY <1>6, <1>7 DEF Marks

\* processQueue() takes an entry and, if it is a mark, records it.
LEMMA MarksTaken ==
  ASSUME TypeOK, Marks, ProcessEntry
  PROVE  Marks'
<1> DEFINE entry == Head(inputQueue)
<1>1. /\ inputQueue \in Seq(Entry) /\ put \in Nat /\ got \in Nat
      /\ target \in [Client -> Nat] /\ sequence \in [Client -> Nat]
      /\ Len(inputQueue) \in Nat /\ lastMark \in Nat /\ markCount \in Nat
  BY DEF TypeOK
<1>2. /\ inputQueue # <<>> /\ inputQueue' = Tail(inputQueue) /\ put' = put /\ got' = got + 1
      /\ pc' = pc /\ sequence' = sequence /\ target' = target /\ markCount' = markCount
      /\ lastMark' = IF entry.kind = "mark" THEN entry.seq ELSE lastMark
  BY DEF ProcessEntry, MarkProcessed, clientVars
<1>3. /\ Len(inputQueue) > 0 /\ Len(inputQueue') = Len(inputQueue) - 1
      /\ entry = inputQueue[1]
      /\ \A i \in 1..Len(inputQueue') : i + 1 \in 1..Len(inputQueue)
                                        /\ inputQueue'[i] = inputQueue[i + 1]
  <2> HIDE DEF Entry
  <2> QED  BY <1>1, <1>2
<1> HIDE DEF entry
<1>4. entry.kind = "mark" => entry.seq \in Nat
  BY <1>2, TakenTyped DEF entry
<1>5. 1 \in 1..Len(inputQueue)
  BY <1>1, <1>3
<1>6. MarksCounted
  BY DEF Marks
<1>7. MarksCounted'
  <2>1. put' = got' + Len(inputQueue')
    BY <1>1, <1>2, <1>3, <1>6 DEF MarksCounted
  <2>2. lastMark' <= markCount'
    BY <1>2, <1>3, <1>5, <1>6 DEF MarksCounted
  <2>3. ASSUME NEW i \in 1..Len(inputQueue'), inputQueue'[i].kind = "mark"
        PROVE  inputQueue'[i].seq <= markCount'
    BY <1>2, <1>3, <1>6, <2>3 DEF MarksCounted
  <2> QED  BY <2>1, <2>2, <2>3 DEF MarksCounted
<1>8. ASSUME NEW c \in Client, Awaiting(c)' PROVE Awaited(c)'
  <2>1. Awaited(c)
    BY <1>2, <1>8 DEF Marks, Awaiting
  <2>2. target[c] \in Nat /\ sequence[c] \in Nat
    BY <1>1
  <2>3. lastMark' < sequence'[c] \/ target'[c] <= got'
    <3>1. CASE entry.kind = "mark"
      <4>1. CASE entry.seq < sequence[c]
        BY <1>2, <3>1, <4>1
      <4>2. CASE entry.seq >= sequence[c]
        <5>1. target[c] <= got + 1
          BY <1>3, <1>5, <2>1, <3>1, <4>2 DEF Awaited
        <5> QED  BY <1>2, <5>1
      <4> QED  BY <1>4, <2>2, <3>1, <4>1, <4>2
    <3>2. CASE entry.kind # "mark"
      <4>1. lastMark < sequence[c] \/ target[c] <= got
        BY <2>1 DEF Awaited
      <4> QED  BY <1>1, <1>2, <2>2, <3>2, <4>1
    <3> QED  BY <3>1, <3>2
  <2>4. ASSUME NEW i \in 1..Len(inputQueue'),
               inputQueue'[i].kind = "mark", inputQueue'[i].seq >= sequence'[c]
        PROVE  target'[c] <= got' + i
    <3>1. target[c] <= got + (i + 1)
      BY <1>2, <1>3, <2>1, <2>4 DEF Awaited
    <3> QED  BY <1>1, <1>2, <2>2, <3>1
  <2> QED  BY <1>2, <2>1, <2>3, <2>4 DEF Awaited
<1> QED  BY <1>7, <1>8 DEF Marks

LEMMA WorkerMarks ==
  ASSUME TypeOK, Marks, Worker
  PROVE  Marks'
<1> USE DEF clientVars
<1>1. CASE ProcessEntry
  BY <1>1, MarksTaken
<1>2. CASE StepExec
  <2>1. UNCHANGED <<clientVars, markVars>>
    BY <1>2 DEF StepExec
  <2>2. \A c \in Client : Awaiting(c)' => /\ Awaiting(c)
                                          /\ pc'[c] = "counting" <=> pc[c] = "counting"
    BY <2>1 DEF Awaiting
  <2>3. CASE UNCHANGED queueVars
    BY <2>1, <2>2, <2>3, MarksUntouched
  <2>4. CASE Put([kind |-> "event"])
    <3>1. [kind |-> "event"] \in Entry
      BY DEF Entry
    <3> QED  BY <2>1, <2>2, <2>4, <3>1, MarksPut
  <2> QED  BY <1>2, <2>3, <2>4 DEF StepExec
<1>3. ASSUME UNCHANGED <<clientVars, queueVars, markVars>> PROVE Marks'
  <2>1. \A c \in Client : Awaiting(c)' => /\ Awaiting(c)
                                          /\ pc'[c] = "counting" <=> pc[c] = "counting"
    BY <1>3 DEF Awaiting
  <2> QED  BY <1>3, <2>1, MarksUntouched
<1>4. CASE QueueProcessed \/ CleanUp \/ PostAllFinished \/ PostMark
  BY <1>3, <1>4 DEF QueueProcessed, CleanUp, PostAllFinished, PostMark
<1>5. CASE WaitForExternalEvent \/ IgnoreEvent \/ RunExec \/ AcknowledgeStop
  BY <1>3, <1>5 DEF WaitForExternalEvent, IgnoreEvent, RunExec, AcknowledgeStop
<1> QED
  BY <1>1, <1>2, <1>4, <1>5 DEF Worker

\* A thread goes from one place to another, the others stay.
LEMMA OneGoes ==
  ASSUME TypeOK, NEW c \in Client, NEW to, Go(c, to),
         (to \in {"marking", "notifying", "waiting", "passing", "testing"}
          /\ Awaiting(c) /\ pc[c] # "counting")
         \/ to \notin {"counting", "marking", "notifying", "waiting", "passing", "testing"}
  PROVE  \A d \in Client : Awaiting(d)' => /\ Awaiting(d)
                                           /\ pc'[d] = "counting" <=> pc[d] = "counting"
<1>1. pc'[c] = to /\ \A d \in Client : d # c => pc'[d] = pc[d]
  BY DEF Go, TypeOK
<1> QED  BY <1>1 DEF Awaiting

LEMMA MainMarks ==
  ASSUME TypeOK, Marks, MainContinues \/ MainCalls
  PROVE  Marks'
<1> USE ClientAssumption DEF clientVars
<1>1. ASSUME NEW p \in Plan, QueuePlan(p)
      PROVE  Marks'
  <2>1. [kind |-> "plan", plan |-> p] \in Entry
    BY DEF Entry
  <2>2. Put([kind |-> "plan", plan |-> p]) /\ UNCHANGED <<markVars, sequence, target>>
    BY <1>1 DEF QueuePlan
  <2>3. \A d \in Client : Awaiting(d)' => /\ Awaiting(d)
                                          /\ pc'[d] = "counting" <=> pc[d] = "counting"
    BY <1>1, OneGoes DEF QueuePlan
  <2> QED  BY <2>1, <2>2, <2>3, MarksPut
<1>2. CASE WaitForPlanFinished
  <2>1. \A c \in Client : Awaiting(c)' => /\ Awaiting(c)
                                          /\ pc'[c] = "counting" <=> pc[c] = "counting"
    BY <1>2 DEF WaitForPlanFinished, Awaiting
  <2> QED  BY <1>2, <2>1, MarksUntouched DEF WaitForPlanFinished
<1>3. CASE PlanLoaded \/ Stop \/ Rouse
  <2>1. \A d \in Client : Awaiting(d)' => /\ Awaiting(d)
                                          /\ pc'[d] = "counting" <=> pc[d] = "counting"
    BY <1>3, OneGoes DEF PlanLoaded, Stop, Rouse
  <2> QED  BY <1>3, <2>1, MarksUntouched DEF PlanLoaded, Stop, Rouse
<1>4. CASE RequestStop \/ PostStop \/ Halt \/ Join
  <2>1. \A d \in Client : Awaiting(d)' => /\ Awaiting(d)
                                          /\ pc'[d] = "counting" <=> pc[d] = "counting"
    BY <1>4, OneGoes DEF RequestStop, PostStop, Halt, Join
  <2> QED  BY <1>4, <2>1, MarksUntouched DEF RequestStop, PostStop, Halt, Join
<1> QED
  BY <1>1, <1>2, <1>3, <1>4 DEF MainContinues, MainCalls

\* markQueue()'s two halves.  A second waiting thread could write back a lower count
\* between them.
LEMMA CountingMarks ==
  ASSUME TypeOK, Marks, NEW c \in Client, ReadMarkCount(c) \/ WriteMarkCount(c),
         \A d, e \in Waiter : d = e
  PROVE  Marks'
<1>1. /\ pc \in [Client -> ClientPC] /\ sequence \in [Client -> Nat]
      /\ target \in [Client -> Nat]
      /\ markCount \in Nat /\ lastMark \in Nat /\ put \in Nat /\ got \in Nat
      /\ Len(inputQueue) \in Nat
  BY DEF TypeOK
<1>2. MarksCounted
  BY DEF Marks
<1>3. \A i \in 1..Len(inputQueue) : inputQueue[i].kind = "mark" => inputQueue[i].seq \in Nat
  <2>1. \A i \in 1..Len(inputQueue) : inputQueue[i] \in Entry
    <3> HIDE DEF Entry
    <3> QED  BY DEF TypeOK
  <2> QED  BY <2>1 DEF Entry
<1>4. inputQueue' = inputQueue /\ put' = put /\ got' = got /\ lastMark' = lastMark
  BY DEF ReadMarkCount, WriteMarkCount, queueVars, markVars
<1>5. CASE ReadMarkCount(c)
  <2>1. /\ c \in Waiter /\ markCount' = markCount
        /\ pc'[c] = "counting" /\ sequence'[c] = markCount + 1 /\ target'[c] = put
        /\ \A d \in Client : d # c => /\ pc'[d] = pc[d] /\ sequence'[d] = sequence[d]
                                      /\ target'[d] = target[d]
    BY <1>1, <1>5 DEF ReadMarkCount, Go, markVars
  <2>2. MarksCounted'
    BY <1>2, <1>4, <2>1 DEF MarksCounted
  <2>3. Awaited(c)'
    <3>1. lastMark < markCount + 1
      BY <1>1, <1>2 DEF MarksCounted
    <3>2. \A i \in 1..Len(inputQueue) :
            ~(inputQueue[i].kind = "mark" /\ inputQueue[i].seq >= markCount + 1)
      BY <1>1, <1>2, <1>3 DEF MarksCounted
    <3> QED  BY <1>1, <1>4, <2>1, <3>1, <3>2 DEF Awaited
  <2>4. ASSUME NEW d \in Client, d # c, Awaiting(d)' PROVE Awaited(d)'
    <3>1. Awaiting(d)
      BY <2>1, <2>4 DEF Awaiting
    <3>2. Awaited(d)
      BY <3>1 DEF Marks
    <3> QED  BY <1>4, <2>1, <2>4, <3>2 DEF Awaited
  <2> QED  BY <2>2, <2>3, <2>4 DEF Marks
<1>6. CASE WriteMarkCount(c)
  <2>1. /\ pc[c] = "counting" /\ pc'[c] = "marking" /\ markCount' = sequence[c]
        /\ sequence' = sequence /\ target' = target
        /\ \A d \in Client : d # c => pc'[d] = pc[d]
    BY <1>1, <1>6 DEF WriteMarkCount, Go
  <2>2. Awaited(c)
    BY <2>1 DEF Marks, Awaiting
  <2>3. markCount' = markCount + 1
    BY <2>1, <2>2 DEF Awaited
  <2>4. MarksCounted'
    <3>1. lastMark <= markCount + 1
      BY <1>1, <1>2 DEF MarksCounted
    <3>2. \A i \in 1..Len(inputQueue) :
            inputQueue[i].kind = "mark" => inputQueue[i].seq <= markCount + 1
      BY <1>1, <1>2, <1>3 DEF MarksCounted
    <3> QED  BY <1>2, <1>4, <2>3, <3>1, <3>2 DEF MarksCounted
  <2>5. Awaited(c)'
    BY <1>4, <2>1, <2>2 DEF Awaited
  <2>6. ASSUME NEW d \in Client, d # c PROVE ~Awaiting(d)'
    <3>1. Awaiting(d) => d \in Waiter
      BY DEF Marks, Awaited
    <3>2. c \in Waiter
      BY <2>2 DEF Awaited
    <3>3. ~Awaiting(d)
      BY <2>6, <3>1, <3>2
    <3> QED  BY <2>1, <2>6, <3>3 DEF Awaiting
  <2> QED  BY <2>4, <2>5, <2>6 DEF Marks
<1> QED  BY <1>5, <1>6

LEMMA ClientMarks ==
  ASSUME TypeOK, Marks, NEW c \in Client, Continue(c) \/ Call(c),
         \A d, e \in Waiter : d = e
  PROVE  Marks'
<1> USE DEF clientVars
<1>1. CASE PutEntry(c)
  <2>1. [kind |-> "event"] \in Entry
    BY DEF Entry
  <2>2. Put([kind |-> "event"]) /\ UNCHANGED <<markVars, sequence, target>>
    BY <1>1 DEF PutEntry
  <2>3. \A d \in Client : Awaiting(d)' => /\ Awaiting(d)
                                          /\ pc'[d] = "counting" <=> pc[d] = "counting"
    BY <1>1, OneGoes DEF PutEntry
  <2> QED  BY <2>1, <2>2, <2>3, MarksPut
<1>2. CASE PutMark(c)
  <2>1. Awaited(c)
    BY <1>2 DEF PutMark, Marks, Awaiting
  <2>2. sequence[c] <= markCount /\ sequence[c] \in Nat
    BY <1>2, <2>1 DEF PutMark, Awaited, TypeOK
  <2>3. [kind |-> "mark", seq |-> sequence[c]] \in Entry
    BY <2>2 DEF Entry
  <2>4. Put([kind |-> "mark", seq |-> sequence[c]]) /\ UNCHANGED <<markVars, sequence, target>>
    BY <1>2 DEF PutMark
  <2>5. \A d \in Client : Awaiting(d)' => /\ Awaiting(d)
                                          /\ pc'[d] = "counting" <=> pc[d] = "counting"
    BY <1>2, OneGoes DEF PutMark, Awaiting
  <2> QED  BY <2>2, <2>3, <2>4, <2>5, MarksPut
<1>3. CASE ReadMarkCount(c) \/ WriteMarkCount(c)
  BY <1>3, CountingMarks
<1>4. CASE NotifyExec(c) \/ NotifyOfMark(c) \/ WaitForMark(c) \/ PassMark(c) \/ TestMark(c)
  <2>1. \A d \in Client : Awaiting(d)' => /\ Awaiting(d)
                                          /\ pc'[d] = "counting" <=> pc[d] = "counting"
    BY <1>4, OneGoes DEF NotifyExec, NotifyOfMark, WaitForMark, PassMark, TestMark, Awaiting
  <2> QED
    BY <1>4, <2>1, MarksUntouched DEF NotifyExec, NotifyOfMark, WaitForMark, PassMark, TestMark
<1>5. CASE Suspend(c)
  <2>1. \A d \in Client : Awaiting(d)' => /\ Awaiting(d)
                                          /\ pc'[d] = "counting" <=> pc[d] = "counting"
    BY <1>5 DEF Suspend, Awaiting
  <2> QED  BY <1>5, <2>1, MarksUntouched DEF Suspend
<1>6. CASE Resume(c)
  <2>1. \A d \in Client : Awaiting(d)' => /\ Awaiting(d)
                                          /\ pc'[d] = "counting" <=> pc[d] = "counting"
    BY <1>6, OneGoes DEF Resume, AfterResume
  <2> QED  BY <1>6, <2>1, MarksUntouched DEF Resume
<1> QED
  BY <1>1, <1>2, <1>3, <1>4, <1>5, <1>6 DEF Continue, Call

\* notifyAndWaitForCompletion() waits for every entry that was in the queue when it was
\* called, as long as one thread at most makes that call: nothing protects ++m_markCount,
\* and a thread that writes back an old count lowers the marks of those after it.
THEOREM WaitersWaitForAll ==
  ASSUME \A c, d \in Waiter : c = d
  PROVE  Spec => WaitedForAll
<1>1. TypeOK /\ Marks /\ [Next]_vars => TypeOK' /\ Marks'
  <2>1. Marks /\ UNCHANGED vars => Marks'
    <3> SUFFICES ASSUME Marks, UNCHANGED vars PROVE Marks'
      OBVIOUS
    <3>1. UNCHANGED <<clientVars, queueVars, markVars>>
      BY DEF vars
    <3>2. \A c \in Client : Awaiting(c)' => /\ Awaiting(c)
                                            /\ pc'[c] = "counting" <=> pc[c] = "counting"
      BY <3>1 DEF clientVars, Awaiting
    <3> QED  BY <3>1, <3>2, MarksUntouched DEF clientVars
  <2> QED  BY <2>1, TypeInductive, WorkerMarks, ClientMarks, MainMarks DEF Next
<1>2. TypeOK /\ Marks /\ [Next]_vars
      => [\A c \in Client : pc[c] = "testing" /\ pc'[c] = "idle" => got >= target[c]]_vars
  <2> SUFFICES ASSUME TypeOK, Marks, Next,
                      NEW c \in Client, pc[c] = "testing", pc'[c] = "idle"
               PROVE  got >= target[c]
    OBVIOUS
  <2>1. Awaited(c)
    BY DEF Marks, Awaiting
  <2>2. \A d \in Client : \A to : Go(d, to) => d = c \/ pc'[c] = pc[c]
    BY DEF Go, TypeOK
  <2>3. TestMark(c)
    <3>1. CASE Worker
      <4>1. pc' = pc
        BY <3>1 DEF Worker, ProcessEntry, QueueProcessed, StepExec, CleanUp, PostAllFinished,
                    PostMark, WaitForExternalEvent, IgnoreEvent, RunExec, AcknowledgeStop,
                    clientVars
      <4> QED  BY <4>1
    <3>2. CASE MainContinues \/ MainCalls
      <4>1. ASSUME NEW to, Go(Main, to), pc[Main] # "testing" PROVE FALSE
        BY <2>2, <4>1, ClientAssumption
      <4>2. CASE PlanLoaded \/ Rouse \/ RequestStop \/ PostStop \/ Halt \/ Join
        BY <4>1, <4>2 DEF PlanLoaded, Rouse, RequestStop, PostStop, Halt, Join
      <4>3. CASE (\E p \in Plan : QueuePlan(p)) \/ Stop
        BY <4>1, <4>3 DEF QueuePlan, Stop
      <4>4. CASE WaitForPlanFinished
        BY <4>4 DEF WaitForPlanFinished, clientVars
      <4> QED  BY <3>2, <4>2, <4>3, <4>4 DEF MainContinues, MainCalls
    <3>3. ASSUME NEW d \in Client, Continue(d) \/ Call(d)
          PROVE  TestMark(c)
      <4>1. ASSUME NEW to, Go(d, to), pc[d] # "testing" PROVE FALSE
        BY <2>2, <4>1
      <4>2. CASE NotifyExec(d) \/ WriteMarkCount(d) \/ PutMark(d) \/ NotifyOfMark(d)
        BY <4>1, <4>2 DEF NotifyExec, WriteMarkCount, PutMark, NotifyOfMark
      <4>3. CASE WaitForMark(d) \/ PassMark(d) \/ PutEntry(d) \/ ReadMarkCount(d)
        BY <4>1, <4>3 DEF WaitForMark, PassMark, PutEntry, ReadMarkCount
      <4>4. CASE Resume(d)
        BY <4>1, <4>4 DEF Resume
      <4>5. CASE Suspend(d)
        BY <4>5 DEF Suspend, clientVars
      <4>6. CASE TestMark(d)
        <5>1. d = c
          BY <2>2, <4>6 DEF TestMark
        <5> QED  BY <4>6, <5>1
      <4> QED  BY <3>3, <4>2, <4>3, <4>4, <4>5, <4>6 DEF Continue, Call
    <3> QED  BY <3>1, <3>2, <3>3 DEF Next
  <2>4. MarkReached(c)
    BY <2>3 DEF TestMark, Go, TypeOK
  <2>5. lastMark \in Nat /\ sequence[c] \in Nat /\ got \in Nat /\ target[c] \in Nat
    BY DEF TypeOK
  <2>6. ~(lastMark < sequence[c])
    BY <2>4, <2>5 DEF MarkReached
  <2>7. target[c] <= got
    BY <2>1, <2>6 DEF Awaited
  <2> QED  BY <2>5, <2>7
<1>3. Init => Marks
  BY DEF Init, Marks, MarksCounted, Awaiting
<1> QED
  BY <1>1, <1>2, <1>3, TypeInitially, PTL DEF Spec, WaitedForAll

=============================================================================
