# A formal model of the PLEXIL executive

PLEXIL is a language for plans and an executive that runs them. A plan is a tree
of nodes; each node has conditions (start, skip, end, exit, invariant, ...), and
when they change the node moves between the states INACTIVE, WAITING, EXECUTING,
FINISHING, FAILING, ITERATION_ENDED and FINISHED, sending commands, assignments
and updates as it goes. These modules model the executive (`src/src/exec`), the threads
around it (`src/src/app-framework`), the resource arbiter and the lookups
(`src/src/intfc`), the timer that wakes the executive, and the requests it sends over
IPC (`src/src/interfaces`). TLC checks them on small instances, and TLAPS proves the
central invariants for every instance.

Paths below are relative to `src/src`.

| module | what it is |
| --- | --- |
| `NodeTransitions` | `getDestState()`: where a node goes, from its type, state and conditions |
| `NodeConditions` | plans; the value, activation, inheritance and listeners of conditions |
| `NodeActivation` | how often conditions and variables are activated and deactivated |
| `PlexilExec` | the executive: queues, mutexes, transitions, effects, replies (EXTENDS the two above) |
| `Reservations` | what the executive promises about mutexes and variables: the abstract specification that `PlexilExec` implements |
| `ExecApplication` | the threads, semaphores and input queue around the executive |
| `ResourceArbiter` | which commands of a step are accepted, and what they hold |
| `StateCache` | lookups, their thresholds, and the cached states they read |
| `TimeWakeups` | lookups of the time, the time adapter and its timer |
| `IpcRequests` | lookups and commands over IPC, and the messages that answer them |
| `Plans`, `MCMutexes`, `MCNodes`, `MCPending` | the plans that TLC explores |
| `MCArbiter`, `MCLookups`, `MCClock` | the instances of the other modules |
| `DataLemmas` | facts about sequences without repetition, least elements and the helpers of the community modules |
| `PlexilExecProofs`, `PlexilExecInvariants` | proofs about the executive: exclusion, types and `Reservations`; what else it keeps true, priorities, holders and rest |
| `ExecApplicationProofs`, `ResourceArbiterProofs`, `StateCacheProofs`, `TimeWakeupsProofs`, `IpcRequestsProofs` | proofs about the threads, the arbiter, the lookups, the timer and the requests |

How they fit together: `PlexilExec` is the executive's thread during a step. What it
asks of others it leaves open: whether the arbiter accepts a command, when a lookup
changes, when and what an interface answers. `ResourceArbiter`, `StateCache` and
`IpcRequests` take the other side of these three, each with the executive reduced to
the calls it makes. `ExecApplication` and `TimeWakeups` are about what happens between
steps: who wakes the executive, and when.

## 1. Inventory

### The node state machine — `exec/NodeImpl.cc`, `ListNode.cc`, `CommandNode.cc`, `AssignmentNode.cc`, `UpdateNode.cc`, `LibraryCallNode.cc`
State: per node, its state, outcome, failure type, the next state, outcome and
failure type that `getDestState()` computed, its queue status, its conditions.
Operations: `getDestState()` (one function per state), `transition()` (out of one
state, into the next), `notify()`, `notifyResourceAvailable()`, mutex acquisition
and release. Interacts with the executive, which calls all of these, and with its
conditions, which call `notify()`. Hard: a decision is stored and used later, after
other nodes have moved; a node can be interrupted in every state, by itself, by any
ancestor's exit, invariant or end, or by a failure of a command. Correct when a node
moves only along the documented diagram, ends with an outcome that matches its
failure type, runs only while its parent runs, and gives up what it holds.

### Conditions and notification — `exec/NodeImpl.cc`, `exec/ListNode.cc`, `expr/Notifier.cc`, `expr/Propagator.cc`
State: activation counts and listener lists of every expression. Operations:
activate, deactivate, publish a change. Hard: a condition only notifies while it is
active, ancestor conditions are active only while the ancestor runs, and the whole
executive is event driven: a missed notification is a node that never moves.
Correct when every change that could let a node move makes it a candidate.

### The executive's step — `exec/PlexilExec.cc`, `utils/LinkedQueue.hh`
State: candidate, pending, state change and finished queues, linked through the
nodes themselves (a node can be in one only); queues of assignments, commands,
aborts and updates. Operations: `step()` (drain candidates, resolve resource
conflicts, perform transitions, repeat; then execute what was queued),
`addPlan()`, `deleteFinishedPlans()`, `allPlansFinished()`. Hard: the nine-valued
queue status that stands for membership, priorities with ties, removal from the
middle of a walk, decisions of a batch that depend on each other. Correct when
status and queues agree, no change and no release is missed, priority is respected,
the loop ends, and no queue refers to a deleted node.

### Mutexes and variable reservation — `exec/Mutex.cc`, `expr/Reservable.cc`
State: holder and waiting nodes of each resource. Operations: acquire, release,
with roll back when not all can be had. Hard: opposite orders, partial acquisition,
waiters that have lost interest. Correct: mutual exclusion; a holder is running.

### Assignments, variables — `exec/Assignment.cc`, `exec/AssignmentNode.cc`, `expr/UserVariable.cc`
State: value, saved value, acknowledgement. Execute, retract. Hard: several
assignments to one variable, aborted half way. Correct when an assignment is atomic:
its value on success, the old one on abort.

### Commands and updates — `intfc/CommandImpl.cc`, `intfc/Update.hh`
State: handle, return value, abort-complete. Operations: send, abort, and the
replies. Hard: replies come late, twice, or to an execution that is over. Correct when
what is sent is what the node waits for.

### The resource arbiter — `intfc/ResourceArbiterInterface.cc`
State: what is allocated of each resource, what each command was given; a hierarchy of
resources read at start. Operations: `arbitrateCommands()` once per step, on all the
commands of the step; `releaseResourcesForCommand()` when a command's node is done.
Hard: a command is considered after better ones and must not see what a rejected one
asked for; a request stands for all resources below it; some resources are given back
at the end and some are used up; the handle decides whether anything is given back at
all. Correct when nothing is booked beyond its capacity, a command is denied only for
the sake of better ones, and what is given back is what was taken.

### Lookups and the state cache — `intfc/StateCache.cc`, `StateCacheEntry.cc`, `Lookup.cc`, `CachedValueImpl.cc`
State: per state a value and the cycle it was stamped with, the lookups registered and
the bounds told to the interface; per change lookup a threshold cache. Operations:
activate and deactivate a lookup, change of its name, parameters or tolerance, a value
from the interface. Hard: one function, `updateInternal()`, answers for all of these
changes, in any order and with unknowns; bounds are shared by lookups that come and go.
Correct when a lookup shows the state up to its tolerance, tells of every change, and
the interface withholds nothing that is needed.

### Waiting for a time — `app-framework/TimeAdapter.cc`, `PosixTimebase.cc`
State: one timer, `m_nextWakeup`, the thresholds of the lookups of `time`. Operations:
`setThresholds()` and `setTimer()` on the executive's thread, `timeout()` on the
timer's thread, which may set the timer again. Hard: two threads use the timer with no
lock; the clock moves between a test and its use; the timer may be early or late.
Correct when every time that a lookup waits for is passed on.

### Requests over IPC — `interfaces/IpcUtils/IpcFacade.cc`, `interfaces/IpcAdapter/IpcAdapter.cc`
State: messages that have come in part, the lookup that waits for an answer, the
commands sent so far. Operations: on the executive's thread, send a lookup and wait,
send a command; on the dispatch thread, put a message together, find who it answers.
Hard: a request is recorded after it has been sent; answers come late, twice or from an
agent that was not asked; the packets of several agents are mixed. Correct when an
answer reaches the one who asked and nobody else.

### The application — `app-framework/ExecApplication.cc`, `InterfaceManager.cc`, `SerializedInputQueue.cc`, `utils/ThreadSemaphore.cc`
State: input queue, mark counters, four semaphores, flags for stop, suspension and
plan loading. Operations: the worker thread; from other threads, putting entries,
`notifyExec()`, `notifyAndWaitForCompletion()`, `addPlan()`,
`waitForPlanFinished()`, suspend, resume, stop. Hard: everything is an interleaving
of threads over plain variables and counting semaphores. Correct when no wakeup is
lost, waiters return, and only when what they wait for has happened.

### The rest
The other timebases, `MessageAdapter` (message handles), adapters, listeners and their
configuration, values and expressions (pure functions), the XML parser, the UDP and LUV
interfaces, the executables, the compilers and viewers. `PROJECT.json` lists each with its status and why it is or is not modelled.

## 2. How the models correspond to the code

### `NodeTransitions`
Pure. `DestState(type, s, c)` is `getDestState()`; `FromWaiting`, `FromExecuting`, ...
are the functions it dispatches to, each a CASE in the order of the code's tests.
Values are three-valued ("T", "F", "U"); `check_false` and the like are comparisons.
`LegalSuccessor` is the diagram in the comments of the source and the reference
`getDestState()` is proved against.

### `NodeConditions`
Constants describe a plan: `Parent`, `Type`, `Priority`, `Using` (mutexes in order),
`Dest`, `Rhs`, `Owner`, `Initial`. `Conditions` is a set of assignments of
conditions, one of which is chosen by `Init`, so one run explores a family of plans.
A condition is one expression: a constant, a lookup, a variable, or a test of a
node's state; operators between them would only merge sources of change.
`Active`, `AncestorActive` and `Listeners` replace the reference counts and listener
lists of `Notifier`: what is active is a function of the node states, with the one
place where the counts do not return to zero, the exit condition of a command node
(`exitLeaked`). `NodeActivation` has the counts, and checks that they come to this. Listeners are called in one fixed order (`InOrder`), and a node that
listens to one source through several expressions is told once.

### `PlexilExec`
`candidateQueue`, `pendingQueue`, `stateChangeQueue`, `finishedRootNodes`,
`queueStatus`, `holder`, `waiters`, `next` are the fields of the same names.
`phase`, `cursor` and `priorityNodes` are the program counter and locals of `step()`
and `resolveResourceConflicts()`. `fault` names an assertion that failed, after
which nothing happens.

| action | code |
| --- | --- |
| `StartStep`, `CheckCandidate`, `AllChecked` | `step()`: the candidate loop |
| `KeepPending`, `DropPending` | `resourceCheckEligible()` on the node the walk stands on |
| `AcquireResources`, `FailToAcquire`, `GroupDone` | `tryResourceAcquisition()`, and the walk to the next priority |
| `TransitionNode`, `BatchDone` | `NodeImpl::transition()` and all it calls; the end of a pass of the quiescence loop |
| `ExecuteAssignment`, `RetractAssignment`, `ExecuteCommand`, `InvokeAbort`, `ExecuteUpdate`, `StepDone` | `performAssignments()`, `executeOutboundQueue()`, the end of the step |
| `AddPlan`, `LookupReturn`, `CommandHandleReturn`, `CommandReturn`, `CommandAbortAcknowledge`, `UpdateAcknowledge` | one entry in `processQueue()` |
| `DeleteFinishedPlans` | the same in `runExec()`, once quiescent |

`World` (the last two rows) is enabled between steps only, as in `runExec()`.
Interfaces may answer or not, refuse a command, and answer after the execution that
asked; the arbiter's decision is part of that choice. A command's result and an
acknowledged abort may come while the node is running: an answer to an earlier
execution reaches the current one, as `CommandImpl` is one object per node.

### `NodeActivation`
Counts are a bag of expressions: the conditions of each node, what a list makes for its
children out of its own condition and the one it inherits (`ForChildren`), and the
variables. `ActivatedSlots` and `DeactivatedSlots` say what a transition turns on and
off, in the `transitionFrom...()` and `transitionTo...()` functions of all node types,
`execute()` and `deactivateExecutable()`; `Raised` and `Lowered` follow `Function`,
which activates its arguments when its own count leaves zero and deactivates them when
it returns there. The counts are no variables of the model. `Expected` is what they
should be in a state, by the lists of active conditions in the comments of the source;
`CountsFollowStates` says that every transition of the executive leads from what is
expected before it to what is expected after it, and so that the counts are never
anything else; `CountsMatchStates` that `Expected` agrees with `Active`,
`AncestorActive` and `VariableActive` of `NodeConditions`. The exit condition of a
command counts to two only.

### `ExecApplication`
A thread is a program counter (`worker`, `pc`) and an action lies between two
accesses to shared variables; `++m_markCount` is therefore two actions. The
executive's step is one action; of it remain which plans finish and that an interface
may queue an answer in the middle. Semaphores are counters. The worker begins in
`step()` (`single`), then alternates `waitForExternalEvent()` and `runExec()`.

| action | code |
| --- | --- |
| `ProcessEntry`, `QueueProcessed` | `InterfaceManager::processQueue()` |
| `StepExec`, `CleanUp`, `PostAllFinished`, `PostMark` | the parts of `step()` and `runExec()` |
| `WaitForExternalEvent`, `IgnoreEvent`, `RunExec`, `AcknowledgeStop` | `waitForExternalEvent()`, `worker()` |
| `PutEntry`, `NotifyExec` | the `handle...()` calls of an interface, `notifyExec()` |
| `QueuePlan`, `PlanLoaded`, `WaitForPlanFinished` | `addPlan()`, `waitForPlanFinished()` |
| `ReadMarkCount` to `TestMark` | `notifyAndWaitForCompletion()`, `markQueue()` |
| `Suspend`, `Resume`, `Stop` to `Join` | `suspend()`, `resume()`, `stop()` |

### `Reservations`
`held` is `holder`; a client is at work while its node's state is one of `Running`
(see `AtWork` in `PlexilExec`). `Take` is `AcquireResources`; a failed attempt,
with everything taken and given back, is no step at all; `Begin` is the transition into
a running state; `LetGo` is any other transition, which gives up some, all or none of
what the node holds.

### `ResourceArbiter`
`allocated` and `reserved` are `m_allocated` and `m_cmdResMap`; `contending`,
`accepted`, `rejected` and `estimates` are the argument and the locals of
`arbitrateCommands()`. Arbitration is one call; its loop takes one action per command
so that each decision has a state of its own. Three history variables keep the account:
`spent`, what has been used for good; `lost`, what should have been given back but whose
entry has been replaced; `refused`, the commands that an interface has denied.

| action | code |
| --- | --- |
| `Enqueue` | `CommandImpl::activate()`, `fixValues()`, `PlexilExec::enqueueCommand()` |
| `BeginArbitration` | `partitionCommands()`, the sort |
| `Accept`, `Reject` | one pass of `optimalResourceArbitration()`: `Needed` is `determineAllChildResources()` and the set it fills, `Fits` the tests against the capacity, the unchanged `estimates` of `Reject` the saved ones |
| `EndArbitration` | the results in `executeOutboundQueue()`: commands sent, or `COMMAND_DENIED` |
| `Answer` | `InterfaceManager::handleCommandAck()`, `CommandImpl::setCommandHandle()`: an interface answers, in time or late, any handle, `COMMAND_DENIED` included |
| `Finish` | `CommandImpl::deactivate()`, `releaseResourcesForCommand()` |

### `StateCache`
`entry` and `fresh` are the value and the time stamp of a cache entry, `thresholds` the
threshold cache of a lookup, `bounds` those of an entry and what was last told to the
interface. `Outcome` collects what `updateInternal()` does.

| action | code |
| --- | --- |
| `Activate`, `Deactivate` | `LookupImpl::handleActivate()`, `handleDeactivate()`; `registerLookup()`, `unregisterLookup()` and `LookupOnChange`'s own |
| `Rename` | `handleChange()` after the name or a parameter: the old state is given up, the new one registered |
| `Adjust` | `handleChange()` after the tolerance: `updateInternal()` |
| `Change`, `Deliver` | an interface puts a value in the input queue; `lookupReturn()` takes it out |
| `NewCycle` | `incrementCycleCount()` |

### `TimeWakeups`
A thread has a place (`at`), the argument of its `setTimer()`, the time it has read and
the depth of its calls of `timeout()`, since `setTimer()` with a time that has passed
calls `timeout()` itself. An action lies between two accesses to the clock, the timer,
`m_nextWakeup` or the semaphore.

| action | code |
| --- | --- |
| `Check`, `Arm`, `Record` | `setTimer()`: `clock_gettime()` and the test, `timer_settime()`, `m_nextWakeup = ...` |
| `Timeout`, `Snooze`, `Notify` | `TimeAdapter::timeout()`: `getTime()`, `getNextWakeup()` and the test for an early alarm, `notifyOfExternalEvent()` |
| `Wake`, `Step`, `Sleep` | the worker wakes, `runExec()` asks for the time, steps, and ends |
| `PassOn` | `updateInternal()` of a lookup of the time: the new thresholds are told to `setThresholds()`, which sets the timer |
| `Activate`, `Deactivate` | `registerLookup()`, `unregisterLookup()` on the state `time` |
| `Fire`, `FireEarly`, `Tick` | the platform: a timer that starts a thread (`SIGEV_THREAD`), the clock |

### `IpcRequests`
A message is a leader and the trailers it announces, a packet each; a wire is a queue
per sender. A critical section is one action unless it shares something more;
`m_lookupMutex` is held while `pc` is `lookup-sent`. A command is named by the serial
number of its request.

| action | code |
| --- | --- |
| `SendLookup`, `RecordLookup`, `LookupReturns` | `IpcAdapter::lookupNow()`: the request is published, `m_pendingLookupSerial` is set, `m_lookupSem.wait()` returns |
| `SendCommand`, `RecordCommand` | `executeDefaultCommand()`: published, then entered in `m_pendingCommands` |
| `Receive` | `ipcMessageHandler()`, `cacheMessageLeader()`, `cacheMessageTrailer()`, `deliverMessages()`, and the adapter's `handleReturnValuesSequence()` and `handleTelemetryValuesSequence()` |
| `HandOver` | the rest of `handleReturnValuesSequence()` for a lookup, under the lock |
| `Answer`, `Telemetry` | other agents: `publishReturnValues()`, `publishTelemetry()` |

Definitions marked *slip* are wrong variants of the definition below them, the
plausible mistakes that the properties are tried against.

## 3. What the runs check

All bounds are in the cfg and MC files. The state graphs are finite without state
constraints: the executive's state is finite for a finite plan, and the counters of the
other modules are bounded by the number of calls or events (`Max...`).

| run | instance and bounds | states | shows |
| --- | --- | --- | --- |
| `Mutexes` | three siblings, two priorities, two mutexes listed in opposite orders, two lookups, two families of conditions | 195,000 | types, `MutualExclusion`, `OneQueue`, `QueuesAreSound`, `PriorityRespected`, `ChangesAreLegal`, `ImplementsReservations`, `StepEnds`; for steady plans `SteadyHolderIsRunning` and `SteadyNothingDangles`, for patient ones `PatientNoMissedTransition` and `PatientNoMissedRelease` |
| `Nodes` | eight nodes of five kinds, two levels of lists, one variable, one mutex, two lookups; five families of plans | 612,000 | `AssignmentIsAtomic`, `ResultsComeApart`, `MutualExclusion`, `NoFault`, `NoMissedTransition`, `EffectsMatchState`, `OutcomeMatchesFailure`, `RunsInsideParent`, `CountsMatchStates`, `CountsFollowStates` |
| `Threads` | worker, main program, one adapter; one plan, two entries, two marks, one suspension | 1,380,000 | `NoEventForgotten`, `FinishIsTold`, `WaitedForAll`, `WaiterReturns`, types |
| `Arbiter` | three commands with one to three lists of requests each, four resources, a hierarchy one level deep | 1,130,000 | `NotOverbooked`, `AccountsBalance`, `HeldWhileSent`, `GreedyByPriority` |
| `Lookups` | two states, a plain lookup, one with a fixed and one with a variable tolerance; real values 0..2 and unknown, one change under way | 2,160,000 | `InTolerance`, `BoundsAreTight`, `ChangesArePublished` |
| `Clock` | two lookups of different tolerance, one timer thread, early alarms; four ticks, two other events | 120,000 | `TimerCovers`, `WakesUp` |
| `Requests` | two agents, one state, three requests, two messages per agent | 544,000 | `WholeMessages`, `AnswersReachTheirCommand`, `AnsweredLookupWakes`, `RightAnswer` |

Why the bounds suffice. *Executive*: three contenders are the fewest for which the walk
over the pending queue has a middle and two priorities can be split by a tie; two
mutexes are the fewest for partial acquisition and opposite orders; two lookups let two
conditions change together or apart; two levels of lists are the fewest where a
condition is inherited through a node that itself inherits. *Threads*: two marks are
the fewest where a semaphore still counts an old one; a third thread adds nothing to
the worker's view, which the theorem confirms for any number. *Arbiter*: with three
commands one can be rejected between two that are considered; power is reached both by
name and through the arm; the fuel is burnt, taken in, and never given back. Deeper
hierarchies only make longer lists of needs, and the theorems hold for every depth.
*Lookups*: two change lookups are the fewest that share bounds; three values and
tolerances 1 and 2 let a value lie inside, on and outside a bound, and two changes
inside add up to one outside. *Clock*: with tolerances 1 and 2 the timer is set for the
lookup that comes first and, when that one stops, for the other; one timer thread and
the executive are the two that can set it at once; four ticks let a lookup pass the time
on twice. *Requests*: two agents give mixed packets and equal serial numbers, three
requests a lookup between two others, two messages an answer that comes twice or as
both a return value and telemetry.

*Steady* plans are those in which nothing interrupts a list: it has no end condition but
the one `ListNode` supplies, and its exit and invariant conditions are constants that do
not end it. *Patient* plans are steady ones in which a node that uses a resource is inside
a list and may start for good once it may: its start and pre conditions are true or wait
for a sibling to have finished. It may still be told to exit or be skipped while it waits,
and everything else about the plan is free. `Steady` and `Patient` are predicates of the
conditions, stated in `PlexilExec` for every plan. The family `PatientConditions` of
`MCMutexes` has such plans; the others meet the runs `LeakedMutex` and `LostWakeup` below,
which break these four properties.
`MCNodes` does not stop a plan while a command repeats, for the reason of `Orphan`; in
its family `Sharing` a command returns its result into the variable of an assignment,
and only the mutex that both use keeps `AssignmentIsAtomic` true (`ResultsComeApart`).

`Threads` stops the application; in `Clock` the clock ends; in `Requests` a lookup that
nobody answers waits for ever, as in the code, which has no time-out. These do not
check for deadlock, nor do `LostTimer` and `LostReply`, which explore the same modules.

`InTolerance` speaks of states whose changes have all been taken from the input queue.
`Lookups` uses real values, because integers fail (`StuckUnknown`). `BoundsAreTight`
asks of every value that a lookup would pass on, `updateInternal()` being called on it,
whether the interface may withhold it. It leaves out lookups whose tolerance is a
variable, and the time in which the value of the state, or the tolerance, is not known.
`HeldWhileSent` lets a command that an interface has denied keep what it held, and
`AccountsBalance` lets that get lost when the command is accepted again; no other command
keeps or loses anything. `RightAnswer` leaves out executions in which a lookup is answered
twice, and `WakesUp` and `TimerCovers` those in which two threads have used the timer at
once. See below for what happens in each of these cases.

### Where the code does not do what it says

Each of these runs is a counterexample to a sentence of the source, quoted in
`PROJECT.json`.

| run | what happens |
| --- | --- |
| `LeakedMutex` | a node interrupted by an ancestor goes from FAILING (or, an empty node, from EXECUTING) to FINISHED and keeps its mutexes: `transitionToFinished()` (NodeImpl.cc:1380) tests for WAITING where the comment says FAILING |
| `LostWakeup` | `resourceCheckEligible()` (PlexilExec.cc:505) removes a node from the pending queue and then marks it QUEUE_PENDING: no later notification makes it a candidate |
| `StuckUnknown` | a change lookup of integers whose state becomes unknown and then known again, within the old bounds, stays unknown: `thresholdsExceeded()` for Integer (Lookup.cc:663) does not ask `m_wasKnown`, the one for Real does |
| `LostTimer` | `timeout()` (TimeAdapter.cc:196) sets the timer again on the timer's thread while the executive sets it to an earlier time; the later one wins, and the executive sleeps past a time a lookup waits for |
| `LostReply` | an answer handled between the sending and the recording of its request (IpcAdapter.cc:659, 955) matches no lookup and no command, and is dropped |

Seven further configurations, run in the same way, show more:

| configuration | what happens |
| --- | --- |
| `StoppedWalk.cfg` on `MCPending` | the walk over the pending queue (PlexilExec.cc:567) follows the link of a node that has just been removed, which is null: the nodes behind it are not tried, and `NoMissedRelease` fails |
| `NotifyTwice.cfg` on `MCPending` | `notify()` (NodeImpl.cc:620) has no case for QUEUE_PENDING_TRY_CHECK and reports an invalid queue state: `NoFault` fails |
| `Orphan.cfg` on `MCNodes` | a child that repeats starts in the batch in which its finishing list ends; it ends after its list and the assertion on its inherited condition (NodeImpl.cc:1310) fails: `NoFault` fails |
| `EarlyFinish.cfg` on `ExecApplication` | the worker, between its last look at the queue and its test of `m_planLoaded`, announces that all plans have finished although none has run (PlexilExec.cc:234): `waitForPlanFinished()` returns at once: `PlanFinished` fails |
| `SilentTolerance.cfg` on `MCLookups` | a change lookup whose tolerance becomes unknown forgets the value it has shown and shows the entry's, which may differ within the old tolerance, but tells nobody (`return valueChanged; // ??`, Lookup.cc:1044): `ChangesArePublished` fails, `InTolerance` and `BoundsAreTight` hold |
| `WithheldValue.cfg` on `MCLookups` | the value of a state becomes unknown: the bounds the interface was told stay (Lookup.cc:635, 835), although the lookup would pass on any known value (Lookup.cc:684). The interface may withhold one within them, while the lookup shows unknown; LookupHandler.hh:168 says "that the Exec is only interested in new values at or outside the given bounds". `NoValueIsWithheld` fails |
| `KeptResources.cfg` on `MCArbiter` | an interface answers COMMAND_DENIED to a command that was sent, as it may (InterfaceManager.cc:168, IpcAdapter.cc:989). `deactivate()` takes it for one that the arbiter rejected (CommandImpl.cc:498) and releases nothing: what it was given stays allocated while it is idle, although `m_cmdResMap` is to hold "All currently executing commands with resource requirements." (ResourceArbiterInterface.cc:375). If the command is accepted again its entry is replaced (line 652) and the first share is lost for ever. `HoldersExecute` fails |

What was seen while reading and has no run:
- the exit condition of a command is activated twice in an execution and deactivated
  once (CommandNode.cc:205). Where it reads a variable, that variable stays active, and
  a node that declares it and runs again does not initialize it again
  (Notifier.cc:102, UserVariable.cc:231). In the plans of `MCNodes` the exit conditions
  of commands are lookups;
- a tolerance that shrinks or becomes unknown is not told to the interface
  (Lookup.cc:1009, 1031), which may go on withholding values the lookup now needs; and
  when the last lookup of a state goes, the entry forgets its bounds and the interface
  is not told to clear its own. The model does both as the code does;
- a resource that a command reaches twice counts once, as first met: inserting into a
  `std::set` does not overwrite, whatever the comment says
  (ResourceArbiterInterface.cc:312);
- a second answer to a lookup leaves a post on `m_lookupSem`, and the next lookup
  returns at once without a value (IpcAdapter.cc:962);
- `m_nextSerial` (IpcFacade.cc:1016) is incremented by two threads without protection;
- `m_pendingCommands` is never erased: a late answer goes to a command that may have
  been deleted with its plan.

### Fairness
`PlexilExec`: `WF_vars(Step)`. `runExec()` is a loop on one thread, which keeps
running. Nothing is assumed of `World`, the interfaces and the user. `StepEnds` says
that the step returns to its caller, unless nodes of the plan repeat for ever without
external events, which a plan can ask for.

`ExecApplication`: weak fairness of the worker, of the main program in what it has
begun, and of each client in what it has begun. That is what a scheduler gives a
runnable thread; a semaphore with one waiter needs no more. No thread has to make a
call: events, marks, `resume()` and `stop()` may never come. `WaiterReturns` is
therefore qualified by a suspension and by the end of the worker.

`TimeWakeups`: time passes, an armed timer whose time has come fires, every thread in
`timeout()` or `setTimer()` goes on, the worker wakes when the semaphore is up, and a
step that has begun ends. The first two are what the platform promises of a clock and a
timer, the others what a scheduler gives a runnable thread. Early alarms, other events
and lookups that start and stop need never come. `WakesUp` follows from these only
because the timer is set again after an early alarm; without that (the mutant of its
run) a single early alarm loses the time.

`ResourceArbiter`, `StateCache` and `IpcRequests` are checked for safety only: nothing
in the code obliges an interface to answer.

## 4. What is proved

Assumptions:
- of a plan: `PlanAssumption` (a plan is a function of its nodes, a node lists a mutex
  once, an assignment has a variable), `ForestAssumption` (the nodes are trees, and only
  lists have children), `ConditionsAssumption` (conditions are expressions, and only a
  list has an end condition of its own making), `ReferencesAssumption` (a condition refers
  to the state of nodes of its own plan, parseNodeReference.cc:179),
  `OrderAssumption` (each listener is called once);
- of the threads: `ClientAssumption`;
- of resources: `CapacityAssumption`, `HierarchyAssumption` and `RequestsAssumption`
  (capacities are natural numbers, requests are lists of well-typed entries), and
  `NeedsAssumption`: what a list comes to, hierarchy included, is well typed. The last
  follows from the others by induction over the depth of the hierarchy, which is out of
  the provers' reach;
- of lookups: `LookupAssumption`, `ValueAssumption` and `TimeAssumption` (values are
  integers, tolerances natural numbers; a tolerance of the time is not 0);
- `IpcAssumption`, `NoneAssumption` and `NoneIsNoPacket`: `None` is none of the values
  beside which it stands.

TLC evaluates all of them in the runs. Nothing is assumed finite, and the number of
nodes, mutexes, variables, lookups, priorities, commands, resources, timer threads,
agents and messages is free.

**The decision.** `DestStateTyped`, `DestStateLegal` and `DestStateFits`: for all types,
states and condition values, `getDestState()` yields a destination, a legal one, with
an outcome and a failure type that fit each other and the states. By cases.

**The executive.** `MutualExclusion` is not inductive: a node on the state change
queue becomes running without another look at its resources. `QueuesAreSound` adds what
makes it so:
- `CandidatesAreSound`: status CHECK is membership of the candidate queue;
- `PendingIsSound`: pending nodes are WAITING, want to execute, and are not on the
  state change queue;
- `ChangesAreSound`: what is on the state change queue has a legal move and, if it is
  to execute, already holds all its resources;
- `WalkIsSound`: what the walk has gathered is behind it and still pending.

With `TypeOK` this is inductive. `PlexilExecProofs` has a lemma for each operator on
queues (what notifying does to statuses and candidates, removal, insertion by
priority, the last two from `DataLemmas`) and one per action, then the types. The
argument for exclusion: resources go only to a pending node, all or none of them, on
its way to the state change queue; only a transition out of a running state releases,
and only its own. The results are `TypeCorrect`, `SoundQueuesAlways`, `Exclusion`,
`NothingShared` (two running nodes share no resource) and `LegalChanges` (a move
decided earlier in the batch is still legal when it is made).

**The executive implements `Reservations`.** `ReservationsImplemented`: under the
mapping of section 2 the initial states agree, `AcquireResources`, `FailToAcquire` and
`TransitionNode` are steps of `Reservations` or stutter, and every other action leaves
both variables alone. It needs `QueuesAreSound`: a node that begins to run must hold
all it needs, which `ChangesAreSound` says of the state change queue, and a failed
attempt must give back exactly what it took.

**One queue.** `NothingRefused`: no queue operation finds a node with a status it does
not accept (the fault "not queueable" of `addStateChangeNode()`, `addFinishedRootNode()`
and the assertion that a step begins with an empty state change queue). With
`QueuesAreSound` it needs `FinishedAreSound`: a finished root has the status DELETE and
nothing changes that but its deletion. `OneQueueAlways` follows: the one link of a node
serves one queue.

**Effects.** `EffectsMatch` rests on `EffectsAreSound`. Each of the five queues of what
is to be sent holds nodes of one type, once, in the state that asks for it. The
quiescence loop stops for assignments and commands, so these are never about to move;
it does not stop for updates, so a node may leave EXECUTING with its update still to be
sent, but only by failing.

**Outcomes.** `OutcomesMatch` rests on `OutcomesAreSound`, which looks a step ahead: for
a node on the state change queue, outcome and failure type as the transition will leave
them fit the state it moves to; for the others nothing is left of an earlier decision.

**Assignments.** `AssignmentsAreAtomic` has `ResultsComeApart` as hypothesis: no command
returns a result into a variable while an assignment to it runs. The code does not see
to it (CommandImpl.cc:478 writes without a reservation), the plan has to; `Nodes` checks
both, on a plan that does. The invariant `AssignmentsAreSound` says that an assignment
that has been executed or retracted finds its variable as it left it and does not move
on before; that nobody else disturbs it is exclusion.

**Priorities.** `PrioritiesRespected` rests on `PrioritiesAreSound`: the pending queue is
in priority order (`InPriorityOrder`); a node on it that does not try is blocked and
waits for each of its resources (`WaitersAreBlocked`); those the walk has passed try or
are blocked, and those it has gathered are of one priority (`PassedAreBlocked`). The
first is about `insert()` and about removals from the middle of the queue; `InsertOrder`
and `RemoveOrder` of `DataLemmas` say what these do to the order of two elements. Its
hypothesis `PendingHoldNothing`, that no node on the pending queue holds a resource, is
true in all of `Mutexes` but not of every plan. Let a list start when a lookup is true,
require it as invariant, and repeat; let its child a use a mutex, and a sibling c of the
list, of worse priority, use it too. When the lookup becomes false while a executes, a
keeps the mutex (`LeakedMutex`) and c waits for it. When the lookup is true again a
comes back, finds the mutex taken by itself, releases it, which wakes c, and waits
(`tryResourceAcquisition()`, NodeImpl.cc:680): c gets the mutex before a, and
`PriorityRespected` fails.

**Holders.** `HoldersRun`: in every execution in which no node that uses a mutex goes from
running to FINISHED (`NoMutexKept`), whoever holds a resource runs or is about to, which
is `HolderIsRunning`. So the transition that `LeakedMutex` shows is the only way to keep
a mutex too long; variables are always given back. `HoldersAreSound` adds that a holder
uses what it holds, and that one which waits has been decided to execute. `InTurn`
follows: under `NoMutexKept` nobody who waits holds anything, and priorities are
respected. `NoMutexKept` holds in every steady plan (`SteadyHoldersRun`, below).

**Rest.** `NobodyWaitsInVain`: when the executive comes to rest, every node on the pending
queue needs a resource that a running node holds. A node that waits holds nothing, so the
nodes never all wait for one another; and nobody waits for a resource that is free. This is
the half of `NoMissedRelease` that is about the resources. Two hypotheses keep out what
the code gets wrong. `NoMutexKept` is that of `HoldersRun`. `WalksGoOn` is about
`resolveResourceConflicts()`, whose walk stops at a node that leaves the queue: unless that
node is the last, it changes its state, so that the step goes on and the queue is walked
again. The code does not see to it if the node goes nowhere, or is a root that ends and
is not checked again; `StoppedWalk` is such an execution. It is
proved for patient plans (below), and TLC finds it true of all the plans of `Mutexes`,
where walks do stop early. The invariant `AllHaveTried` says, phase by
phase, that behind the walk everybody who is not blocked still tries, or a node is about to
change its state, or there is a candidate: each of these leads to another walk. Its
delicate step is a transition, which releases resources: the node is then a candidate
itself, unless it is a root that ends, and `RootsEndAlone` says that such a root holds
nothing, since a root has no ancestor to interrupt it (`AncestorsAre` unfolds the
recursion of `Ancestors`).

**Changes.** `NoTransitionMissed`, which is `NoMissedTransition` under two hypotheses about
the execution: a node that no queue has, and that has begun and not ended, is inside a list
that runs (`AtRestInside`, which fails in `Orphan`), and no node keeps the status of the
pending queue without being on it (`NobodyIsLost`, which fails in `LostWakeup`). The
invariant `NothingMissed` holds between any two steps, not only at rest: a node that no
queue has, of a plan that is loaded, is `Settled`. `Settled` spells out, state by state,
that no condition moves the node, and `SettledMeans` that this is what `getDestState()`
says. The argument has two halves. `EverybodyHears`: a node listens to every source that
one of its own conditions reads in a state in which that condition is active, and to those
its ancestors' exit, invariant and end conditions read. `ToldElse` says what may change
without the node being told, and `StillSettled` that this moves nobody: an expression may
become unknown (`Fades`), which no condition acts upon, when the variable it reads is made
inactive. Each action then either tells those who listen to what it changes or changes no
value.

**Steady plans.** `SteadyRunsInside` and `SteadyHoldersRun`. The nodes of a list and the
list are moved one by one from the state change queue, after all were checked, so what was
true when a node was checked need not be when it moves. `ListsAreSteady` is about both:
whoever runs, or is about to begin, is inside a list that runs (`StaysInside`); a list that
ends, or is about to, has children that have ended and that nothing moves (`EndsLast`); a
node is reset with its list (`ResetsWithParent`); no list fails (`NeverFails`). Only an
interruption by an ancestor takes a node from running to FINISHED, and in a steady plan no
ancestor interrupts: hence `NoMutexKept`, and `HoldersRun` applies.

**Patient plans.** `PatientMissesNoTransition` and `PatientsWait` discharge the hypotheses
of the two paragraphs above. `PendingAreReady`: who is on the pending queue of a patient
plan may still start. What it waits for lasts, because a sibling that has finished is reset
only with its list, and then nobody in the list is pending (`AllResetTogether`). So a
pending node that is dropped is done and ends (`PatientDropsEnd`): it is put on the state
change queue, which gives both `NobodyIsLost` and `WalksGoOn`.

**Releases.** `PatientsAreToldOfReleases`, which is `NoMissedRelease` for patient plans.
`NobodyWaitsInVain` leaves one thing open: that a node left on the pending queue still wants
to execute. A pending node that is told of a change is not checked at once; its status
marks it for the next walk. `CurrentAreWilling`: a pending node that is not so marked still
wants to execute, since it hears of all that could change its mind. `AllLookedAt`: the walk
looks at every marked node it passes, and when it stops early or a node is marked behind it
there is another walk. The exception would be a root, whose end is no reason for another
check: `RootsEndUnheard` says that nobody of another plan listens to it, by
`ReferencesAssumption`, and nobody of its own is left waiting.

**Deletion.** `SteadyLeavesNothing`. Who waits for a resource is on the pending queue
(`WaitersArePending`); what is queued for deletion is a root that has ended
(`RootsHaveEnded`); and of a plan that has been deleted every node has ended or never
begun, and no step tells it of anything again (`DeletedAreGone`), since the list of
`SteadyRunsInside` ends after all below it.

**Assertions.** `CalmHasNoFault`: `NoFault` in calm plans. They are the patient plans in which
the exit and skip conditions of a node that uses a resource are constants, so is the exit
condition of a root that is a command, and no list uses a mutex that a node inside it uses.
Each clause keeps out one way in which an assertion fails: a node told twice while it
tries for its resources (`NotifyTwice`), an inherited condition that is read after its
list has ended (`Orphan`; steady plans have none), a root command whose exit condition
stays active and tells it when it is to be deleted, a mutex asked for below its holder. The
invariant `RestersAreSound` says that the nodes on the pending queue, the roots to be
deleted and those of plans not yet loaded have been told of nothing. It is kept because
none of them hears of anything (`CalmRest`): the pending node's start condition is the only
one that may have a source, the state of a sibling that has finished, and the sibling does
not move while the node waits. `Calm` plans are among those of `Mutexes` and `Nodes`, and
TLC finds `RestersAreSound` true of them.

**The arbiter.** `NotOverbooked` is not inductive: what is allocated grows by what the
command about to be accepted needs, and that fits only beside the estimates. `Sound`
adds `Covered` (while the arbiter runs, the upper estimate of each resource is at least
what is allocated and within the capacity), `RequestsAreGiven`, `StagesAgree` (who is
queued, contending, sent or denied) and `Holding`: a command that has been accepted and is
not done has an entry, that of its present list, and every other entry belongs to a
command that an interface has denied. `EntriesAreNeeds` says that such an entry, too, is
what some list of its command needs; with it, `LostByRefusal` is inductive: when an entry
is replaced, its command is not being served, so it is one that was denied. Answers are
free in all of this: any handle, for this execution or an earlier one. The theorems
`SoundAlways`, `NeverOverbooked`, `HeldExactlyWhileSent` and `LostOnlyByRefusal` (half of
`AccountsBalance`) assume `NothingIsLent`: no
request that is released at the end has a negative weight. A resource that was lent for
the duration of a command may be in use when it is taken away again, and the code does
not look; a resource that is taken in for good, such as the fuel of `MCArbiter`, is
covered.

**Lookups.** Being registered, a new state and a value from the interface all tell some
lookups of an entry of a value; `Telling` says what these have in common and
`AfterUpdate` what `updateInternal()` leaves of one of them. `Activate` and `Deliver` are
instances of it, and so is the second half of `Rename`, after the lookup has been taken
from its old state as in `Deactivate`. On top of the types (`LookupTypes`):
- `BoundsTight` has an invariant of three parts: a change lookup has thresholds while its
  state, tolerance and value are known (`Follows`); those of a lookup of fixed tolerance
  are of that tolerance, and what was told of its entry's limits lies within them
  (`Tight`); and for reals the entry's value lies within them too (`Fits`), so that they
  are those of a known value and `m_wasKnown` does not let anything else through. It holds
  for integers and reals and with unknown tolerances among the others;
- `ChangesPublished` is an argument about single steps. It assumes that no tolerance is
  unknown, for the reason of `SilentTolerance`;
- `ViewsInTolerance` assumes real values, for the reason of `StuckUnknown`. Its
  invariant has three parts: the last report on a state is right (`ReportsAreTrue`),
  without one the entry is (`EntriesAreTrue`), and the entry lies within the thresholds
  of every lookup that has any (`Fits`).

**The timer.** `TimerAlwaysCovers`. `Sound` holds in every execution: the types, and that
a registered lookup has thresholds once it has been told the time, which the executive
sees to before it rests. `Single` holds until two threads use the timer at once:
- `AskedForNext`: the executive's last `setTimer()` was for the next time a lookup
  waits for;
- `RecordAgrees`, `SnoozeAgrees`: `m_nextWakeup` is 0 or that time, and a timer thread
  that sets the timer again sets it to that time;
- `Underway`: the timer is set to it, or somebody is about to look at the clock or to
  set the timer, or the time has come and the executive is about to step or be woken;
- `UnsetIsPast`: if `m_nextWakeup` is 0 and nobody is setting it, that time has passed.
  It is why a thread that finds the record at 0 may leave the timer alone.

**Requests over IPC.** `CommandsGetTheirAnswers` and `AnswersWakeTheirLookup` rest on
`InStep`: `Numbers` (types), `CommandsInStep` (what is in `m_pendingCommands` was sent as
a command; of all that were sent only the last may still be missing), `LookupInStep` (the
pending serial number and state are those of the lookup under way), `MessagesAreSound`
(what is on a wire, and what is put together, is a possible message), `LookupIsTold` and
the property itself. `MessagesAreWhole` adds `InOrder`: on each wire a leader is followed
by its trailers in order, what is put together of a sender continues on its wire, and
serial numbers grow. `LookupsGetTheirAnswer` adds `InTurn`: while no lookup has been
answered twice, `m_lookupSem` is up only for the lookup under way, and at most once.

**The threads.** `TypesAreKept` for any number of threads; among the types, no semaphore
is passed that was not posted. `NoEventIsForgotten`: the worker does not sleep on an
entry that nobody will wake it for. `NoEventForgotten` speaks of the sleeping worker
only; the inductive `Accounted` says for every state what will bring the worker back to a
non-empty queue: it is reading it, the semaphore is up, a thread is about to raise it,
or the application is suspended and resuming raises it. `FinishIsAnnounced` has the same
form (`Told`): where all plans have finished, the end has been announced or something
brings the worker to announce it. `WaitersWaitForAll` assumes at most one thread that
calls `notifyAndWaitForCompletion()`; its invariant `Marks` puts a counted mark as high
as the waiter's own behind every entry it waits for. With two such threads TLC finds a
counterexample: `++m_markCount` is not protected, and a thread that writes back an old
count lowers the marks of those after it. The repository has one caller, the main
program (UniversalExec.cc:347).

**Checked, not proved.**
- Liveness (`StepEnds`, `WaiterReturns`, `WakesUp`) and anything with ENABLED is out of
  the provers' reach.
- What a fold or a bag computes for every input needs induction over data:
  the sums of `AccountsBalance` and `GreedyByPriority` (over commands and needs),
  `CountsMatchStates` and `CountsFollowStates` (counts of activations).
- `RunsInsideParent`, `NoMissedTransition` and `NoFault` of `Nodes` are not true of every
  plan, as `Orphan`, `LostWakeup` and `NotifyTwice` show. They are proved of steady,
  patient and calm plans, and the second of every execution in which no node outlives its
  list and no status is left behind. That they hold of the families of `Nodes`, where
  lists are interrupted, fail and repeat, and nodes that wait exit or are skipped, is for
  TLC to say.

## 5. What is left out

- Operators between conditions, arrays, strings, numbers: three-valued Booleans and
  single sources of change are what notification and transitions tell apart.
- The order of listeners of one source, and the activation of arguments of commands
  and right-hand sides of assignments.
- Timepoints of nodes. Of the time adapters: tick mode, which sets no deadline;
  `ItimerTimebase` and `DispatchTimebase`, which stand for `PosixTimebase` on other
  platforms.
- Command names and arguments; update pairs. Weights of resources are integers, where
  the code has doubles and compares them without rounding.
- The epsilon with which lookups of reals compare values; types and arrays of values.
- Over IPC: messages and commands received for the plan to process
  (`MessageQueueMap`), planner updates, lookups answered to other agents. The UDP
  adapter, the LUV listener and sockets, which translate messages and call the same
  interfaces.
- `NodeImpl::activate...` bodies that are empty, and the output to listeners.
- The opportunistic mode of `notifyExec()`, off by default and never turned on, in
  which the caller runs the executive; it would lock `m_execMutex` twice.
- `step()` and `runExec()` called by a program that has no worker thread.
- Mutexes outlive the plan that holds them, as in the code: `NothingDangles` checks
  that a deleted node holds none.

## 6. Plan

1. *Done*: `NodeTransitions`, `NodeConditions`, `PlexilExec`, `Reservations`,
   `ExecApplication`, `ResourceArbiter`, `StateCache`, `TimeWakeups` and `IpcRequests`,
   each with proofs; `NodeActivation`, checked.
2. `InputQueue`: the linked queue with its free list and mutex as an implementation of
   the sequence in `ExecApplication`; `MessageAdapter`: handles and queues.
3. Theorems: `RunsInsideParent` and `NoMissedTransition` of lists that are interrupted but
   do not repeat, where a child may outlive its list for a step but not begin again;
   `NoFault` of plans in which a node that waits may be told once.
