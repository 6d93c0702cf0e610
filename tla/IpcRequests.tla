----------------------------- MODULE IpcRequests -----------------------------
(***************************************************************************)
(* Lookups and commands over IPC: how IpcFacade puts the messages it       *)
(* receives together (interfaces/IpcUtils/IpcFacade.cc) and IpcAdapter     *)
(* matches answers with requests (interfaces/IpcAdapter/IpcAdapter.cc).    *)
(*                                                                         *)
(* A lookup is a call of the executive's thread that waits for its answer. *)
(* A command is sent and answered later, any number of times.  A request   *)
(* may be published to all agents, and several may answer it, or none.     *)
(* What an agent sends arrives in order; what several send is mixed.       *)
(*                                                                         *)
(* The executive's thread and the IPC dispatch thread interleave where     *)
(* they share something; a critical section of m_lookupMutex or m_cmdMutex *)
(* that shares nothing else is one action.                                 *)
(***************************************************************************)
EXTENDS Integers, Sequences, FiniteSets, SequencesExt, Functions

CONSTANTS
  None,
  Agent,       \* other processes
  State,       \* the states the executive looks up and the agents publish
  MaxRequests, \* bound on what the executive sends
  MaxSent      \* bound on the messages each agent sends

ASSUME IpcAssumption ==
  MaxRequests \in Nat /\ MaxSent \in Nat /\ None \notin State

VARIABLES
  pc,               \* where the executive's thread is
  serial,           \* m_nextSerial, as the number of requests sent
  lookedUp,         \* the lookup under way: its serial number and its state
  wire,             \* the packets each agent has sent and that have not arrived
  sent,             \* m_nextSerial of each agent
  incompletes,      \* m_incompletes
  matched,          \* an answer found to be for the pending lookup, lock not taken yet
  pendingSerial,    \* m_pendingLookupSerial
  pendingState,     \* m_pendingLookupState
  result,           \* m_pendingLookupResult
  sem,              \* m_lookupSem
  pendingCommands,  \* m_pendingCommands: a command is named by its serial number
  fault,            \* history: an assertion has failed
  delivered,        \* history: the message deliverMessages() was last called with
  asked,            \* history: the serial numbers of the commands sent
  heard,            \* history: the messages delivered that answer a request
  early,            \* history: the requests answered before they were recorded
  returned,         \* history: what commands were given
  got               \* history: what the last lookup returned, and which lookup it was

execVars    == <<pc, serial, lookedUp, asked>>
netVars     == <<wire, sent>>
lookupVars  == <<pendingSerial, pendingState, result, sem>>
receiveVars == <<incompletes, delivered, fault, heard>>
vars == <<execVars, netVars, receiveVars, lookupVars, matched, pendingCommands,
          early, returned, got>>

Kind == {"return", "telemetry", "value"}

\* A message is a leader and as many trailers as it announces.  A trailer has the number
\* of its place where a leader has the count.  About says what a leader answers or tells:
\* the serial number of a request or a state.
Packet == [sender : Agent, serial : 1..MaxSent, kind : Kind, count : 1..2,
           about : 1..MaxRequests \cup State \cup {None}]

ASSUME NoneIsNoPacket == None \notin Packet

NoLookup == [serial |-> 0, state |-> None]

Lookups == [serial : 0..MaxRequests, state : State \cup {None}]

TypeOK ==
  /\ pc \in {"ready", "lookup-sent", "waiting", "command-sent"}
  /\ serial \in 0..MaxRequests
  /\ lookedUp \in Lookups
  /\ wire \in [Agent -> Seq(Packet)]
  /\ sent \in [Agent -> 0..MaxSent]
  /\ matched \in Packet \cup {None}
  /\ pendingSerial \in 0..MaxRequests
  /\ pendingState \in State \cup {None}
  /\ result \in Packet \cup {None}
  /\ sem \in Nat
  /\ pendingCommands \subseteq asked
  /\ asked \cup early \subseteq 1..MaxRequests
  /\ heard \cup returned \subseteq [request : 1..MaxRequests, message : Packet]
  /\ fault \in BOOLEAN
  /\ got \in [value : Packet \cup {None}, of : Lookups]

Init ==
  /\ pc = "ready"
  /\ serial = 0
  /\ lookedUp = NoLookup
  /\ wire = [a \in Agent |-> <<>>]
  /\ sent = [a \in Agent |-> 0]
  /\ incompletes = <<>>
  /\ matched = None
  /\ pendingSerial = 0
  /\ pendingState = None
  /\ result = None
  /\ sem = 0
  /\ pendingCommands = {}
  /\ fault = FALSE
  /\ delivered = <<>>
  /\ asked = {}
  /\ heard = {}
  /\ early = {}
  /\ returned = {}
  /\ got = [value |-> None, of |-> NoLookup]

-----------------------------------------------------------------------------
(* The executive's thread                                                  *)

Send == serial < MaxRequests /\ serial' = serial + 1

\* Slip: the state is forgotten.
SendSerialOnly(s) ==
  /\ pc = "ready"
  /\ Send
  /\ pc' = "lookup-sent"
  /\ lookedUp' = [serial |-> serial + 1, state |-> s]
  /\ result' = None
  /\ UNCHANGED <<asked, netVars, receiveVars, pendingSerial, pendingState, sem, matched,
                 pendingCommands, early, returned, got>>

\* The lookup takes m_lookupMutex, which it holds while pc is "lookup-sent".
SendLookup(s) ==
  /\ pc = "ready"
  /\ Send
  /\ pc' = "lookup-sent"
  /\ lookedUp' = [serial |-> serial + 1, state |-> s]
  /\ result' = None
  /\ pendingState' = s
  /\ UNCHANGED <<asked, netVars, receiveVars, pendingSerial, sem, matched, pendingCommands,
                 early, returned, got>>

RecordLookup ==
  /\ pc = "lookup-sent"
  /\ pc' = "waiting"
  /\ pendingSerial' = serial
  /\ UNCHANGED <<serial, lookedUp, asked, netVars, receiveVars, pendingState, result, sem,
                 matched, pendingCommands, early, returned, got>>

\* Slip: the state stays, and what is told of it later is taken for an answer.
ReturnsAndKeeps ==
  /\ pc = "waiting"
  /\ sem > 0
  /\ pc' = "ready"
  /\ sem' = sem - 1
  /\ got' = [value |-> result, of |-> lookedUp]
  /\ lookedUp' = NoLookup
  /\ pendingSerial' = 0
  /\ result' = None
  /\ UNCHANGED <<serial, asked, netVars, receiveVars, pendingState, matched,
                 pendingCommands, early, returned>>

\* m_lookupSem.wait() returns; the rest is under m_lookupMutex.
LookupReturns ==
  /\ pc = "waiting"
  /\ sem > 0
  /\ pc' = "ready"
  /\ sem' = sem - 1
  /\ got' = [value |-> result, of |-> lookedUp]
  /\ lookedUp' = NoLookup
  /\ pendingSerial' = 0
  /\ pendingState' = None
  /\ result' = None
  /\ UNCHANGED <<serial, asked, netVars, receiveVars, matched, pendingCommands, early, returned>>

SendCommand ==
  /\ pc = "ready"
  /\ Send
  /\ pc' = "command-sent"
  /\ asked' = asked \cup {serial + 1}
  /\ UNCHANGED <<lookedUp, netVars, receiveVars, lookupVars, matched, pendingCommands,
                 early, returned, got>>

RecordCommand ==
  /\ pc = "command-sent"
  /\ pc' = "ready"
  /\ pendingCommands' = pendingCommands \cup {serial}
  /\ UNCHANGED <<serial, lookedUp, asked, netVars, receiveVars, lookupVars, matched, early,
                 returned, got>>

-----------------------------------------------------------------------------
(* Other agents                                                            *)

Message(a, kind, about, n) ==
  LET Part(k, i, x) == [sender |-> a, serial |-> sent[a] + 1, kind |-> k, count |-> i,
                        about |-> x]
  IN  <<Part(kind, n, about)>> \o [i \in 1..n |-> Part("value", i, None)]

Publish(a, message) ==
  /\ sent[a] < MaxSent
  /\ sent' = [sent EXCEPT ![a] = @ + 1]
  /\ wire' = [wire EXCEPT ![a] = @ \o message]
  /\ UNCHANGED <<execVars, receiveVars, lookupVars, matched, pendingCommands, early,
                 returned, got>>

\* publishReturnValues(): one value
Answer(a, r) == r \in 1..serial /\ Publish(a, Message(a, "return", r, 1))

\* publishTelemetry(): the value and the parameters of the state
Telemetry(a, s) == Publish(a, Message(a, "telemetry", s, 2))

-----------------------------------------------------------------------------
(* The IPC dispatch thread                                                 *)

\* Slip: serial numbers are taken for unique among all senders.
SerialOf(p) == p.serial

\* IpcMessageId
Id(p) == <<p.sender, p.serial>>

\* What a message answers: a request, or the lookup of the state it tells of.
About(leader) ==
  CASE leader.kind = "return" -> {leader.about}
    [] leader.kind = "telemetry" /\ leader.about = lookedUp.state -> {lookedUp.serial}
    [] OTHER -> {}

Delivered(message) ==
  /\ delivered' = message
  /\ heard' = heard \cup {[request |-> r, message |-> Head(message)] : r \in About(Head(message))}

Post(leader) == result' = leader /\ sem' = sem + 1

\* Slip: the serial number of the answer itself.
OwnSerial(leader) == leader.serial

\* The serial number an answer is filed under: requestSerial
RequestSerial(leader) == leader.about

\* handleReturnValuesSequence(): m_pendingLookupSerial is read before the lock is taken.
HandleReturn(leader) ==
  \/ /\ RequestSerial(leader) = pendingSerial
     /\ matched' = leader
     /\ UNCHANGED <<lookupVars, early, returned>>
  \/ /\ RequestSerial(leader) # pendingSerial
     /\ RequestSerial(leader) \notin pendingCommands
     /\ early' = IF leader.about = serial /\ pc \in {"lookup-sent", "command-sent"}
                 THEN early \cup {serial} ELSE early
     /\ UNCHANGED <<lookupVars, matched, returned>>
  \/ /\ RequestSerial(leader) # pendingSerial
     /\ RequestSerial(leader) \in pendingCommands
     /\ returned' = returned \cup {[request |-> RequestSerial(leader), message |-> leader]}
     /\ UNCHANGED <<lookupVars, matched, early>>

\* handleTelemetryValuesSequence(): all under m_lookupMutex.
HandleTelemetry(leader) ==
  /\ pc # "lookup-sent"
  /\ \/ leader.about = pendingState /\ Post(leader) /\ UNCHANGED <<pendingSerial, pendingState>>
     \/ leader.about # pendingState /\ UNCHANGED lookupVars
  /\ UNCHANGED <<matched, early, returned>>

Deliver(message) ==
  /\ Delivered(message)
  /\ \/ Head(message).kind = "return" /\ HandleReturn(Head(message))
     \/ Head(message).kind = "telemetry" /\ HandleTelemetry(Head(message))

NothingHandled == UNCHANGED <<delivered, heard, lookupVars, matched, early, returned>>

CacheMessageLeader(p) ==
  /\ p.kind # "value"
  /\ IF Id(p) \in DOMAIN incompletes
     THEN fault' = TRUE /\ UNCHANGED incompletes
     ELSE /\ incompletes' = [id \in DOMAIN incompletes \cup {Id(p)} |->
                                IF id \in DOMAIN incompletes THEN incompletes[id] ELSE <<p>>]
          /\ UNCHANGED fault
  /\ NothingHandled

CacheMessageTrailer(p) ==
  /\ p.kind = "value"
  /\ UNCHANGED fault
  /\ IF Id(p) \notin DOMAIN incompletes
     THEN UNCHANGED incompletes /\ NothingHandled
     ELSE LET message == Append(incompletes[Id(p)], p)
          IN  IF Len(message) > Head(message).count
              THEN /\ incompletes' = Restrict(incompletes, DOMAIN incompletes \ {Id(p)})
                   /\ Deliver(message)
              ELSE incompletes' = [incompletes EXCEPT ![Id(p)] = message] /\ NothingHandled

\* ipcMessageHandler()
Receive(a) ==
  /\ ~fault
  /\ matched = None
  /\ wire[a] # <<>>
  /\ wire' = [wire EXCEPT ![a] = Tail(@)]
  /\ CacheMessageLeader(Head(wire[a])) \/ CacheMessageTrailer(Head(wire[a]))
  /\ UNCHANGED <<execVars, sent, pendingCommands, got>>

\* The answer to the pending lookup is handed over under m_lookupMutex, whichever lookup
\* is pending by then.
HandOver ==
  /\ matched # None
  /\ pc # "lookup-sent"
  /\ Post(matched)
  /\ matched' = None
  /\ UNCHANGED <<execVars, netVars, receiveVars, pendingSerial, pendingState,
                 pendingCommands, early, returned, got>>

Next ==
  \/ \E s \in State : SendLookup(s)
  \/ RecordLookup
  \/ LookupReturns
  \/ SendCommand
  \/ RecordCommand
  \/ \E a \in Agent, r \in 1..MaxRequests : Answer(a, r)
  \/ \E a \in Agent, s \in State : Telemetry(a, s)
  \/ \E a \in Agent : Receive(a)
  \/ HandOver

Spec == Init /\ [][Next]_vars

-----------------------------------------------------------------------------
(* Properties                                                              *)

\* A message whose parts have come in so far: of one sender, in the order they were sent
Together(message) ==
  /\ Head(message).kind # "value"
  /\ \A i \in 2..Len(message) :
       /\ message[i].kind = "value"
       /\ message[i].count = i - 1
       /\ Id(message[i]) = Id(Head(message))

\* However the packets of several agents are mixed on their way, what deliverMessages() is
\* called with is one message, whole and in order, and no leader comes twice
\* (cacheMessageLeader() asserts it).
WholeMessages ==
  /\ ~fault
  /\ \A id \in DOMAIN incompletes : Together(incompletes[id])
  /\ delivered # <<>> =>
       /\ Together(delivered)
       /\ Len(delivered) = Head(delivered).count + 1
       /\ \A i \in 1..Len(delivered) : delivered[i].sender = Head(delivered).sender

\* A command is given every answer to it that came after it was recorded in
\* m_pendingCommands, and nothing else: neither the answer to another command nor a late
\* answer to a lookup.
AnswersReachTheirCommand ==
  /\ returned \subseteq {h \in heard : h.request \in asked}
  /\ \A h \in heard : h.request \in asked => h \in returned \/ h.request \in early

\* When a message that answers the lookup under way has been handled, lookupNow() has been
\* woken or is about to be, unless the answer came before the lookup was recorded.
AnsweredLookupWakes ==
  pc = "waiting" /\ (\E h \in heard : h.request = lookedUp.serial) /\ lookedUp.serial \notin early
    => sem > 0 \/ matched # None

AnsweredOnce(r) == Cardinality({h \in heard : h.request = r}) <= 1

\* If each lookup is answered no more than once, lookupNow() returns a value, and the value
\* is the answer to this lookup: m_lookupSem is never left with a post for the next one.
RightAnswer ==
  (\A r \in (1..serial) \ asked : AnsweredOnce(r)) =>
    /\ got.of # NoLookup => [request |-> got.of.serial, message |-> got.value] \in heard
    /\ pc = "ready" => sem = 0

\* An answer is not handled while its request is being sent and recorded.
HeldWhileRecorded == early = {}
=============================================================================
