-------------------------- MODULE IpcRequestsProofs --------------------------
(***************************************************************************)
(* Answers find what they answer, for any number of agents, states,        *)
(* requests and messages: a command is given all the answers that come     *)
(* after its record, a recorded lookup that has been answered wakes and    *)
(* returns its answer, and only whole messages are handled.                *)
(*                                                                         *)
(* The proofs rest on three inductive invariants.  InStep is what the      *)
(* executive's thread keeps in step: a command is out of m_pendingCommands *)
(* only between its sending and its record, and m_pendingLookupSerial and  *)
(* m_pendingLookupState name the lookup that waits.  InOrder is what lies  *)
(* between the wires and m_incompletes: each message in order, its rest to *)
(* come.  InTurn counts the posts of m_lookupSem.                          *)
(***************************************************************************)
EXTENDS IpcRequests, DataLemmas, TLAPS

\* A lookup is under way.
LookingUp == pc \in {"lookup-sent", "waiting"}

CommandsInStep ==
  /\ pendingCommands \subseteq asked
  /\ asked \subseteq 1..serial
  /\ \A r \in asked \ pendingCommands : pc = "command-sent" /\ r = serial
  /\ pc = "command-sent" => serial \in asked

LookupInStep ==
  /\ pendingSerial = IF pc = "waiting" THEN serial ELSE 0
  /\ pendingState = lookedUp.state
  /\ LookingUp => lookedUp.serial = serial /\ serial \notin asked /\ serial # 0
  /\ ~LookingUp => lookedUp = NoLookup

\* An answer is to a request that has been sent, and telemetry tells of a state.
Sendable == {p \in Packet : /\ p.kind = "return" => p.about \in 1..serial
                            /\ p.kind = "telemetry" => p.about \in State}

MessagesAreSound ==
  /\ wire \in [Agent -> Seq(Sendable)]
  /\ sent \in [Agent -> 0..MaxSent]
  /\ \A id \in DOMAIN incompletes :
       /\ incompletes[id] \in Seq(Sendable) /\ incompletes[id] # <<>>
       /\ Head(incompletes[id]).kind # "value"
  /\ \A h \in heard : h.request \in 1..serial

\* A lookup that was answered has been told, unless the answer was early.
LookupIsTold ==
  LookingUp /\ (\E h \in heard : h.request = serial) /\ serial \notin early
    => pc = "waiting" /\ (sem > 0 \/ matched # None)

Numbers == /\ serial \in Nat /\ sem \in Nat
           /\ pc \in {"ready", "lookup-sent", "waiting", "command-sent"}

\* The inductive invariant
InStep == /\ Numbers /\ CommandsInStep /\ LookupInStep /\ MessagesAreSound
          /\ LookupIsTold /\ AnswersReachTheirCommand

-----------------------------------------------------------------------------
(* Messages *)

\* What could be sent before can be sent after another request.
LEMMA MoreIsSendable ==
  ASSUME serial \in Nat, serial' \in Nat, serial <= serial'
  PROVE  Seq(Sendable) \subseteq Seq(Sendable') /\ 1..serial \subseteq 1..serial'
<1>1. 1..serial \subseteq 1..serial'
  OBVIOUS
<1>2. Sendable \subseteq Sendable'
  BY <1>1 DEF Sendable
<1> HIDE DEF Sendable
<1> QED  BY <1>1, <1>2

\* A request leaves the messages under way as they are.
LEMMA RequestKeepsMessages ==
  ASSUME Numbers, MessagesAreSound, serial' \in Nat, serial <= serial',
         UNCHANGED <<wire, sent, incompletes, heard>>
  PROVE  MessagesAreSound'
<1>1. Seq(Sendable) \subseteq Seq(Sendable') /\ 1..serial \subseteq 1..serial'
  BY MoreIsSendable DEF Numbers
<1> QED  BY <1>1 DEF MessagesAreSound

\* A message of an agent is made of what can be sent.
LEMMA MessageIsSendable ==
  ASSUME InStep, NEW a \in Agent, sent[a] < MaxSent,
         NEW kind \in {"return", "telemetry"}, NEW about \in (1..MaxRequests) \cup State,
         kind = "return" => about \in 1..serial, kind = "telemetry" => about \in State,
         NEW n \in 1..2
  PROVE  Message(a, kind, about, n) \in Seq(Sendable)
<1> DEFINE part(k, i, x) == [sender |-> a, serial |-> sent[a] + 1, kind |-> k, count |-> i,
                             about |-> x]
           rest == [i \in 1..n |-> part("value", i, None)]
<1>1. sent[a] + 1 \in 1..MaxSent
  BY IpcAssumption DEF InStep, MessagesAreSound
<1>2. part(kind, n, about) \in Sendable
  BY <1>1 DEF Sendable, Packet, Kind
<1>3. \A i \in 1..n : part("value", i, None) \in Sendable
  BY <1>1 DEF Sendable, Packet, Kind
<1> HIDE DEF part
<1>4. rest \in Seq(Sendable)
  BY <1>3
<1>5. <<part(kind, n, about)>> \in Seq(Sendable)
  BY <1>2
<1>6. <<part(kind, n, about)>> \o rest \in Seq(Sendable)
  <2> HIDE DEF rest
  <2> QED  BY <1>4, <1>5
<1> QED  BY <1>6 DEF Message, part

\* Agents publish; nothing is handled.
LEMMA PublishKeeps ==
  ASSUME InStep, NEW a \in Agent, NEW m \in Seq(Sendable), Publish(a, m)
  PROVE  InStep'
<1>1. /\ UNCHANGED <<pc, serial, lookedUp, asked, incompletes, heard, pendingSerial, pendingState,
                     sem, matched, pendingCommands, early, returned>>
      /\ Sendable' = Sendable
  BY DEF Publish, execVars, receiveVars, lookupVars, Sendable
<1>2. wire' \in [Agent -> Seq(Sendable)] /\ sent' \in [Agent -> 0..MaxSent]
  <2>1. wire[a] \o m \in Seq(Sendable)
    BY DEF InStep, MessagesAreSound
  <2>2. sent[a] + 1 \in 0..MaxSent
    BY IpcAssumption DEF Publish, InStep, MessagesAreSound
  <2> QED  BY <2>1, <2>2 DEF Publish, InStep, MessagesAreSound
<1>3. MessagesAreSound'
  BY <1>1, <1>2 DEF InStep, MessagesAreSound
<1> QED
  BY <1>1, <1>3 DEF InStep, Numbers, CommandsInStep, LookupInStep, LookingUp, LookupIsTold,
                    AnswersReachTheirCommand

-----------------------------------------------------------------------------
(* The executive's thread *)

LEMMA SendLookupKeeps ==
  ASSUME InStep, NEW s \in State, SendLookup(s)
  PROVE  InStep'
<1>1. /\ pc = "ready" /\ pc' = "lookup-sent" /\ serial' = serial + 1
      /\ lookedUp' = [serial |-> serial + 1, state |-> s] /\ pendingState' = s
      /\ UNCHANGED <<wire, sent, incompletes, heard, asked, pendingSerial, sem, matched,
                     pendingCommands, early, returned>>
  BY DEF SendLookup, Send, netVars, receiveVars
<1>2. Numbers'
  BY <1>1 DEF InStep, Numbers
<1>3. MessagesAreSound'
  BY <1>1, <1>2, RequestKeepsMessages DEF InStep, Numbers
<1>4. CommandsInStep'
  BY <1>1 DEF InStep, Numbers, CommandsInStep
<1>5. LookupInStep'
  BY <1>1 DEF InStep, Numbers, LookupInStep, CommandsInStep, LookingUp
<1>6. LookupIsTold'
  BY <1>1 DEF InStep, Numbers, MessagesAreSound, LookupIsTold
<1> QED  BY <1>1, <1>2, <1>3, <1>4, <1>5, <1>6 DEF InStep, AnswersReachTheirCommand

LEMMA RecordLookupKeeps ==
  ASSUME InStep, RecordLookup
  PROVE  InStep'
<1>1. /\ pc = "lookup-sent" /\ pc' = "waiting" /\ pendingSerial' = serial
      /\ UNCHANGED <<serial, lookedUp, pendingState, wire, sent, incompletes, heard, asked, sem,
                     matched, pendingCommands, early, returned>>
  BY DEF RecordLookup, netVars, receiveVars
<1>2. Numbers' /\ CommandsInStep' /\ LookupInStep' /\ LookupIsTold'
  BY <1>1 DEF InStep, Numbers, CommandsInStep, LookupInStep, LookingUp, LookupIsTold
<1>3. MessagesAreSound'
  BY <1>1, <1>2, RequestKeepsMessages DEF InStep, Numbers
<1> QED  BY <1>1, <1>2, <1>3 DEF InStep, AnswersReachTheirCommand

LEMMA LookupReturnsKeeps ==
  ASSUME InStep, LookupReturns
  PROVE  InStep'
<1>1. /\ pc = "waiting" /\ pc' = "ready" /\ sem > 0 /\ sem' = sem - 1
      /\ lookedUp' = NoLookup /\ pendingSerial' = 0 /\ pendingState' = None
      /\ UNCHANGED <<serial, wire, sent, incompletes, heard, asked, pendingCommands, early,
                     returned>>
  BY DEF LookupReturns, netVars, receiveVars
<1>2. Numbers' /\ CommandsInStep'
  BY <1>1 DEF InStep, Numbers, CommandsInStep
<1>3. LookupInStep' /\ LookupIsTold'
  BY <1>1 DEF InStep, LookupInStep, LookingUp, LookupIsTold, NoLookup
<1>4. MessagesAreSound'
  BY <1>1, <1>2, RequestKeepsMessages DEF InStep, Numbers
<1> QED  BY <1>1, <1>2, <1>3, <1>4 DEF InStep, AnswersReachTheirCommand

LEMMA SendCommandKeeps ==
  ASSUME InStep, SendCommand
  PROVE  InStep'
<1>1. /\ pc = "ready" /\ pc' = "command-sent" /\ serial' = serial + 1
      /\ asked' = asked \cup {serial + 1}
      /\ UNCHANGED <<lookedUp, wire, sent, incompletes, heard, pendingSerial, pendingState, sem,
                     matched, pendingCommands, early, returned>>
  BY DEF SendCommand, Send, netVars, receiveVars, lookupVars
<1>2. Numbers' /\ CommandsInStep'
  BY <1>1 DEF InStep, Numbers, CommandsInStep
<1>3. LookupInStep' /\ LookupIsTold'
  <2>1. ~LookingUp /\ ~LookingUp'
    BY <1>1 DEF LookingUp
  <2>2. LookupInStep'
    BY <1>1, <2>1 DEF InStep, LookupInStep
  <2> QED  BY <2>1, <2>2 DEF LookupIsTold
<1>4. MessagesAreSound'
  BY <1>1, <1>2, RequestKeepsMessages DEF InStep, Numbers
<1>5. \A h \in heard : h.request # serial + 1
  BY DEF InStep, Numbers, MessagesAreSound
<1>6. AnswersReachTheirCommand'
  BY <1>1, <1>5 DEF InStep, AnswersReachTheirCommand
<1> QED  BY <1>2, <1>3, <1>4, <1>6 DEF InStep

LEMMA RecordCommandKeeps ==
  ASSUME InStep, RecordCommand
  PROVE  InStep'
<1>1. /\ pc = "command-sent" /\ pc' = "ready"
      /\ pendingCommands' = pendingCommands \cup {serial}
      /\ UNCHANGED <<serial, lookedUp, wire, sent, incompletes, heard, asked, pendingSerial,
                     pendingState, sem, matched, early, returned>>
  BY DEF RecordCommand, netVars, receiveVars, lookupVars
<1>2. Numbers' /\ LookupInStep' /\ LookupIsTold'
  BY <1>1 DEF InStep, Numbers, LookupInStep, LookingUp, LookupIsTold
<1>3. CommandsInStep'
  BY <1>1 DEF InStep, CommandsInStep
<1>4. MessagesAreSound'
  BY <1>1, <1>2, RequestKeepsMessages DEF InStep, Numbers
<1> QED  BY <1>1, <1>2, <1>3, <1>4 DEF InStep, AnswersReachTheirCommand

-----------------------------------------------------------------------------
(* The IPC dispatch thread *)

\* Delivering a whole message.
LEMMA DeliverKeeps ==
  ASSUME InStep, NEW message, Head(message) \in Sendable, Head(message).kind # "value",
         Deliver(message), UNCHANGED <<execVars, pendingCommands>>, matched = None
  PROVE  /\ Numbers' /\ CommandsInStep' /\ LookupInStep' /\ LookupIsTold'
         /\ AnswersReachTheirCommand' /\ \A h \in heard' : h.request \in 1..serial'
<1> DEFINE leader == Head(message)
           new == {[request |-> r, message |-> leader] : r \in About(leader)}
<1>1. UNCHANGED <<pc, serial, lookedUp, asked, pendingCommands>> /\ heard' = heard \cup new
  BY DEF Deliver, Delivered, execVars
<1>2. /\ leader.kind \in {"return", "telemetry"}
      /\ leader.kind = "return" => leader.about \in 1..serial
      /\ leader.kind = "telemetry" => leader.about \in State
  BY DEF Sendable, Packet, Kind
<1>3. \/ leader.kind = "return" /\ HandleReturn(leader)
      \/ leader.kind = "telemetry" /\ HandleTelemetry(leader)
  BY DEF Deliver
<1> HIDE DEF leader
<1>4. /\ leader.kind = "return" => About(leader) = {leader.about}
      /\ leader.kind = "telemetry" /\ leader.about = lookedUp.state => About(leader) = {serial}
      /\ leader.kind = "telemetry" /\ leader.about # lookedUp.state => About(leader) = {}
  <2>1. leader.kind = "telemetry" /\ leader.about = lookedUp.state => lookedUp.serial = serial
    BY <1>2, IpcAssumption DEF InStep, LookupInStep, NoLookup
  <2>2. leader.kind = "return" => About(leader) = {leader.about}
    BY DEF About
  <2>3. leader.kind = "telemetry" /\ leader.about = lookedUp.state => About(leader) = {serial}
    BY <2>1 DEF About
  <2>4. leader.kind = "telemetry" /\ leader.about # lookedUp.state => About(leader) = {}
    BY DEF About
  <2> QED  BY <2>2, <2>3, <2>4
<1>5. \A h \in heard' : h.request \in 1..serial'
  <2>1. \A r \in About(leader) : r \in 1..serial
    <3>1. leader.kind = "telemetry" /\ leader.about = lookedUp.state => serial \in 1..serial
      BY <1>2, IpcAssumption DEF InStep, LookupInStep, NoLookup, Numbers
    <3> QED  BY <1>2, <1>4, <3>1
  <2> QED  BY <1>1, <2>1 DEF InStep, MessagesAreSound
<1>6. CASE leader.kind = "return"
  <2>1. HandleReturn(leader)
    BY <1>3, <1>6
  <2>2. new = {[request |-> leader.about, message |-> leader]}
    BY <1>4, <1>6
  <2> DEFINE h == [request |-> leader.about, message |-> leader]
  <2>3. heard' = heard \cup {h} /\ h.request = leader.about /\ leader.about \in 1..serial
    BY <1>1, <1>2, <1>6, <2>2
  <2> HIDE DEF h, new
  <2>4. \A g \in heard' : g \in heard \/ g = h
    BY <2>3
  <2>5. CASE /\ RequestSerial(leader) = pendingSerial
             /\ matched' = leader
             /\ UNCHANGED <<lookupVars, early, returned>>
    <3>1. pc = "waiting" /\ leader.about = serial /\ serial \notin asked
      BY <2>3, <2>5 DEF RequestSerial, InStep, LookupInStep, LookingUp
    <3>2. matched' # None
      BY <2>5, NoneIsNoPacket DEF leader, Sendable
    <3>3. Numbers' /\ CommandsInStep' /\ LookupInStep' /\ LookupIsTold'
      BY <1>1, <2>5, <3>1, <3>2
         DEF lookupVars, InStep, Numbers, CommandsInStep, LookupInStep, LookingUp, LookupIsTold
    <3>4. AnswersReachTheirCommand'
      BY <1>1, <2>3, <2>4, <2>5, <3>1 DEF InStep, AnswersReachTheirCommand
    <3> QED  BY <1>5, <3>3, <3>4
  <2>6. CASE /\ RequestSerial(leader) # pendingSerial
             /\ RequestSerial(leader) \notin pendingCommands
             /\ early' = IF leader.about = serial /\ pc \in {"lookup-sent", "command-sent"}
                         THEN early \cup {serial} ELSE early
             /\ UNCHANGED <<lookupVars, matched, returned>>
    <3>1. leader.about # pendingSerial /\ leader.about \notin pendingCommands
      BY <2>6 DEF RequestSerial
    <3>2. leader.about = serial /\ LookingUp => serial \in early'
      BY <2>6, <3>1 DEF InStep, LookupInStep, LookingUp
    <3>3. Numbers' /\ CommandsInStep' /\ LookupInStep'
      BY <1>1, <2>6 DEF lookupVars, InStep, Numbers, CommandsInStep, LookupInStep, LookingUp
    <3>4. LookupIsTold'
      BY <1>1, <2>3, <2>4, <2>6, <3>2 DEF lookupVars, InStep, LookingUp, LookupIsTold
    <3>5. leader.about \in asked => leader.about \in early'
      BY <2>6, <3>1 DEF InStep, CommandsInStep
    <3>6. AnswersReachTheirCommand'
      BY <1>1, <2>3, <2>4, <2>6, <3>5 DEF InStep, AnswersReachTheirCommand
    <3> QED  BY <1>5, <3>3, <3>4, <3>6
  <2>7. CASE /\ RequestSerial(leader) # pendingSerial
             /\ RequestSerial(leader) \in pendingCommands
             /\ returned' = returned \cup
                              {[request |-> RequestSerial(leader), message |-> leader]}
             /\ UNCHANGED <<lookupVars, matched, early>>
    <3>1. leader.about \in pendingCommands /\ returned' = returned \cup {h}
      BY <2>7 DEF RequestSerial, h
    <3>2. leader.about \in asked /\ (LookingUp => leader.about # serial)
      BY <3>1 DEF InStep, CommandsInStep, LookupInStep
    <3>3. Numbers' /\ CommandsInStep' /\ LookupInStep'
      BY <1>1, <2>7 DEF lookupVars, InStep, Numbers, CommandsInStep, LookupInStep, LookingUp
    <3>4. LookupIsTold'
      BY <1>1, <2>3, <2>4, <2>7, <3>2 DEF lookupVars, InStep, LookingUp, LookupIsTold
    <3>5. AnswersReachTheirCommand'
      BY <1>1, <2>3, <2>4, <2>7, <3>1, <3>2 DEF InStep, AnswersReachTheirCommand
    <3> QED  BY <1>5, <3>3, <3>4, <3>5
  <2> QED  BY <2>1, <2>5, <2>6, <2>7 DEF HandleReturn
<1>7. CASE leader.kind = "telemetry"
  <2>1. pc # "lookup-sent" /\ UNCHANGED <<matched, early, returned>>
    BY <1>2, <1>3, <1>7 DEF HandleTelemetry
  <2>2. pendingState = lookedUp.state
    BY DEF InStep, LookupInStep
  <2>3. CASE leader.about = pendingState /\ sem' = sem + 1
             /\ UNCHANGED <<pendingSerial, pendingState>>
    <3>1. pc = "waiting" /\ serial \notin asked
      BY <1>2, <1>7, <2>1, <2>2, <2>3, IpcAssumption
         DEF InStep, LookupInStep, LookingUp, NoLookup
    <3>2. \A g \in heard' : g \in heard \/ g.request = serial
      BY <1>1, <1>4, <1>7, <2>2, <2>3
    <3>3. Numbers' /\ CommandsInStep' /\ LookupInStep' /\ LookupIsTold'
      BY <1>1, <2>1, <2>3, <3>1
         DEF InStep, Numbers, CommandsInStep, LookupInStep, LookingUp, LookupIsTold
    <3>4. AnswersReachTheirCommand'
      BY <1>1, <2>1, <3>1, <3>2 DEF InStep, AnswersReachTheirCommand
    <3> QED  BY <1>5, <3>3, <3>4
  <2>4. CASE leader.about # pendingState /\ UNCHANGED lookupVars
    <3>1. heard' = heard
      BY <1>1, <1>4, <1>7, <2>2, <2>4
    <3>2. Numbers' /\ CommandsInStep' /\ LookupInStep' /\ LookupIsTold'
      BY <1>1, <2>1, <2>4, <3>1
         DEF lookupVars, InStep, Numbers, CommandsInStep, LookupInStep, LookingUp, LookupIsTold
    <3>3. AnswersReachTheirCommand'
      BY <1>1, <2>1, <3>1 DEF InStep, AnswersReachTheirCommand
    <3> QED  BY <1>5, <3>2, <3>3
  <2> QED  BY <1>3, <1>7, <2>3, <2>4 DEF HandleTelemetry, Post
<1> QED  BY <1>2, <1>6, <1>7

LEMMA AppendKeepsHead ==
  ASSUME NEW S, NEW q \in Seq(S), q # <<>>, NEW e \in S
  PROVE  Append(q, e) \in Seq(S) /\ Append(q, e) # <<>> /\ Head(Append(q, e)) = Head(q)
<1>1. Len(q) \in Nat /\ Len(q) # 0
  OBVIOUS
<1>2. Append(q, e) \in Seq(S) /\ Len(Append(q, e)) = Len(q) + 1 /\ Append(q, e)[1] = q[1]
  BY <1>1
<1> QED  BY <1>1, <1>2

LEMMA ReceiveKeeps ==
  ASSUME InStep, NEW a \in Agent, Receive(a)
  PROVE  InStep'
<1> DEFINE p == Head(wire[a])
<1>1. /\ matched = None /\ wire[a] # <<>> /\ wire' = [wire EXCEPT ![a] = Tail(@)]
      /\ CacheMessageLeader(p) \/ CacheMessageTrailer(p)
      /\ UNCHANGED <<execVars, sent, pendingCommands>>
      /\ UNCHANGED <<pc, serial, lookedUp, asked>> /\ Sendable' = Sendable
  BY DEF Receive, execVars, Sendable
<1>2. /\ p \in Sendable /\ wire' \in [Agent -> Seq(Sendable)]
      /\ sent' \in [Agent -> 0..MaxSent]
  <2>1. wire[a] \in Seq(Sendable) /\ wire \in [Agent -> Seq(Sendable)]
    BY DEF InStep, MessagesAreSound
  <2>2. Head(wire[a]) \in Sendable /\ Tail(wire[a]) \in Seq(Sendable)
    BY <1>1, <2>1
  <2> QED  BY <1>1, <2>1, <2>2 DEF InStep, MessagesAreSound
<1> HIDE DEF p
<1>3. ASSUME NothingHandled
      PROVE  /\ Numbers' /\ CommandsInStep' /\ LookupInStep' /\ LookupIsTold'
             /\ AnswersReachTheirCommand' /\ \A h \in heard' : h.request \in 1..serial'
  BY <1>1, <1>3 DEF NothingHandled, lookupVars, InStep, Numbers, CommandsInStep, LookupInStep,
                    LookingUp, LookupIsTold, AnswersReachTheirCommand, MessagesAreSound
<1>4. ASSUME NEW id \in DOMAIN incompletes
      PROVE  /\ incompletes[id] \in Seq(Sendable) /\ incompletes[id] # <<>>
             /\ Head(incompletes[id]).kind # "value"
  BY DEF InStep, MessagesAreSound
<1> DEFINE Cached == \A id \in DOMAIN incompletes' :
                       /\ incompletes'[id] \in Seq(Sendable) /\ incompletes'[id] # <<>>
                       /\ Head(incompletes'[id]).kind # "value"
<1>5. CASE CacheMessageLeader(p)
  <2>1. p.kind # "value" /\ NothingHandled
    BY <1>5 DEF CacheMessageLeader
  <2>2. Cached
    <3>1. CASE UNCHANGED incompletes
      BY <1>4, <3>1
    <3>2. CASE incompletes' = [id \in DOMAIN incompletes \cup {Id(p)} |->
                                 IF id \in DOMAIN incompletes THEN incompletes[id] ELSE <<p>>]
      <4>1. \A id \in DOMAIN incompletes' :
              incompletes'[id] = IF id \in DOMAIN incompletes THEN incompletes[id] ELSE <<p>>
        BY <3>2
      <4>2. \A id \in DOMAIN incompletes' :
              id \notin DOMAIN incompletes => incompletes'[id] = <<p>>
        BY <4>1
      <4>3. <<p>> \in Seq(Sendable) /\ <<p>> # <<>> /\ Head(<<p>>) = p
        BY <1>2
      <4> QED  BY <1>4, <2>1, <4>1, <4>2, <4>3
    <3> QED  BY <1>5, <3>1, <3>2 DEF CacheMessageLeader
  <2>3. MessagesAreSound'
    BY <1>1, <1>2, <1>3, <2>1, <2>2 DEF MessagesAreSound
  <2> QED  BY <1>3, <2>1, <2>3 DEF InStep
<1>6. CASE CacheMessageTrailer(p)
  <2>1. CASE UNCHANGED incompletes /\ NothingHandled
    <3>1. MessagesAreSound'
      BY <1>1, <1>2, <1>3, <1>4, <2>1 DEF MessagesAreSound
    <3> QED  BY <1>3, <2>1, <3>1 DEF InStep
  <2>2. CASE Id(p) \in DOMAIN incompletes
    <3> DEFINE message == Append(incompletes[Id(p)], p)
    <3>1. /\ message \in Seq(Sendable) /\ message # <<>>
          /\ Head(message) = Head(incompletes[Id(p)])
      <4>1. incompletes[Id(p)] \in Seq(Sendable) /\ incompletes[Id(p)] # <<>>
        BY <1>4, <2>2
      <4> QED  BY <1>2, <4>1, AppendKeepsHead
    <3>2. Head(message) \in Sendable /\ Head(message).kind # "value"
      BY <1>4, <2>2, <3>1
    <3>3. \/ /\ incompletes' = Restrict(incompletes, DOMAIN incompletes \ {Id(p)})
             /\ Deliver(message)
          \/ incompletes' = [incompletes EXCEPT ![Id(p)] = message] /\ NothingHandled
      BY <1>6, <2>2 DEF CacheMessageTrailer
    <3> HIDE DEF message
    <3>4. CASE /\ incompletes' = Restrict(incompletes, DOMAIN incompletes \ {Id(p)})
               /\ Deliver(message)
      <4>1. Cached
        BY <1>4, <3>4 DEF Restrict
      <4>2. /\ Numbers' /\ CommandsInStep' /\ LookupInStep' /\ LookupIsTold'
            /\ AnswersReachTheirCommand' /\ \A h \in heard' : h.request \in 1..serial'
        BY <1>1, <3>2, <3>4, DeliverKeeps
      <4>3. MessagesAreSound'
        BY <1>1, <1>2, <4>1, <4>2 DEF MessagesAreSound
      <4> QED  BY <4>2, <4>3 DEF InStep
    <3>5. CASE incompletes' = [incompletes EXCEPT ![Id(p)] = message] /\ NothingHandled
      <4>1. Cached
        BY <1>4, <3>1, <3>2, <3>5
      <4>2. MessagesAreSound'
        BY <1>1, <1>2, <1>3, <3>5, <4>1 DEF MessagesAreSound
      <4> QED  BY <1>3, <3>5, <4>2 DEF InStep
    <3> QED  BY <3>3, <3>4, <3>5
  <2> QED  BY <1>6, <2>1, <2>2 DEF CacheMessageTrailer
<1> QED  BY <1>1, <1>5, <1>6

LEMMA HandOverKeeps ==
  ASSUME InStep, HandOver
  PROVE  InStep'
<1>1. /\ pc # "lookup-sent" /\ sem' = sem + 1
      /\ UNCHANGED <<pc, serial, lookedUp, asked, wire, sent, incompletes, heard, pendingSerial,
                     pendingState, pendingCommands, early, returned>>
  BY DEF HandOver, Post, execVars, netVars, receiveVars
<1>2. Numbers' /\ CommandsInStep' /\ LookupInStep' /\ LookupIsTold'
  BY <1>1 DEF InStep, Numbers, CommandsInStep, LookupInStep, LookingUp, LookupIsTold
<1>3. MessagesAreSound'
  BY <1>1, <1>2, RequestKeepsMessages DEF InStep, Numbers
<1> QED  BY <1>1, <1>2, <1>3 DEF InStep, AnswersReachTheirCommand

-----------------------------------------------------------------------------
(* Whole messages *)

\* A trailer of message id, at its place
Trails(p, id, k) == p.kind = "value" /\ Id(p) = id /\ p.count = k

\* Each leader on its way has all its trailers behind it, ...
LeadersAreFollowed ==
  \A a \in Agent : \A i \in 1..Len(wire[a]) : wire[a][i].kind # "value" =>
    \A k \in 1..wire[a][i].count :
      i + k <= Len(wire[a]) /\ Trails(wire[a][i + k], Id(wire[a][i]), k)

\* ... and each trailer has its leader so far before it, which is on its way too or has
\* arrived, with the trailers between them.
TrailersFollow ==
  \A a \in Agent : \A i \in 1..Len(wire[a]) :
    LET p == wire[a][i]
        leader == wire[a][i - p.count]
    IN  p.kind = "value" =>
          \/ /\ i > p.count /\ p.count <= leader.count
             /\ leader.kind # "value" /\ Id(leader) = Id(p)
          \/ /\ i <= p.count /\ Id(p) \in DOMAIN incompletes
             /\ Len(incompletes[Id(p)]) = p.count - i + 1
             /\ p.count <= Head(incompletes[Id(p)]).count

\* A message that has begun to arrive is put together in order; what it lacks comes next.
IncompletesAreStarted ==
  \A id \in DOMAIN incompletes :
    LET message == incompletes[id]
    IN  /\ id \in Agent \X (1..MaxSent)
        /\ Together(message) /\ Id(Head(message)) = id
        /\ Len(message) <= Head(message).count
        /\ \A k \in Len(message)..Head(message).count :
             /\ k - Len(message) + 1 <= Len(wire[id[1]])
             /\ Trails(wire[id[1]][k - Len(message) + 1], id, k)

\* An agent numbers its messages upwards.
SerialsGrow ==
  \A a \in Agent :
    /\ \A i \in 1..Len(wire[a]) : wire[a][i].sender = a /\ wire[a][i].serial <= sent[a]
    /\ \A i \in 1..Len(wire[a]) : wire[a][i].kind # "value" =>
         /\ \A j \in 1..(i - 1) : wire[a][j].serial < wire[a][i].serial
         /\ <<a, wire[a][i].serial>> \notin DOMAIN incompletes
         /\ \A h \in heard : h.message.sender = a => h.message.serial < wire[a][i].serial

\* What has been handled does not come again.
HeardAreOver ==
  \A h \in heard :
    /\ h.message \in Packet /\ h.message.serial <= sent[h.message.sender]
    /\ Id(h.message) \notin DOMAIN incompletes

DeliveredIsWhole ==
  delivered # <<>> => /\ Together(delivered)
                      /\ Len(delivered) = Head(delivered).count + 1

\* The inductive invariant of what arrives
InOrder == /\ LeadersAreFollowed /\ TrailersFollow /\ IncompletesAreStarted
           /\ SerialsGrow /\ HeardAreOver /\ DeliveredIsWhole /\ ~fault

LEMMA PacketFacts ==
  ASSUME InStep, NEW a \in Agent
  PROVE  /\ wire[a] \in Seq(Packet) /\ Len(wire[a]) \in Nat
         /\ \A i \in 1..Len(wire[a]) :
              /\ wire[a][i] \in Packet /\ wire[a][i].count \in 1..2
              /\ wire[a][i].serial \in 1..MaxSent
         /\ sent[a] \in 0..MaxSent
<1>1. wire[a] \in Seq(Sendable) /\ sent[a] \in 0..MaxSent
  BY DEF InStep, MessagesAreSound
<1>2. Seq(Sendable) \subseteq Seq(Packet)
  <2>1. Sendable \subseteq Packet
    BY DEF Sendable
  <2> HIDE DEF Sendable, Packet
  <2> QED  BY <2>1
<1>3. wire[a] \in Seq(Packet)
  BY <1>1, <1>2
<1>4. \A i \in 1..Len(wire[a]) : wire[a][i] \in Packet
  <2> HIDE DEF Packet
  <2> QED  BY <1>3
<1>5. \A p \in Packet : p.count \in 1..2 /\ p.serial \in 1..MaxSent
  BY DEF Packet
<1> QED  BY <1>1, <1>3, <1>4, <1>5

\* What publishing puts on the wire
LEMMA MessageShape ==
  ASSUME InStep, NEW a \in Agent, NEW kind, NEW about, NEW n \in 1..2
  PROVE  LET m == Message(a, kind, about, n)
         IN  /\ Len(m) = n + 1 /\ m[1].kind = kind /\ m[1].count = n
             /\ \A i \in 1..Len(m) : m[i].sender = a /\ m[i].serial = sent[a] + 1
             /\ \A k \in 1..n : Trails(m[k + 1], Id(m[1]), k)
<1> DEFINE part(k, i, x) == [sender |-> a, serial |-> sent[a] + 1, kind |-> k, count |-> i,
                             about |-> x]
           rest == [i \in 1..n |-> part("value", i, None)]
           m == Message(a, kind, about, n)
<1>1. m = <<part(kind, n, about)>> \o rest
  BY DEF Message
<1>2. /\ rest \in Seq({part("value", i, None) : i \in 1..n}) /\ Len(rest) = n
      /\ \A k \in 1..n : rest[k] = part("value", k, None)
  <2> DEFINE S == {part("value", i, None) : i \in 1..n}
  <2>1. \A i \in 1..n : part("value", i, None) \in S
    OBVIOUS
  <2> HIDE DEF part, S
  <2>2. rest \in Seq(S) /\ Len(rest) = n
    BY <2>1
  <2>3. \A k \in 1..n : rest[k] = part("value", k, None)
    OBVIOUS
  <2> QED  BY <2>2, <2>3 DEF S
<1>3. /\ Len(m) = n + 1 /\ m[1] = part(kind, n, about)
      /\ \A k \in 1..n : m[k + 1] = part("value", k, None)
  <2> HIDE DEF part, rest, m
  <2> QED  BY <1>1, <1>2
<1>4. \A i \in 1..Len(m) : i = 1 \/ (i - 1 \in 1..n /\ i = (i - 1) + 1)
  BY <1>3
<1>5. \A k, i, x : LET p == part(k, i, x)
                   IN  /\ p.sender = a /\ p.serial = sent[a] + 1 /\ p.kind = k /\ p.count = i
                       /\ Id(p) = <<a, sent[a] + 1>>
  BY DEF Id
<1> HIDE DEF m, part
<1>6. \A i \in 1..Len(m) : m[i].sender = a /\ m[i].serial = sent[a] + 1
  <2>1. m[1].sender = a /\ m[1].serial = sent[a] + 1
    BY <1>3, <1>5
  <2>2. \A k \in 1..n : m[k + 1].sender = a /\ m[k + 1].serial = sent[a] + 1
    BY <1>3, <1>5
  <2>3. ASSUME NEW i \in 1..Len(m), i # 1
        PROVE  m[i].sender = a /\ m[i].serial = sent[a] + 1
    <3>1. i - 1 \in 1..n /\ m[i] = m[(i - 1) + 1]
      BY <1>4, <2>3
    <3> QED  BY <2>2, <3>1
  <2> QED  BY <2>1, <2>3
<1>7. \A k \in 1..n : Trails(m[k + 1], Id(m[1]), k)
  <2>1. Id(m[1]) = <<a, sent[a] + 1>>
    BY <1>3, <1>5
  <2>2. \A k \in 1..n : /\ Id(m[k + 1]) = <<a, sent[a] + 1>> /\ m[k + 1].kind = "value"
                        /\ m[k + 1].count = k
    BY <1>3, <1>5
  <2> QED  BY <2>1, <2>2 DEF Trails
<1>8. m[1].kind = kind /\ m[1].count = n
  BY <1>3, <1>5
<1> QED  BY <1>3, <1>6, <1>7, <1>8 DEF m

LEMMA PublishKeepsOrder ==
  ASSUME InStep, InOrder, NEW a \in Agent, NEW kind \in {"return", "telemetry"}, NEW about,
         NEW n \in 1..2, Message(a, kind, about, n) \in Seq(Sendable),
         Publish(a, Message(a, kind, about, n))
  PROVE  InOrder'
<1> DEFINE m == Message(a, kind, about, n)
           w == wire[a]
           id == <<a, sent[a] + 1>>
<1>1. /\ Len(m) = n + 1 /\ m[1].kind # "value" /\ m[1].count = n /\ Id(m[1]) = id
      /\ \A i \in 1..Len(m) : m[i].sender = a /\ m[i].serial = sent[a] + 1
      /\ \A k \in 1..n : Trails(m[k + 1], id, k)
  <2>1. /\ Len(m) = n + 1 /\ m[1].kind = kind /\ m[1].count = n
        /\ \A i \in 1..Len(m) : m[i].sender = a /\ m[i].serial = sent[a] + 1
        /\ \A k \in 1..n : Trails(m[k + 1], Id(m[1]), k)
    BY MessageShape
  <2>2. Id(m[1]) = id
    BY <2>1 DEF Id
  <2> QED  BY <2>1, <2>2
<1>2. /\ wire' = [wire EXCEPT ![a] = @ \o m] /\ sent' = [sent EXCEPT ![a] = @ + 1]
      /\ UNCHANGED <<incompletes, delivered, fault, heard>>
  BY DEF Publish, receiveVars
<1> HIDE DEF m
<1>3. /\ w \in Seq(Sendable) /\ m \in Seq(Sendable) /\ Len(w) \in Nat
      /\ wire \in [Agent -> Seq(Sendable)] /\ sent \in [Agent -> 0..MaxSent]
  BY DEF InStep, MessagesAreSound, m
<1>4. /\ Len(w \o m) = Len(w) + n + 1
      /\ \A i \in 1..Len(w) : (w \o m)[i] = w[i]
      /\ \A i \in 1..(n + 1) : (w \o m)[Len(w) + i] = m[i]
  <2> HIDE DEF w
  <2> QED  BY <1>1, <1>3
<1>5. /\ wire'[a] = w \o m /\ \A b \in Agent \ {a} : wire'[b] = wire[b]
      /\ sent'[a] = sent[a] + 1 /\ \A b \in Agent \ {a} : sent'[b] = sent[b]
  BY <1>2, <1>3
<1>6. ASSUME NEW i \in 1..Len(wire'[a])
      PROVE  \/ i \in 1..Len(w) /\ wire'[a][i] = w[i]
             \/ i = Len(w) + 1 /\ wire'[a][i] = m[1]
             \/ \E k \in 1..n : i = Len(w) + k + 1 /\ wire'[a][i] = m[k + 1]
  <2>1. CASE i \in 1..Len(w)
    BY <1>4, <1>5, <2>1
  <2>2. CASE i > Len(w)
    <3>1. i - Len(w) \in 1..(n + 1) /\ i = Len(w) + (i - Len(w))
      BY <1>3, <1>4, <1>5, <2>2
    <3>2. wire'[a][i] = m[i - Len(w)]
      BY <1>4, <1>5, <3>1
    <3>3. CASE i - Len(w) = 1
      BY <1>3, <3>2, <3>3
    <3>4. CASE i - Len(w) # 1
      <4>1. (i - Len(w)) - 1 \in 1..n /\ i = Len(w) + ((i - Len(w)) - 1) + 1
        BY <1>3, <3>1, <3>4
      <4>2. i - Len(w) = ((i - Len(w)) - 1) + 1
        BY <1>3
      <4> QED  BY <3>2, <4>1, <4>2
    <3> QED  BY <3>3, <3>4
  <2> QED  BY <1>3, <2>1, <2>2
<1>7. LeadersAreFollowed'
  <2>1. ASSUME NEW i \in 1..Len(wire'[a]), wire'[a][i].kind # "value",
               NEW k \in 1..wire'[a][i].count
        PROVE  i + k <= Len(wire'[a]) /\ Trails(wire'[a][i + k], Id(wire'[a][i]), k)
    <3>1. CASE i \in 1..Len(w) /\ wire'[a][i] = w[i]
      <4>1. i + k <= Len(w) /\ Trails(w[i + k], Id(w[i]), k)
        BY <2>1, <3>1 DEF InOrder, LeadersAreFollowed
      <4>2. i + k \in 1..Len(w) /\ Len(w) <= Len(w) + n + 1
        <5>1. w[i].count \in 1..2
          BY <3>1, PacketFacts
        <5> QED  BY <1>3, <3>1, <4>1, <5>1
      <4> QED  BY <1>3, <1>4, <1>5, <3>1, <4>1, <4>2
    <3>2. CASE i = Len(w) + 1 /\ wire'[a][i] = m[1]
      <4>1. k \in 1..n
        BY <1>1, <3>2
      <4>2. i + k = Len(w) + (k + 1) /\ k + 1 \in 1..(n + 1) /\ i + k <= Len(w) + n + 1
        BY <1>3, <3>2, <4>1
      <4>3. wire'[a][i + k] = m[k + 1]
        BY <1>4, <1>5, <4>2
      <4>4. Len(wire'[a]) = Len(w) + n + 1 /\ Id(wire'[a][i]) = id
        BY <1>1, <1>4, <1>5, <3>2
      <4>5. Trails(m[k + 1], id, k)
        BY <1>1, <4>1
      <4> QED  BY <4>2, <4>3, <4>4, <4>5
    <3>3. CASE \E k2 \in 1..n : i = Len(w) + k2 + 1 /\ wire'[a][i] = m[k2 + 1]
      BY <1>1, <2>1, <3>3 DEF Trails
    <3> QED  BY <1>6, <3>1, <3>2, <3>3
  <2>2. ASSUME NEW b \in Agent \ {a}, NEW i \in 1..Len(wire'[b]), wire'[b][i].kind # "value",
               NEW k \in 1..wire'[b][i].count
        PROVE  i + k <= Len(wire'[b]) /\ Trails(wire'[b][i + k], Id(wire'[b][i]), k)
    BY <1>5, <2>2 DEF InOrder, LeadersAreFollowed
  <2> QED  BY <2>1, <2>2 DEF LeadersAreFollowed, Id, Trails
<1>8. TrailersFollow'
  <2> DEFINE Behind(v, i) ==
               LET p == v[i]
                   leader == v[i - p.count]
               IN  \/ /\ i > p.count /\ p.count <= leader.count
                      /\ leader.kind # "value" /\ Id(leader) = Id(p)
                   \/ /\ i <= p.count /\ Id(p) \in DOMAIN incompletes
                      /\ Len(incompletes[Id(p)]) = p.count - i + 1
                      /\ p.count <= Head(incompletes[Id(p)]).count
  <2>1. ASSUME NEW i \in 1..Len(wire'[a]), wire'[a][i].kind = "value"
        PROVE  Behind(wire'[a], i)
    <3>1. CASE i \in 1..Len(w) /\ wire'[a][i] = w[i]
      <4>1. Behind(w, i) /\ w[i].count \in 1..2
        BY <2>1, <3>1, PacketFacts DEF InOrder, TrailersFollow
      <4>2. i > w[i].count => i - w[i].count \in 1..Len(w)
        BY <1>3, <3>1, <4>1
      <4>3. i > w[i].count => wire'[a][i - w[i].count] = w[i - w[i].count]
        BY <1>4, <1>5, <4>2
      <4> QED  BY <3>1, <4>1, <4>3
    <3>2. CASE i = Len(w) + 1 /\ wire'[a][i] = m[1]
      BY <1>1, <2>1, <3>2
    <3>3. ASSUME NEW k \in 1..n, i = Len(w) + k + 1, wire'[a][i] = m[k + 1]
          PROVE  Behind(wire'[a], i)
      <4>1. wire'[a][i].count = k /\ Id(wire'[a][i]) = id
        BY <1>1, <3>3 DEF Trails
      <4>2. i - k = Len(w) + 1 /\ 1 \in 1..(n + 1) /\ i > k /\ k <= n
        BY <1>3, <3>3
      <4>3. wire'[a][i - k] = m[1]
        BY <1>4, <1>5, <4>2
      <4> QED  BY <1>1, <4>1, <4>2, <4>3
    <3> HIDE DEF Behind
    <3> QED  BY <1>6, <3>1, <3>2, <3>3
  <2>2. ASSUME NEW b \in Agent \ {a}, NEW i \in 1..Len(wire'[b]), wire'[b][i].kind = "value"
        PROVE  Behind(wire'[b], i)
    BY <1>5, <2>2 DEF InOrder, TrailersFollow
  <2>3. \A b \in Agent : \A i \in 1..Len(wire'[b]) :
          wire'[b][i].kind = "value" => Behind(wire'[b], i)
    <3> HIDE DEF Behind
    <3> QED  BY <2>1, <2>2
  <2> QED  BY <1>2, <2>3 DEF TrailersFollow, Id
<1>9. IncompletesAreStarted'
  <2>1. ASSUME NEW jd \in DOMAIN incompletes, NEW k \in Nat, k + 1 <= Len(wire[jd[1]]),
               jd[1] \in Agent
        PROVE  k + 1 <= Len(wire'[jd[1]]) /\ wire'[jd[1]][k + 1] = wire[jd[1]][k + 1]
    <3>1. CASE jd[1] = a
      <4>1. k + 1 \in 1..Len(w) /\ k + 1 <= Len(w) + n + 1
        BY <1>3, <2>1, <3>1
      <4> QED  BY <1>4, <1>5, <3>1, <4>1
    <3> QED  BY <1>5, <2>1, <3>1
  <2>2. ASSUME NEW jd \in DOMAIN incompletes,
               NEW k \in Len(incompletes[jd])..Head(incompletes[jd]).count
        PROVE  /\ k - Len(incompletes[jd]) + 1 <= Len(wire'[jd[1]])
               /\ Trails(wire'[jd[1]][k - Len(incompletes[jd]) + 1], jd, k)
    <3>1. jd[1] \in Agent /\ k - Len(incompletes[jd]) \in Nat
      <4>1. jd \in Agent \X (1..MaxSent) /\ Len(incompletes[jd]) \in Nat
        BY DEF InOrder, IncompletesAreStarted, InStep, MessagesAreSound
      <4> QED  BY <4>1
    <3>2. /\ k - Len(incompletes[jd]) + 1 <= Len(wire[jd[1]])
          /\ Trails(wire[jd[1]][k - Len(incompletes[jd]) + 1], jd, k)
      BY DEF InOrder, IncompletesAreStarted
    <3> QED  BY <2>1, <3>1, <3>2
  <2>3. ASSUME NEW jd \in DOMAIN incompletes
        PROVE  /\ jd \in Agent \X (1..MaxSent)
               /\ Together(incompletes[jd]) /\ Id(Head(incompletes[jd])) = jd
               /\ Len(incompletes[jd]) <= Head(incompletes[jd]).count
    BY DEF InOrder, IncompletesAreStarted
  <2> QED  BY <1>2, <2>2, <2>3 DEF IncompletesAreStarted
<1>10. SerialsGrow'
  <2>1. \A i \in 1..Len(w) :
          w[i].sender = a /\ w[i].serial \in 1..MaxSent /\ w[i].serial <= sent[a]
    BY PacketFacts DEF InOrder, SerialsGrow
  <2>2. sent[a] \in Nat
    BY <1>3, IpcAssumption
  <2>3. \A i \in 1..Len(wire'[a]) : /\ wire'[a][i].sender = a
                                    /\ wire'[a][i].serial <= sent'[a]
    <3>1. ASSUME NEW i \in 1..Len(wire'[a])
          PROVE  \/ wire'[a][i].sender = a /\ wire'[a][i].serial \in 1..MaxSent
                    /\ wire'[a][i].serial <= sent[a]
                 \/ wire'[a][i].sender = a /\ wire'[a][i].serial = sent[a] + 1
      <4>1. \A k \in 1..n : m[k + 1].sender = a /\ m[k + 1].serial = sent[a] + 1
        BY <1>1
      <4>2. m[1].sender = a /\ m[1].serial = sent[a] + 1
        BY <1>1
      <4>3. wire'[a][i] = m[1] \/ (\E k \in 1..n : wire'[a][i] = m[k + 1])
              \/ (i \in 1..Len(w) /\ wire'[a][i] = w[i])
        BY <1>6
      <4> QED  BY <2>1, <4>1, <4>2, <4>3
    <3>2. sent'[a] = sent[a] + 1 /\ sent[a] + 1 <= sent[a] + 1
      BY <1>5, <2>2
    <3>3. \A s \in 1..MaxSent : s <= sent[a] => s <= sent[a] + 1
      BY <2>2, IpcAssumption
    <3> QED  BY <3>1, <3>2, <3>3
  <2>4. ASSUME NEW i \in 1..Len(wire'[a]), wire'[a][i].kind # "value"
        PROVE  /\ \A j \in 1..(i - 1) : wire'[a][j].serial < wire'[a][i].serial
               /\ <<a, wire'[a][i].serial>> \notin DOMAIN incompletes
               /\ \A h \in heard : h.message.sender = a => h.message.serial < wire'[a][i].serial
    <3>1. CASE i \in 1..Len(w) /\ wire'[a][i] = w[i]
      <4>1. \A j \in 1..(i - 1) : j \in 1..Len(w) /\ wire'[a][j] = w[j]
        BY <1>3, <1>4, <1>5, <3>1
      <4> QED  BY <2>4, <3>1, <4>1 DEF InOrder, SerialsGrow
    <3>2. CASE i = Len(w) + 1 /\ wire'[a][i] = m[1]
      <4>1. wire'[a][i].serial = sent[a] + 1
        BY <1>1, <3>2
      <4>2. \A j \in 1..(i - 1) : j \in 1..Len(w) /\ wire'[a][j] = w[j]
        BY <1>3, <1>4, <1>5, <3>2
      <4>3. \A j \in 1..(i - 1) : wire'[a][j].serial < wire'[a][i].serial
        <5>1. \A j \in 1..(i - 1) : /\ wire'[a][j].serial \in 1..MaxSent
                                    /\ wire'[a][j].serial <= sent[a]
          BY <2>1, <4>2
        <5>2. \A s \in 1..MaxSent : s <= sent[a] => s < sent[a] + 1
          BY <2>2, IpcAssumption
        <5> QED  BY <4>1, <5>1, <5>2
      <4>4. id \notin DOMAIN incompletes
        <5>1. ASSUME id \in DOMAIN incompletes
              PROVE  FALSE
          <6> DEFINE q == incompletes[id]
          <6>1. /\ Len(q) \in Nat /\ Len(q) <= Head(q).count /\ Head(q).count \in 1..2
            <7>1. q \in Seq(Sendable) /\ q # <<>> /\ Len(q) <= Head(q).count
              BY <5>1 DEF InStep, MessagesAreSound, InOrder, IncompletesAreStarted
            <7>2. Head(q) \in Packet /\ Len(q) \in Nat
              <8>1. Head(q) \in Sendable
                <9> HIDE DEF q, Sendable
                <9> QED  BY <7>1
              <8> QED  BY <7>1, <8>1 DEF Sendable
            <7> QED  BY <7>1, <7>2 DEF Packet
          <6>2. Len(q) - Len(q) + 1 = 1 /\ Len(q) \in Len(q)..Head(q).count
            BY <6>1
          <6>3. 1 <= Len(wire[a]) /\ Trails(wire[a][1], id, Len(q))
            BY <5>1, <6>2 DEF InOrder, IncompletesAreStarted
          <6>4. wire[a][1].serial = sent[a] + 1 /\ 1 \in 1..Len(w)
            BY <1>3, <6>3 DEF Trails, Id
          <6> QED  BY <2>1, <2>2, <6>4
        <5> QED  BY <5>1
      <4>5. \A h \in heard : h.message.sender = a => h.message.serial < wire'[a][i].serial
        <5>1. \A h \in heard : /\ h.message.serial \in 1..MaxSent
                               /\ h.message.serial <= sent[h.message.sender]
          BY DEF InOrder, HeardAreOver, Packet
        <5> QED  BY <2>2, <4>1, <5>1
      <4> QED  BY <4>1, <4>3, <4>4, <4>5
    <3>3. CASE \E k \in 1..n : i = Len(w) + k + 1 /\ wire'[a][i] = m[k + 1]
      BY <1>1, <2>4, <3>3 DEF Trails
    <3> QED  BY <1>6, <3>1, <3>2, <3>3
  <2>5. ASSUME NEW b \in Agent \ {a}
        PROVE  wire'[b] = wire[b] /\ sent'[b] = sent[b]
    BY <1>5
  <2>6. UNCHANGED <<incompletes, heard>>
    BY <1>2
  <2>7. ASSUME NEW b \in Agent \ {a}
        PROVE  /\ \A i \in 1..Len(wire'[b]) :
                    wire'[b][i].sender = b /\ wire'[b][i].serial <= sent'[b]
               /\ \A i \in 1..Len(wire'[b]) : wire'[b][i].kind # "value" =>
                    /\ \A j \in 1..(i - 1) : wire'[b][j].serial < wire'[b][i].serial
                    /\ <<b, wire'[b][i].serial>> \notin DOMAIN incompletes
                    /\ \A h \in heard :
                         h.message.sender = b => h.message.serial < wire'[b][i].serial
    BY <2>5 DEF InOrder, SerialsGrow
  <2> HIDE DEF w, id
  <2>8. ASSUME NEW b \in Agent
        PROVE  /\ \A i \in 1..Len(wire'[b]) :
                    wire'[b][i].sender = b /\ wire'[b][i].serial <= sent'[b]
               /\ \A i \in 1..Len(wire'[b]) : wire'[b][i].kind # "value" =>
                    /\ \A j \in 1..(i - 1) : wire'[b][j].serial < wire'[b][i].serial
                    /\ <<b, wire'[b][i].serial>> \notin DOMAIN incompletes
                    /\ \A h \in heard :
                         h.message.sender = b => h.message.serial < wire'[b][i].serial
    <3>1. CASE b = a
      BY <2>3, <2>4, <3>1
    <3> QED  BY <2>7, <3>1
  <2> QED  BY <2>6, <2>8 DEF SerialsGrow
<1>11. HeardAreOver'
  <2>1. \A b \in Agent : sent[b] \in Nat /\ sent[b] <= sent'[b] /\ sent'[b] \in Nat
    BY <1>3, <1>5, IpcAssumption
  <2>2. \A h \in heard : /\ h.message \in Packet /\ h.message.sender \in Agent
                         /\ h.message.serial \in Nat
                         /\ h.message.serial <= sent[h.message.sender]
    BY DEF InOrder, HeardAreOver, Packet
  <2>3. \A h \in heard : h.message.serial <= sent'[h.message.sender]
    BY <2>1, <2>2
  <2> QED  BY <1>2, <2>2, <2>3 DEF InOrder, HeardAreOver, Id
<1>12. DeliveredIsWhole' /\ ~fault'
  BY <1>2 DEF InOrder, DeliveredIsWhole, Together, Id
<1> QED  BY <1>7, <1>8, <1>9, <1>10, <1>11, <1>12 DEF InOrder

\* What is received is the first packet of an agent's; a message of that agent that has
\* begun to arrive is the one it belongs to.
LEMMA ReceiveShape ==
  ASSUME InStep, InOrder, NEW a \in Agent, Receive(a)
  PROVE  LET w == wire[a]
         IN  /\ Len(w) \in Nat /\ 1 \in 1..Len(w) /\ Head(w) = w[1] /\ Len(wire'[a]) = Len(w) - 1
             /\ \A i \in 1..(Len(w) - 1) : wire'[a][i] = w[i + 1]
             /\ \A b \in Agent \ {a} : wire'[b] = wire[b]
             /\ w[1] \in Packet /\ w[1].count \in 1..2 /\ Id(w[1]) = <<a, w[1].serial>>
             /\ \A id \in DOMAIN incompletes : id[1] = a => id = Id(w[1]) /\ w[1].kind = "value"
             /\ sent' = sent /\ LeadersAreFollowed'
<1> DEFINE w == wire[a]
<1>1. /\ w \in Seq(Packet) /\ Len(w) \in Nat
      /\ \A i \in 1..Len(w) : w[i] \in Packet /\ w[i].count \in 1..2
  BY PacketFacts
<1>2. w # <<>> /\ wire' = [wire EXCEPT ![a] = Tail(@)] /\ sent' = sent
  BY DEF Receive
<1>3. wire'[a] = Tail(w) /\ \A b \in Agent \ {a} : wire'[b] = wire[b]
  BY <1>2 DEF InStep, MessagesAreSound
<1>4. /\ 1 \in 1..Len(w) /\ Head(w) = w[1] /\ Len(wire'[a]) = Len(w) - 1
      /\ \A i \in 1..(Len(w) - 1) : wire'[a][i] = w[i + 1]
  <2> HIDE DEF w, Packet
  <2>1. Len(w) # 0 /\ 1 \in 1..Len(w) /\ Head(w) = w[1]
    BY <1>1, <1>2
  <2>2. Len(Tail(w)) = Len(w) - 1 /\ \A i \in 1..(Len(w) - 1) : Tail(w)[i] = w[i + 1]
    BY <1>1, <1>2, HeadTailProperties
  <2> QED  BY <1>3, <2>1, <2>2
<1>5. Id(w[1]) = <<a, w[1].serial>>
  BY <1>4 DEF InOrder, SerialsGrow, Id
<1>6. ASSUME NEW id \in DOMAIN incompletes, id[1] = a
      PROVE  id = Id(w[1]) /\ w[1].kind = "value"
  <2> DEFINE q == incompletes[id]
  <2>1. /\ q \in Seq(Sendable) /\ q # <<>> /\ Len(q) <= Head(q).count
    BY DEF InStep, MessagesAreSound, InOrder, IncompletesAreStarted
  <2>2. Head(q) \in Sendable /\ Len(q) \in Nat
    <3> HIDE DEF q, Sendable
    <3> QED  BY <2>1
  <2>3. Len(q) \in Len(q)..Head(q).count /\ Len(q) - Len(q) + 1 = 1
    <3>1. Head(q).count \in 1..2
      BY <2>2 DEF Sendable, Packet
    <3> QED  BY <2>1, <2>2, <3>1
  <2>4. Trails(w[1], id, Len(q))
    BY <1>6, <2>3 DEF InOrder, IncompletesAreStarted
  <2> QED  BY <2>4 DEF Trails
<1>7. LeadersAreFollowed'
  <2>1. ASSUME NEW i \in 1..Len(wire'[a]), wire'[a][i].kind # "value",
               NEW k \in 1..wire'[a][i].count
        PROVE  i + k <= Len(wire'[a]) /\ Trails(wire'[a][i + k], Id(wire'[a][i]), k)
    <3>1. i + 1 \in 1..Len(w) /\ i \in 1..(Len(w) - 1) /\ wire'[a][i] = w[i + 1]
      BY <1>1, <1>4
    <3>2. (i + 1) + k <= Len(w) /\ Trails(w[(i + 1) + k], Id(w[i + 1]), k)
      BY <2>1, <3>1 DEF InOrder, LeadersAreFollowed
    <3>3. k \in Nat /\ w[i + 1].count \in 1..2
      BY <1>1, <3>1
    <3>4. /\ i + k \in 1..(Len(w) - 1) /\ (i + 1) + k = (i + k) + 1
          /\ i + k <= Len(wire'[a])
      BY <1>1, <1>4, <3>1, <3>2, <3>3
    <3> QED  BY <1>4, <3>1, <3>2, <3>4
  <2>2. ASSUME NEW b \in Agent \ {a}, NEW i \in 1..Len(wire'[b]), wire'[b][i].kind # "value",
               NEW k \in 1..wire'[b][i].count
        PROVE  i + k <= Len(wire'[b]) /\ Trails(wire'[b][i + k], Id(wire'[b][i]), k)
    BY <1>3, <2>2 DEF InOrder, LeadersAreFollowed
  <2> QED  BY <2>1, <2>2 DEF LeadersAreFollowed
<1> QED  BY <1>1, <1>2, <1>3, <1>4, <1>5, <1>6, <1>7

\* A leader begins a message of its own.
LEMMA LeaderKeepsOrder ==
  ASSUME InStep, InOrder, NEW a \in Agent, Receive(a), CacheMessageLeader(Head(wire[a]))
  PROVE  InOrder'
<1> DEFINE w == wire[a]
           p == w[1]
           id == <<a, p.serial>>
<1>1. /\ Len(w) \in Nat /\ 1 \in 1..Len(w) /\ Head(w) = p /\ Len(wire'[a]) = Len(w) - 1
      /\ \A i \in 1..(Len(w) - 1) : wire'[a][i] = w[i + 1]
      /\ \A b \in Agent \ {a} : wire'[b] = wire[b]
      /\ p \in Packet /\ p.count \in 1..2 /\ Id(p) = id
      /\ \A jd \in DOMAIN incompletes : jd[1] = a => jd = Id(p) /\ p.kind = "value"
      /\ sent' = sent /\ LeadersAreFollowed'
  BY ReceiveShape
<1>2. p.kind # "value" /\ NothingHandled
  BY <1>1 DEF CacheMessageLeader
<1>3. \A jd \in DOMAIN incompletes : jd[1] # a
  BY <1>1, <1>2
<1>4. id \notin DOMAIN incompletes
  BY <1>3
<1>5. /\ incompletes' = [jd \in DOMAIN incompletes \cup {id} |->
                           IF jd \in DOMAIN incompletes THEN incompletes[jd] ELSE <<p>>]
      /\ UNCHANGED <<fault, delivered, heard>>
  BY <1>1, <1>2, <1>4 DEF CacheMessageLeader, NothingHandled
<1>6. /\ DOMAIN incompletes' = DOMAIN incompletes \cup {id} /\ incompletes'[id] = <<p>>
      /\ \A jd \in DOMAIN incompletes : incompletes'[jd] = incompletes[jd]
  BY <1>4, <1>5
<1>7. /\ \A i \in 1..Len(w) : /\ w[i] \in Packet /\ w[i].count \in 1..2
                              /\ w[i].serial \in 1..MaxSent
      /\ \A i \in 1..Len(w) : w[i].sender = a /\ w[i].serial <= sent[a] /\ Id(w[i])[1] = a
  BY PacketFacts DEF InOrder, SerialsGrow, Id
<1>8. ASSUME NEW i \in 1..Len(wire'[a])
      PROVE  i + 1 \in 1..Len(w) /\ wire'[a][i] = w[i + 1] /\ i \in Nat
  BY <1>1
<1>9. TrailersFollow'
  <2> DEFINE Behind(v, i, inc) ==
               LET packet == v[i]
                   leader == v[i - packet.count]
               IN  \/ /\ i > packet.count /\ packet.count <= leader.count
                      /\ leader.kind # "value" /\ Id(leader) = Id(packet)
                   \/ /\ i <= packet.count /\ Id(packet) \in DOMAIN inc
                      /\ Len(inc[Id(packet)]) = packet.count - i + 1
                      /\ packet.count <= Head(inc[Id(packet)]).count
  <2>1. ASSUME NEW i \in 1..Len(wire'[a]), wire'[a][i].kind = "value"
        PROVE  Behind(wire'[a], i, incompletes')
    <3> DEFINE k == w[i + 1].count
    <3>1. /\ i + 1 \in 1..Len(w) /\ wire'[a][i] = w[i + 1] /\ w[i + 1].kind = "value"
          /\ k \in 1..2 /\ i \in Nat
      BY <1>7, <1>8, <2>1
    <3>2. Behind(w, i + 1, incompletes)
      BY <3>1 DEF InOrder, TrailersFollow
    <3>3. Id(w[i + 1]) \notin DOMAIN incompletes
      BY <1>3, <1>7, <3>1
    <3>4. /\ i + 1 > k /\ k <= w[(i + 1) - k].count
          /\ w[(i + 1) - k].kind # "value" /\ Id(w[(i + 1) - k]) = Id(w[i + 1])
      BY <3>2, <3>3
    <3>5. Len(w) \in Nat /\ i + 1 <= Len(w)
      BY <1>1, <3>1
    <3>6. CASE i = k
      <4>1. (i + 1) - k = 1 /\ k - i + 1 = 1 /\ i <= k
        <5> HIDE DEF k
        <5> QED  BY <3>1, <3>6
      <4>2. Id(p) = Id(w[i + 1]) /\ k <= p.count
        BY <3>4, <4>1
      <4>3. Len(<<p>>) = 1 /\ Head(<<p>>) = p
        OBVIOUS
      <4>4. /\ Id(w[i + 1]) \in DOMAIN incompletes' /\ incompletes'[Id(w[i + 1])] = <<p>>
        BY <1>1, <1>6, <4>2
      <4> HIDE DEF p
      <4> QED  BY <3>1, <4>1, <4>2, <4>3, <4>4
    <3>7. CASE i # k
      <4>1. i > k /\ i - k \in 1..(Len(w) - 1) /\ (i - k) + 1 = (i + 1) - k
        <5> HIDE DEF k
        <5> QED  BY <3>1, <3>4, <3>5, <3>7
      <4>2. wire'[a][i - k] = w[(i + 1) - k]
        BY <1>1, <4>1
      <4> QED  BY <3>1, <3>4, <4>1, <4>2
    <3> HIDE DEF Behind
    <3> QED  BY <3>6, <3>7
  <2>2. ASSUME NEW b \in Agent \ {a}, NEW i \in 1..Len(wire'[b]), wire'[b][i].kind = "value"
        PROVE  Behind(wire'[b], i, incompletes')
    <3>1. wire'[b] = wire[b] /\ Behind(wire[b], i, incompletes)
      BY <1>1, <2>2 DEF InOrder, TrailersFollow
    <3> QED  BY <1>6, <3>1
  <2>3. \A b \in Agent : \A i \in 1..Len(wire'[b]) :
          wire'[b][i].kind = "value" => Behind(wire'[b], i, incompletes')
    <3> HIDE DEF Behind
    <3> QED  BY <2>1, <2>2
  <2> QED  BY <2>3 DEF TrailersFollow, Id
<1>10. IncompletesAreStarted'
  <2> DEFINE Started(jd, message) ==
               /\ jd \in Agent \X (1..MaxSent)
               /\ Together(message) /\ Id(Head(message)) = jd
               /\ Len(message) <= Head(message).count
               /\ \A k \in Len(message)..Head(message).count :
                    /\ k - Len(message) + 1 <= Len(wire'[jd[1]])
                    /\ Trails(wire'[jd[1]][k - Len(message) + 1], jd, k)
  <2>1. ASSUME NEW jd \in DOMAIN incompletes
        PROVE  Started(jd, incompletes'[jd])
    <3>1. jd[1] \in Agent /\ jd[1] # a
      BY <1>3 DEF InOrder, IncompletesAreStarted
    <3>2. wire'[jd[1]] = wire[jd[1]] /\ incompletes'[jd] = incompletes[jd]
      BY <1>1, <1>6, <3>1
    <3> QED  BY <3>2 DEF InOrder, IncompletesAreStarted
  <2>2. Started(id, <<p>>)
    <3>1. Len(<<p>>) = 1 /\ Head(<<p>>) = p
      OBVIOUS
    <3>2. id \in Agent \X (1..MaxSent) /\ Id(Head(<<p>>)) = id /\ Len(<<p>>) <= Head(<<p>>).count
      BY <1>1, <1>7, <3>1
    <3>3. Together(<<p>>)
      BY <1>2, <3>1 DEF Together
    <3>4. ASSUME NEW k \in 1..p.count
          PROVE  /\ k - 1 + 1 <= Len(wire'[a])
                 /\ Trails(wire'[a][k - 1 + 1], id, k)
      <4>1. 1 + k <= Len(w) /\ Trails(w[1 + k], id, k)
        BY <1>1, <1>2 DEF InOrder, LeadersAreFollowed
      <4>2. k - 1 + 1 = k /\ k \in 1..(Len(w) - 1) /\ 1 + k = k + 1
        BY <1>1, <4>1
      <4> QED  BY <1>1, <4>1, <4>2
    <3> HIDE DEF w
    <3> QED  BY <3>1, <3>2, <3>3, <3>4
  <2>3. \A jd \in DOMAIN incompletes' : Started(jd, incompletes'[jd])
    <3> HIDE DEF Started
    <3> QED  BY <1>6, <2>1, <2>2
  <2> QED  BY <2>3 DEF IncompletesAreStarted
<1>11. SerialsGrow'
  <2> DEFINE Grow(b, v) ==
               /\ \A i \in 1..Len(v) : v[i].sender = b /\ v[i].serial <= sent[b]
               /\ \A i \in 1..Len(v) : v[i].kind # "value" =>
                    /\ \A j \in 1..(i - 1) : v[j].serial < v[i].serial
                    /\ <<b, v[i].serial>> \notin DOMAIN incompletes'
                    /\ \A h \in heard : h.message.sender = b => h.message.serial < v[i].serial
  <2>1. ASSUME NEW i \in 1..Len(wire'[a]), wire'[a][i].kind # "value"
        PROVE  /\ \A j \in 1..(i - 1) : wire'[a][j].serial < wire'[a][i].serial
               /\ <<a, wire'[a][i].serial>> \notin DOMAIN incompletes'
               /\ \A h \in heard : h.message.sender = a => h.message.serial < wire'[a][i].serial
    <3>1. i + 1 \in 1..Len(w) /\ wire'[a][i] = w[i + 1] /\ w[i + 1].kind # "value" /\ i \in Nat
      BY <1>8, <2>1
    <3>2. /\ \A j \in 1..((i + 1) - 1) : w[j].serial < w[i + 1].serial
          /\ <<a, w[i + 1].serial>> \notin DOMAIN incompletes
          /\ \A h \in heard : h.message.sender = a => h.message.serial < w[i + 1].serial
      BY <3>1 DEF InOrder, SerialsGrow
    <3>3. \A j \in 1..(i - 1) : /\ j + 1 \in 1..((i + 1) - 1) /\ j \in 1..(Len(w) - 1)
                                /\ wire'[a][j] = w[j + 1]
      <4>1. Len(w) \in Nat /\ i + 1 <= Len(w) /\ i \in Nat
        BY <1>1, <3>1
      <4>2. \A j \in 1..(i - 1) : j + 1 \in 1..((i + 1) - 1) /\ j \in 1..(Len(w) - 1)
        BY <4>1
      <4> QED  BY <1>1, <4>2
    <3>4. \A j \in 1..(i - 1) : wire'[a][j].serial < wire'[a][i].serial
      BY <3>1, <3>2, <3>3
    <3>5. p.serial < w[i + 1].serial /\ p.serial \in 1..MaxSent /\ w[i + 1].serial \in 1..MaxSent
      <4>1. 1 \in 1..((i + 1) - 1)
        BY <1>1, <1>8
      <4> QED  BY <1>1, <1>7, <3>1, <3>2, <4>1
    <3>6. <<a, w[i + 1].serial>> # id
      BY <3>5, IpcAssumption
    <3> QED  BY <1>6, <3>1, <3>2, <3>4, <3>6
  <2>2. Grow(a, wire'[a])
    <3>1. \A i \in 1..Len(wire'[a]) : wire'[a][i].sender = a /\ wire'[a][i].serial <= sent[a]
      BY <1>7, <1>8
    <3> QED  BY <2>1, <3>1
  <2>3. ASSUME NEW b \in Agent \ {a}
        PROVE  Grow(b, wire'[b])
    <3>1. wire'[b] = wire[b] /\ \A x : <<b, x>> # id
      BY <1>1
    <3> QED  BY <1>6, <3>1 DEF InOrder, SerialsGrow
  <2>4. \A b \in Agent : Grow(b, wire'[b])
    <3> HIDE DEF Grow
    <3> QED  BY <2>2, <2>3
  <2> QED  BY <1>1, <1>5, <2>4 DEF SerialsGrow
<1>12. HeardAreOver'
  <2>1. ASSUME NEW h \in heard
        PROVE  Id(h.message) # id
    <3>1. h.message.sender = a => h.message.serial < p.serial
      BY <1>1, <1>2 DEF InOrder, SerialsGrow
    <3>2. h.message.serial \in 1..MaxSent /\ p.serial \in 1..MaxSent
      BY <1>1, <1>7 DEF InOrder, HeardAreOver, Packet
    <3> QED  BY <3>1, <3>2, IpcAssumption DEF Id
  <2> QED  BY <1>1, <1>5, <1>6, <2>1 DEF InOrder, HeardAreOver, Id
<1>13. DeliveredIsWhole' /\ ~fault'
  BY <1>5 DEF InOrder, DeliveredIsWhole, Together, Id
<1> QED  BY <1>1, <1>9, <1>10, <1>11, <1>12, <1>13 DEF InOrder

\* A trailer goes to the message it belongs to, at its place.
LEMMA TrailerShape ==
  ASSUME InStep, InOrder, NEW a \in Agent, Receive(a), CacheMessageTrailer(Head(wire[a]))
  PROVE  LET p == wire[a][1]
             message == Append(incompletes[Id(p)], p)
             k == Len(incompletes[Id(p)])
         IN  /\ p.kind = "value" /\ Id(p) \in DOMAIN incompletes
             /\ k \in Nat \ {0} /\ p.count = k /\ k <= Head(message).count
             /\ Len(message) = k + 1 /\ Head(message) = Head(incompletes[Id(p)])
             /\ Together(message) /\ Id(Head(message)) = Id(p) /\ Head(message) \in Packet
             /\ \/ /\ k + 1 > Head(message).count
                   /\ incompletes' = Restrict(incompletes, DOMAIN incompletes \ {Id(p)})
                   /\ Deliver(message)
                \/ /\ k + 1 <= Head(message).count
                   /\ incompletes' = [incompletes EXCEPT ![Id(p)] = message]
                   /\ NothingHandled
             /\ fault' = fault
<1> DEFINE w == wire[a]
           p == w[1]
           q == incompletes[Id(p)]
           message == Append(q, p)
           k == Len(q)
<1>1. /\ Len(w) \in Nat /\ 1 \in 1..Len(w) /\ Head(w) = p
      /\ p \in Packet /\ p.count \in 1..2 /\ Id(p) = <<a, p.serial>>
  BY ReceiveShape
<1>2. p.kind = "value" /\ fault' = fault
  BY <1>1 DEF CacheMessageTrailer
<1>3. /\ Id(p) \in DOMAIN incompletes /\ Len(q) = p.count - 1 + 1
      /\ p.count <= Head(q).count
  <2>1. ~(1 > p.count)
    BY <1>1
  <2> QED  BY <1>1, <1>2, <2>1 DEF InOrder, TrailersFollow
<1>4. k \in Nat \ {0} /\ p.count = k /\ k <= Head(q).count
  BY <1>1, <1>3
<1>5. q \in Seq(Packet) /\ q # <<>>
  <2>1. q \in Seq(Sendable) /\ q # <<>>
    BY <1>3 DEF InStep, MessagesAreSound
  <2>2. Sendable \subseteq Packet
    BY DEF Sendable
  <2> HIDE DEF Sendable, Packet, q
  <2> QED  BY <2>1, <2>2
<1>6. /\ Len(message) = k + 1 /\ Head(message) = Head(q) /\ Head(q) = q[1] /\ Head(q) \in Packet
      /\ message[k + 1] = p /\ \A i \in 1..k : message[i] = q[i]
  <2> HIDE DEF Packet, q, p
  <2>1. Head(message) = Head(q)
    BY <1>1, <1>5, AppendKeepsHead
  <2>2. Len(message) = k + 1 /\ message[k + 1] = p /\ \A i \in 1..k : message[i] = q[i]
    BY <1>1, <1>5
  <2>3. Head(q) = q[1] /\ Head(q) \in Packet
    BY <1>5
  <2> QED  BY <2>1, <2>2, <2>3
<1>7. Together(q) /\ Id(Head(q)) = Id(p)
  BY <1>3 DEF InOrder, IncompletesAreStarted
<1>8. Together(message)
  <2>1. ASSUME NEW i \in 2..(k + 1)
        PROVE  /\ message[i].kind = "value" /\ message[i].count = i - 1
               /\ Id(message[i]) = Id(Head(message))
    <3>1. CASE i = k + 1
      <4>1. message[i] = p /\ i - 1 = k
        BY <1>4, <1>6, <3>1
      <4> HIDE DEF message, p, k, q
      <4> QED  BY <1>2, <1>4, <1>6, <1>7, <4>1
    <3>2. CASE i # k + 1
      <4>1. i \in 2..k /\ i \in 1..k
        BY <1>4, <3>2
      <4>2. q[i].kind = "value" /\ q[i].count = i - 1 /\ Id(q[i]) = Id(Head(q))
        BY <1>7, <4>1 DEF Together
      <4>3. message[i] = q[i] /\ Head(message) = Head(q)
        BY <1>6, <4>1
      <4> QED  BY <4>2, <4>3
    <3> QED  BY <3>1, <3>2
  <2>2. Head(message).kind # "value"
    BY <1>6, <1>7 DEF Together
  <2> HIDE DEF message
  <2> QED  BY <1>6, <2>1, <2>2 DEF Together
<1>9. \/ /\ k + 1 > Head(message).count
         /\ incompletes' = Restrict(incompletes, DOMAIN incompletes \ {Id(p)})
         /\ Deliver(message)
      \/ /\ k + 1 <= Head(message).count
         /\ incompletes' = [incompletes EXCEPT ![Id(p)] = message]
         /\ NothingHandled
  <2>1. CacheMessageTrailer(p)
    BY <1>1
  <2>2. Head(message).count \in Nat /\ k \in Nat
    BY <1>4, <1>6 DEF Packet
  <2>3. \/ /\ Len(message) > Head(message).count
           /\ incompletes' = Restrict(incompletes, DOMAIN incompletes \ {Id(p)})
           /\ Deliver(message)
        \/ /\ ~(Len(message) > Head(message).count)
           /\ incompletes' = [incompletes EXCEPT ![Id(p)] = message]
           /\ NothingHandled
    BY <1>3, <2>1 DEF CacheMessageTrailer
  <2> HIDE DEF message
  <2> QED  BY <1>6, <2>2, <2>3
<1> HIDE DEF message
<1> QED  BY <1>2, <1>3, <1>4, <1>6, <1>7, <1>8, <1>9 DEF message

\* Whatever is begun after a trailer has come: its own message with one packet more, or
\* without it when it is whole.
LEMMA TrailerKeepsOrder ==
  ASSUME InStep, InOrder, NEW a \in Agent, Receive(a), CacheMessageTrailer(Head(wire[a]))
  PROVE  InOrder'
<1> DEFINE w == wire[a]
           p == w[1]
           id == Id(p)
           q == incompletes[id]
           message == Append(q, p)
           k == Len(q)
<1>1. /\ Len(w) \in Nat /\ 1 \in 1..Len(w) /\ Len(wire'[a]) = Len(w) - 1
      /\ \A i \in 1..(Len(w) - 1) : wire'[a][i] = w[i + 1]
      /\ \A b \in Agent \ {a} : wire'[b] = wire[b]
      /\ id = <<a, p.serial>>
      /\ \A jd \in DOMAIN incompletes : jd[1] = a => jd = id
      /\ sent' = sent /\ LeadersAreFollowed'
  BY ReceiveShape
<1>2. /\ p.kind = "value" /\ id \in DOMAIN incompletes
      /\ k \in Nat \ {0} /\ p.count = k /\ k <= Head(message).count
      /\ Len(message) = k + 1 /\ Head(message) = Head(q)
      /\ Together(message) /\ Id(Head(message)) = id /\ Head(message) \in Packet
      /\ fault' = fault
  BY TrailerShape
<1>3. \/ /\ k + 1 > Head(message).count
         /\ incompletes' = Restrict(incompletes, DOMAIN incompletes \ {id})
         /\ Deliver(message)
      \/ /\ k + 1 <= Head(message).count
         /\ incompletes' = [incompletes EXCEPT ![id] = message]
         /\ NothingHandled
  BY TrailerShape
<1>4. /\ \A jd \in DOMAIN incompletes \ {id} :
           jd \in DOMAIN incompletes' /\ incompletes'[jd] = incompletes[jd]
      /\ \A jd \in DOMAIN incompletes' : jd \in DOMAIN incompletes
      /\ id \in DOMAIN incompletes' =>
           /\ incompletes'[id] = message /\ k + 1 <= Head(message).count /\ NothingHandled
      /\ id \notin DOMAIN incompletes' => k + 1 > Head(message).count /\ Deliver(message)
  <2>1. CASE /\ k + 1 > Head(message).count
             /\ incompletes' = Restrict(incompletes, DOMAIN incompletes \ {id})
             /\ Deliver(message)
    <3>1. incompletes' = [jd \in DOMAIN incompletes \ {id} |-> incompletes[jd]]
      BY <2>1 DEF Restrict
    <3> HIDE DEF id, message, k
    <3> QED  BY <2>1, <3>1
  <2>2. CASE /\ k + 1 <= Head(message).count
             /\ incompletes' = [incompletes EXCEPT ![id] = message]
             /\ NothingHandled
    <3> HIDE DEF id, message, k
    <3> QED  BY <1>2, <2>2
  <2> QED  BY <1>3, <2>1, <2>2
<1>5. /\ \A i \in 1..Len(w) : /\ w[i] \in Packet /\ w[i].count \in 1..2
                              /\ w[i].serial \in 1..MaxSent
      /\ \A i \in 1..Len(w) : w[i].sender = a /\ w[i].serial <= sent[a] /\ Id(w[i])[1] = a
  BY PacketFacts DEF InOrder, SerialsGrow, Id
<1>6. ASSUME NEW i \in 1..Len(wire'[a])
      PROVE  /\ i + 1 \in 1..Len(w) /\ wire'[a][i] = w[i + 1] /\ i \in Nat
             /\ i + 1 <= Len(w) /\ Len(w) \in Nat
  BY <1>1
<1> HIDE DEF message, q, id
<1>7. ASSUME NEW jd \in DOMAIN incompletes, jd # id
      PROVE  /\ jd[1] \in Agent /\ jd[1] # a /\ wire'[jd[1]] = wire[jd[1]]
  BY <1>1, <1>7 DEF InOrder, IncompletesAreStarted
<1>8. TrailersFollow'
  <2> DEFINE Behind(v, i, inc) ==
               LET packet == v[i]
                   leader == v[i - packet.count]
               IN  \/ /\ i > packet.count /\ packet.count <= leader.count
                      /\ leader.kind # "value" /\ Id(leader) = Id(packet)
                   \/ /\ i <= packet.count /\ Id(packet) \in DOMAIN inc
                      /\ Len(inc[Id(packet)]) = packet.count - i + 1
                      /\ packet.count <= Head(inc[Id(packet)]).count
  <2>1. ASSUME NEW i \in 1..Len(wire'[a]), wire'[a][i].kind = "value"
        PROVE  Behind(wire'[a], i, incompletes')
    <3> DEFINE c == w[i + 1].count
    <3>1. /\ i + 1 \in 1..Len(w) /\ wire'[a][i] = w[i + 1] /\ w[i + 1].kind = "value"
          /\ c \in 1..2 /\ i \in Nat /\ i + 1 <= Len(w) /\ Len(w) \in Nat
      BY <1>5, <1>6, <2>1
    <3>2. Behind(w, i + 1, incompletes)
      BY <3>1 DEF InOrder, TrailersFollow
    <3>3. CASE /\ i + 1 > c /\ c <= w[(i + 1) - c].count
               /\ w[(i + 1) - c].kind # "value" /\ Id(w[(i + 1) - c]) = Id(w[i + 1])
      <4>1. (i + 1) - c # 1
        BY <1>2, <3>3
      <4>2. i > c /\ i - c \in 1..(Len(w) - 1) /\ (i - c) + 1 = (i + 1) - c
        <5> HIDE DEF c
        <5> QED  BY <3>1, <3>3, <4>1
      <4>3. wire'[a][i - c] = w[(i + 1) - c]
        BY <1>1, <4>2
      <4> QED  BY <3>1, <3>3, <4>2, <4>3
    <3>4. CASE /\ i + 1 <= c /\ Id(w[i + 1]) \in DOMAIN incompletes
               /\ Len(incompletes[Id(w[i + 1])]) = c - (i + 1) + 1
               /\ c <= Head(incompletes[Id(w[i + 1])]).count
      <4>1. Id(w[i + 1]) = id
        BY <1>1, <1>5, <3>1, <3>4
      <4>2. k = c - (i + 1) + 1 /\ c <= Head(q).count /\ i + 1 <= c
        BY <3>4, <4>1 DEF q
      <4>3. k + 1 = c - i + 1 /\ k + 1 <= c /\ i <= c
        <5> HIDE DEF c, k
        <5> QED  BY <1>2, <3>1, <4>2
      <4>4. k + 1 <= Head(message).count
        <5>1. Head(message).count \in Nat /\ c \in Nat /\ k \in Nat
          BY <1>2, <3>1 DEF Packet
        <5> HIDE DEF c, k
        <5> QED  BY <1>2, <4>2, <4>3, <5>1
      <4>5. id \in DOMAIN incompletes'
        <5>1. Head(message).count \in Nat /\ k \in Nat
          BY <1>2 DEF Packet
        <5> QED  BY <1>4, <4>4, <5>1
      <4> HIDE DEF c, k
      <4>6. incompletes'[id] = message
        BY <1>4, <4>5
      <4> QED  BY <1>2, <3>1, <4>1, <4>2, <4>3, <4>5, <4>6 DEF c
    <3> HIDE DEF Behind
    <3> QED  BY <3>2, <3>3, <3>4 DEF Behind
  <2>2. ASSUME NEW b \in Agent \ {a}, NEW i \in 1..Len(wire'[b]), wire'[b][i].kind = "value"
        PROVE  Behind(wire'[b], i, incompletes')
    <3>1. wire'[b] = wire[b] /\ Behind(wire[b], i, incompletes)
      BY <1>1, <2>2 DEF InOrder, TrailersFollow
    <3>2. Id(wire[b][i]) # id
      BY <1>1, <2>2, <3>1 DEF InOrder, SerialsGrow, Id
    <3>3. Id(wire[b][i]) \in DOMAIN incompletes =>
            /\ Id(wire[b][i]) \in DOMAIN incompletes'
            /\ incompletes'[Id(wire[b][i])] = incompletes[Id(wire[b][i])]
      BY <1>4, <3>2
    <3> QED  BY <3>1, <3>3
  <2>3. \A b \in Agent : \A i \in 1..Len(wire'[b]) :
          wire'[b][i].kind = "value" => Behind(wire'[b], i, incompletes')
    <3> HIDE DEF Behind
    <3> QED  BY <2>1, <2>2
  <2> QED  BY <2>3 DEF TrailersFollow, Id
<1>9. IncompletesAreStarted'
  <2> DEFINE Started(jd, m) ==
               /\ jd \in Agent \X (1..MaxSent)
               /\ Together(m) /\ Id(Head(m)) = jd
               /\ Len(m) <= Head(m).count
               /\ \A j \in Len(m)..Head(m).count :
                    /\ j - Len(m) + 1 <= Len(wire'[jd[1]])
                    /\ Trails(wire'[jd[1]][j - Len(m) + 1], jd, j)
  <2>1. ASSUME NEW jd \in DOMAIN incompletes', jd # id
        PROVE  Started(jd, incompletes'[jd])
    <3>1. jd \in DOMAIN incompletes /\ incompletes'[jd] = incompletes[jd]
      BY <1>4, <2>1
    <3>2. wire'[jd[1]] = wire[jd[1]]
      BY <1>7, <2>1, <3>1
    <3> QED  BY <3>1, <3>2 DEF InOrder, IncompletesAreStarted
  <2>2. ASSUME id \in DOMAIN incompletes'
        PROVE  Started(id, message)
    <3>1. k + 1 <= Head(message).count
      BY <1>4, <2>2
    <3>2. id \in Agent \X (1..MaxSent) /\ id[1] = a
      BY <1>1, <1>2 DEF InOrder, IncompletesAreStarted
    <3>3. ASSUME NEW j \in (k + 1)..Head(message).count
          PROVE  /\ j - (k + 1) + 1 <= Len(wire'[a])
                 /\ Trails(wire'[a][j - (k + 1) + 1], id, j)
      <4>1. Head(message).count \in Nat /\ k \in Nat
        BY <1>2 DEF Packet
      <4>2. j \in k..Head(q).count
        <5> HIDE DEF k
        <5> QED  BY <1>2, <4>1
      <4>3. j - k + 1 <= Len(w) /\ Trails(w[j - k + 1], id, j)
        BY <1>2, <3>2, <4>2 DEF q, InOrder, IncompletesAreStarted
      <4> HIDE DEF k
      <4>4. /\ j - (k + 1) + 1 \in 1..(Len(w) - 1)
            /\ j - k + 1 = (j - (k + 1) + 1) + 1
        BY <1>1, <4>1, <4>3
      <4> QED  BY <1>1, <4>3, <4>4
    <3> HIDE DEF k, w
    <3> QED  BY <1>2, <3>1, <3>2, <3>3
  <2>3. \A jd \in DOMAIN incompletes' : Started(jd, incompletes'[jd])
    <3> HIDE DEF Started
    <3> QED  BY <1>4, <2>1, <2>2
  <2> QED  BY <2>3 DEF IncompletesAreStarted
<1>10. \A h \in heard' :
         h \in heard \/ (h.message = Head(message) /\ id \notin DOMAIN incompletes')
  BY <1>4 DEF NothingHandled, Deliver, Delivered
<1>11. SerialsGrow'
  <2> DEFINE Grow(b, v) ==
               /\ \A i \in 1..Len(v) : v[i].sender = b /\ v[i].serial <= sent[b]
               /\ \A i \in 1..Len(v) : v[i].kind # "value" =>
                    /\ \A j \in 1..(i - 1) : v[j].serial < v[i].serial
                    /\ <<b, v[i].serial>> \notin DOMAIN incompletes'
                    /\ \A h \in heard' : h.message.sender = b => h.message.serial < v[i].serial
  <2>1. Head(message).sender = a /\ Head(message).serial = p.serial
    BY <1>1, <1>2 DEF Id
  <2>2. ASSUME NEW i \in 1..Len(wire'[a]), wire'[a][i].kind # "value"
        PROVE  /\ \A j \in 1..(i - 1) : wire'[a][j].serial < wire'[a][i].serial
               /\ <<a, wire'[a][i].serial>> \notin DOMAIN incompletes'
               /\ \A h \in heard' : h.message.sender = a => h.message.serial < wire'[a][i].serial
    <3>1. /\ i + 1 \in 1..Len(w) /\ wire'[a][i] = w[i + 1] /\ w[i + 1].kind # "value" /\ i \in Nat
          /\ i + 1 <= Len(w) /\ Len(w) \in Nat
      BY <1>6, <2>2
    <3>2. /\ \A j \in 1..((i + 1) - 1) : w[j].serial < w[i + 1].serial
          /\ <<a, w[i + 1].serial>> \notin DOMAIN incompletes
          /\ \A h \in heard : h.message.sender = a => h.message.serial < w[i + 1].serial
      BY <3>1 DEF InOrder, SerialsGrow
    <3>3. \A j \in 1..(i - 1) : /\ j + 1 \in 1..((i + 1) - 1) /\ j \in 1..(Len(w) - 1)
                                /\ wire'[a][j] = w[j + 1]
      <4>1. \A j \in 1..(i - 1) : j + 1 \in 1..((i + 1) - 1) /\ j \in 1..(Len(w) - 1)
        BY <3>1
      <4> QED  BY <1>1, <4>1
    <3>4. \A j \in 1..(i - 1) : wire'[a][j].serial < wire'[a][i].serial
      BY <3>1, <3>2, <3>3
    <3>5. p.serial < w[i + 1].serial
      <4>1. 1 \in 1..((i + 1) - 1)
        BY <1>6
      <4> QED  BY <3>2, <4>1
    <3>6. \A h \in heard' : h.message.sender = a => h.message.serial < w[i + 1].serial
      BY <1>10, <2>1, <3>2, <3>5
    <3> QED  BY <1>4, <3>1, <3>2, <3>4, <3>6
  <2>3. Grow(a, wire'[a])
    <3>1. \A i \in 1..Len(wire'[a]) : wire'[a][i].sender = a /\ wire'[a][i].serial <= sent[a]
      BY <1>5, <1>6
    <3> QED  BY <2>2, <3>1
  <2>4. ASSUME NEW b \in Agent \ {a}
        PROVE  Grow(b, wire'[b])
    <3>1. wire'[b] = wire[b] /\ \A h \in heard' : h.message.sender = b => h \in heard
      BY <1>1, <1>10, <2>1
    <3> QED  BY <1>4, <3>1 DEF InOrder, SerialsGrow
  <2>5. \A b \in Agent : Grow(b, wire'[b])
    <3> HIDE DEF Grow
    <3> QED  BY <2>3, <2>4
  <2> QED  BY <1>1, <2>5 DEF SerialsGrow
<1>12. HeardAreOver'
  <2>1. ASSUME NEW h \in heard', h \notin heard
        PROVE  /\ h.message \in Packet /\ h.message.serial <= sent[h.message.sender]
               /\ Id(h.message) \notin DOMAIN incompletes'
    <3>1. h.message = Head(message) /\ id \notin DOMAIN incompletes'
      BY <1>10, <2>1
    <3>2. Head(message).sender = a /\ Head(message).serial = p.serial
      BY <1>1, <1>2 DEF Id
    <3>3. p.serial <= sent[a]
      BY <1>1, <1>5
    <3> QED  BY <1>2, <3>1, <3>2, <3>3
  <2>2. ASSUME NEW h \in heard
        PROVE  /\ h.message \in Packet /\ h.message.serial <= sent[h.message.sender]
               /\ Id(h.message) \notin DOMAIN incompletes'
    BY <1>4 DEF InOrder, HeardAreOver
  <2> QED  BY <1>1, <2>1, <2>2 DEF HeardAreOver, Id
<1>13. DeliveredIsWhole'
  <2>1. CASE id \in DOMAIN incompletes'
    <3>1. delivered' = delivered
      BY <1>4, <2>1 DEF NothingHandled
    <3> QED  BY <3>1 DEF InOrder, DeliveredIsWhole, Together, Id
  <2>2. CASE id \notin DOMAIN incompletes'
    <3>1. delivered' = message /\ k + 1 > Head(message).count
      BY <1>4, <2>2 DEF Deliver, Delivered
    <3>2. Head(message).count \in Nat /\ k \in Nat
      BY <1>2 DEF Packet
    <3>3. k + 1 = Head(message).count + 1
      <4> HIDE DEF k
      <4> QED  BY <1>2, <3>1, <3>2
    <3> QED  BY <1>2, <3>1, <3>3 DEF DeliveredIsWhole
  <2> QED  BY <2>1, <2>2
<1> QED  BY <1>1, <1>2, <1>8, <1>9, <1>11, <1>12, <1>13 DEF InOrder

\* What is not a packet arriving or leaving does not touch their order.
LEMMA NothingOnTheWire ==
  ASSUME InOrder, UNCHANGED <<wire, sent, incompletes, heard, fault, delivered>>
  PROVE  InOrder'
BY DEF InOrder, LeadersAreFollowed, TrailersFollow, IncompletesAreStarted, SerialsGrow,
       HeardAreOver, DeliveredIsWhole, Together, Trails, Id

LEMMA InOrderInductive ==
  ASSUME InStep, InOrder, [Next]_vars
  PROVE  InOrder'
<1>1. ASSUME NEW a \in Agent, NEW r \in 1..MaxRequests, Answer(a, r)
      PROVE  InOrder'
  <2>1. sent[a] < MaxSent /\ r \in 1..serial /\ r \in (1..MaxRequests) \cup State /\ 1 \in 1..2
    BY <1>1 DEF Answer, Publish
  <2>2. Message(a, "return", r, 1) \in Seq(Sendable)
    BY <2>1, MessageIsSendable
  <2> QED  BY <1>1, <2>1, <2>2, PublishKeepsOrder DEF Answer
<1>2. ASSUME NEW a \in Agent, NEW s \in State, Telemetry(a, s)
      PROVE  InOrder'
  <2>1. sent[a] < MaxSent /\ s \in (1..MaxRequests) \cup State /\ 2 \in 1..2
    BY <1>2 DEF Telemetry, Publish
  <2>2. Message(a, "telemetry", s, 2) \in Seq(Sendable)
    BY <2>1, MessageIsSendable
  <2> QED  BY <1>2, <2>1, <2>2, PublishKeepsOrder DEF Telemetry
<1>3. ASSUME NEW a \in Agent, Receive(a)
      PROVE  InOrder'
  <2>1. CacheMessageLeader(Head(wire[a])) \/ CacheMessageTrailer(Head(wire[a]))
    BY <1>3 DEF Receive
  <2> QED  BY <1>3, <2>1, LeaderKeepsOrder, TrailerKeepsOrder
<1>4. CASE (\E s \in State : SendLookup(s)) \/ RecordLookup \/ LookupReturns \/ SendCommand
             \/ RecordCommand \/ HandOver \/ UNCHANGED vars
  <2>1. UNCHANGED <<wire, sent, incompletes, heard, fault, delivered>>
    BY <1>4 DEF SendLookup, RecordLookup, LookupReturns, SendCommand, RecordCommand, HandOver,
                vars, netVars, receiveVars
  <2> QED  BY <2>1, NothingOnTheWire
<1> QED  BY <1>1, <1>2, <1>3, <1>4 DEF Next

LEMMA InOrderInitially ==
  ASSUME Init
  PROVE  InOrder
<1>1. wire = [a \in Agent |-> <<>>] /\ DOMAIN incompletes = {} /\ heard = {} /\ delivered = <<>>
      /\ ~fault
  BY DEF Init
<1>2. \A a \in Agent : 1..Len(wire[a]) = {}
  BY <1>1
<1> QED
  BY <1>1, <1>2 DEF InOrder, LeadersAreFollowed, TrailersFollow, IncompletesAreStarted,
                    SerialsGrow, HeardAreOver, DeliveredIsWhole

-----------------------------------------------------------------------------
(* The value a lookup returns *)

AnsweredOnceEach == \A r \in (1..serial) \ asked : AnsweredOnce(r)

\* The lookup under way waits, and this is an answer to it.
Awaited(leader) == pc = "waiting" /\ [request |-> serial, message |-> leader] \in heard

\* While no lookup has been answered twice, there is one post at most for the lookup that
\* waits, about to be made or made, and none for any other.
OnePost ==
  AnsweredOnceEach =>
    /\ matched # None => Awaited(matched) /\ sem = 0
    /\ sem > 0 => Awaited(result) /\ sem = 1 /\ matched = None
    /\ got.of # NoLookup => [request |-> got.of.serial, message |-> got.value] \in heard

\* The inductive invariant of what lookups return
InTurn == IsFiniteSet(heard) /\ OnePost

\* Answers stay, so that what has been answered twice stays so.
LEMMA AnsweredOnceBefore ==
  ASSUME AnsweredOnceEach', IsFiniteSet(heard'), heard \subseteq heard',
         (1..serial) \ asked \subseteq ((1..serial) \ asked)'
  PROVE  AnsweredOnceEach
<1>1. ASSUME NEW r \in (1..serial) \ asked
      PROVE  AnsweredOnce(r)
  <2> DEFINE S == {h \in heard : h.request = r}
             T == {h \in heard' : h.request = r}
  <2>1. IsFiniteSet(T) /\ S \subseteq T /\ Cardinality(T) <= 1
    <3>1. T \subseteq heard' /\ S \subseteq T
      OBVIOUS
    <3>2. IsFiniteSet(T)
      BY <3>1, FS_Subset
    <3> QED  BY <3>1, <3>2 DEF AnsweredOnceEach, AnsweredOnce
  <2> HIDE DEF S, T
  <2>2. IsFiniteSet(S) /\ Cardinality(S) <= Cardinality(T)
    BY <2>1, FS_Subset
  <2>3. Cardinality(S) \in Nat /\ Cardinality(T) \in Nat
    BY <2>1, <2>2, FS_CardinalityType
  <2>4. Cardinality(S) <= 1
    BY <2>1, <2>2, <2>3
  <2> QED  BY <2>4 DEF AnsweredOnce, S
<1> QED  BY <1>1 DEF AnsweredOnceEach

LEMMA AtMostOne ==
  ASSUME NEW S, IsFiniteSet(S), Cardinality(S) <= 1, NEW g \in S, NEW h \in S
  PROVE  g = h
<1>1. IsFiniteSet({g}) /\ Cardinality({g}) = 1
  BY FS_Singleton
<1>2. Cardinality({g}) <= Cardinality(S) /\ (Cardinality(S) = Cardinality({g}) => S = {g})
  BY FS_Subset
<1>3. Cardinality(S) \in Nat
  BY FS_CardinalityType
<1>4. S = {g}
  BY <1>1, <1>2, <1>3
<1> QED  BY <1>4

\* A message that has not been handled before is handled.
LEMMA DeliverInTurn ==
  ASSUME InStep, InTurn, NEW message, Head(message) \in Sendable, Head(message).kind # "value",
         \A h \in heard : h.message # Head(message), Deliver(message), matched = None,
         UNCHANGED <<execVars, pendingCommands, got>>
  PROVE  InTurn'
<1> DEFINE leader == Head(message)
           new == {[request |-> r, message |-> leader] : r \in About(leader)}
<1>1. UNCHANGED <<pc, serial, lookedUp, asked, got>> /\ heard' = heard \cup new
  BY DEF Deliver, Delivered, execVars
<1>2. /\ leader.kind \in {"return", "telemetry"} /\ leader # None
      /\ leader.kind = "return" => leader.about \in 1..serial
      /\ leader.kind = "telemetry" => leader.about \in State
  BY NoneIsNoPacket DEF Sendable, Packet, Kind
<1>3. \/ leader.kind = "return" /\ HandleReturn(leader)
      \/ leader.kind = "telemetry" /\ HandleTelemetry(leader)
  BY DEF Deliver
<1>4. IsFiniteSet(heard') /\ heard \subseteq heard'
  <2>1. new = {} \/ \E r : new = {[request |-> r, message |-> leader]}
    BY DEF About
  <2>2. IsFiniteSet(heard)
    BY DEF InTurn
  <2> HIDE DEF new
  <2> QED  BY <1>1, <2>1, <2>2, FS_AddElement
<1> HIDE DEF leader
<1>5. AnsweredOnceEach' => AnsweredOnceEach
  BY <1>1, <1>4, AnsweredOnceBefore
<1>6. ASSUME AnsweredOnceEach', pc = "waiting", [request |-> serial, message |-> leader] \in heard'
      PROVE  sem = 0
  <2>1. serial \in (1..serial) \ asked
    BY <1>6 DEF InStep, LookupInStep, LookingUp, Numbers
  <2>2. AnsweredOnce(serial)'
    BY <1>1, <1>6, <2>1 DEF AnsweredOnceEach
  <2>3. ASSUME sem > 0
        PROVE  FALSE
    <3> DEFINE g == [request |-> serial, message |-> result]
               h == [request |-> serial, message |-> leader]
    <3>1. g \in heard /\ g.message = result
      BY <1>5, <1>6, <2>3 DEF InTurn, OnePost, Awaited
    <3>2. g # h
      BY <3>1 DEF leader
    <3>3. g \in heard' /\ h \in heard' /\ g.request = serial /\ h.request = serial
      BY <1>4, <1>6, <3>1
    <3> HIDE DEF g, h
    <3>4. \A x \in heard', y \in heard' : x.request = serial /\ y.request = serial => x = y
      <4>1. IsFiniteSet({x \in heard' : x.request = serial})
            /\ Cardinality({x \in heard' : x.request = serial}) <= 1
        <5>1. {x \in heard' : x.request = serial} \subseteq heard'
          OBVIOUS
        <5> QED  BY <1>1, <1>4, <2>2, <5>1, FS_Subset DEF AnsweredOnce
      <4> QED  BY <4>1, AtMostOne
    <3> QED  BY <3>2, <3>3, <3>4
  <2> QED  BY <2>3 DEF InStep, Numbers
<1>7. CASE UNCHANGED <<pendingSerial, pendingState, result, sem, matched>>
  <2>1. OnePost'
    BY <1>1, <1>4, <1>5, <1>7 DEF InTurn, OnePost, Awaited
  <2> QED  BY <1>4, <2>1 DEF InTurn
<1>8. CASE leader.kind = "return" /\ leader.about = pendingSerial /\ matched' = leader
           /\ UNCHANGED lookupVars
  <2>1. pc = "waiting" /\ leader.about = serial
    BY <1>2, <1>8 DEF InStep, LookupInStep, Numbers
  <2>2. [request |-> serial, message |-> leader] \in heard'
    <3>1. About(leader) = {serial}
      BY <1>8, <2>1 DEF About
    <3> QED  BY <1>1, <3>1
  <2>3. AnsweredOnceEach' => sem = 0
    BY <1>6, <2>1, <2>2
  <2>4. OnePost'
    BY <1>1, <1>4, <1>5, <1>8, <2>1, <2>2, <2>3 DEF InTurn, OnePost, Awaited, lookupVars
  <2> QED  BY <1>4, <2>4 DEF InTurn
<1>9. CASE leader.kind = "telemetry" /\ pc # "lookup-sent" /\ leader.about = pendingState
           /\ Post(leader) /\ UNCHANGED <<pendingSerial, pendingState, matched>>
  <2>1. pc = "waiting" /\ leader.about = lookedUp.state /\ lookedUp.serial = serial
    BY <1>2, <1>9, IpcAssumption DEF InStep, LookupInStep, LookingUp, NoLookup
  <2>2. [request |-> serial, message |-> leader] \in heard'
    <3>1. About(leader) = {serial}
      BY <1>9, <2>1 DEF About
    <3> QED  BY <1>1, <3>1
  <2>3. AnsweredOnceEach' => sem = 0
    BY <1>6, <2>1, <2>2
  <2>4. OnePost'
    BY <1>1, <1>4, <1>5, <1>9, <2>1, <2>2, <2>3 DEF InTurn, OnePost, Awaited, Post
  <2> QED  BY <1>4, <2>4 DEF InTurn
<1> QED  BY <1>2, <1>3, <1>7, <1>8, <1>9
            DEF HandleReturn, HandleTelemetry, RequestSerial, lookupVars

\* A request that is sent has not been answered.
LEMMA MoreRequests ==
  ASSUME AnsweredOnceEach', serial \in Nat, serial' = serial + 1, IsFiniteSet(heard),
         heard' = heard, asked' \in {asked, asked \cup {serial + 1}}
  PROVE  AnsweredOnceEach
<1>1. (1..serial) \ asked \subseteq ((1..serial) \ asked)'
  OBVIOUS
<1> QED  BY <1>1, AnsweredOnceBefore

LEMMA ReceiveInTurn ==
  ASSUME InStep, InOrder, InTurn, NEW a \in Agent, Receive(a)
  PROVE  InTurn'
<1> DEFINE p == wire[a][1]
           q == incompletes[Id(p)]
           message == Append(q, p)
<1>1. /\ matched = None /\ UNCHANGED <<execVars, pendingCommands, got>>
      /\ UNCHANGED <<pc, serial, asked, got>>
      /\ CacheMessageLeader(Head(wire[a])) \/ CacheMessageTrailer(Head(wire[a]))
  BY DEF Receive, execVars
<1>2. CASE NothingHandled
  BY <1>1, <1>2 DEF NothingHandled, lookupVars, InTurn, OnePost, Awaited, AnsweredOnceEach,
                    AnsweredOnce
<1>3. CASE CacheMessageTrailer(Head(wire[a])) /\ ~NothingHandled
  <2>1. /\ Id(p) \in DOMAIN incompletes /\ Head(message) = Head(q) /\ Id(Head(message)) = Id(p)
        /\ Deliver(message)
    BY <1>3, TrailerShape
  <2>2. q \in Seq(Sendable) /\ q # <<>> /\ Head(q).kind # "value"
    BY <2>1 DEF InStep, MessagesAreSound
  <2>3. Head(q) \in Sendable
    <3> HIDE DEF q, Sendable
    <3> QED  BY <2>2
  <2>4. \A h \in heard : h.message # Head(message)
    <3> HIDE DEF message
    <3> QED  BY <2>1 DEF InOrder, HeardAreOver
  <2> HIDE DEF message, q
  <2> QED  BY <1>1, <2>1, <2>2, <2>3, <2>4, DeliverInTurn
<1>4. CacheMessageLeader(Head(wire[a])) => NothingHandled
  BY DEF CacheMessageLeader
<1> QED  BY <1>1, <1>2, <1>3, <1>4

LEMMA InTurnInductive ==
  ASSUME InStep, InOrder, InTurn, [Next]_vars
  PROVE  InTurn'
<1> USE DEF InTurn
<1>1. ASSUME NEW s \in State, SendLookup(s)
      PROVE  InTurn'
  <2>1. /\ pc = "ready" /\ serial' = serial + 1
        /\ UNCHANGED <<heard, asked, sem, matched, got>>
    BY <1>1 DEF SendLookup, Send, receiveVars
  <2>2. AnsweredOnceEach' => AnsweredOnceEach
    BY <2>1, MoreRequests DEF InStep, Numbers
  <2> QED  BY <2>1, <2>2 DEF OnePost, Awaited, InStep, Numbers
<1>2. CASE SendCommand
  <2>1. /\ pc = "ready" /\ serial' = serial + 1 /\ asked' = asked \cup {serial + 1}
        /\ UNCHANGED <<heard, sem, matched, got>>
    BY <1>2 DEF SendCommand, Send, receiveVars, lookupVars
  <2>2. AnsweredOnceEach' => AnsweredOnceEach
    BY <2>1, MoreRequests DEF InStep, Numbers
  <2> QED  BY <2>1, <2>2 DEF OnePost, Awaited, InStep, Numbers
<1>3. CASE RecordLookup
  <2>1. /\ pc = "lookup-sent" /\ UNCHANGED <<serial, heard, asked, sem, matched, got>>
    BY <1>3 DEF RecordLookup, receiveVars
  <2> QED  BY <2>1 DEF OnePost, Awaited, InStep, Numbers, AnsweredOnceEach, AnsweredOnce
<1>4. CASE LookupReturns
  <2>1. /\ pc = "waiting" /\ sem > 0 /\ sem' = sem - 1
        /\ UNCHANGED <<serial, heard, asked, matched>>
        /\ got' = [value |-> result, of |-> lookedUp] /\ lookedUp.serial = serial
    BY <1>4 DEF LookupReturns, receiveVars, InStep, LookupInStep, LookingUp
  <2>2. got'.of.serial = serial /\ got'.value = result
    BY <2>1
  <2>3. AnsweredOnceEach' => AnsweredOnceEach
    BY <2>1 DEF AnsweredOnceEach, AnsweredOnce
  <2>4. ASSUME AnsweredOnceEach'
        PROVE  /\ matched' = None /\ sem' = 0
               /\ [request |-> got'.of.serial, message |-> got'.value] \in heard'
    BY <2>1, <2>2, <2>3, <2>4 DEF OnePost, Awaited
  <2>5. OnePost'
    BY <2>4 DEF OnePost
  <2> QED  BY <2>1, <2>5
<1>5. CASE RecordCommand
  <2>1. /\ pc = "command-sent" /\ UNCHANGED <<serial, heard, asked, sem, matched, got>>
    BY <1>5 DEF RecordCommand, receiveVars, lookupVars
  <2> QED  BY <2>1 DEF OnePost, Awaited, InStep, Numbers, AnsweredOnceEach, AnsweredOnce
<1>6. CASE HandOver
  <2>1. /\ matched # None /\ matched' = None /\ result' = matched /\ sem' = sem + 1
        /\ UNCHANGED <<pc, serial, heard, asked, got>>
    BY <1>6 DEF HandOver, Post, execVars, receiveVars
  <2> QED  BY <2>1 DEF OnePost, Awaited, InStep, Numbers, AnsweredOnceEach, AnsweredOnce
<1>7. ASSUME NEW a \in Agent, NEW m, Publish(a, m)
      PROVE  InTurn'
  <2>1. UNCHANGED <<pc, serial, heard, asked, sem, matched, result, got>>
    BY <1>7 DEF Publish, execVars, receiveVars, lookupVars
  <2> QED  BY <2>1 DEF OnePost, Awaited, AnsweredOnceEach, AnsweredOnce
<1>8. CASE UNCHANGED vars
  <2>1. UNCHANGED <<pc, serial, heard, asked, sem, matched, result, got>>
    BY <1>8 DEF vars, execVars, receiveVars, lookupVars
  <2> QED  BY <2>1 DEF OnePost, Awaited, AnsweredOnceEach, AnsweredOnce
<1>9. ASSUME NEW a \in Agent, (\E r \in 1..MaxRequests : Answer(a, r))
                                \/ (\E s \in State : Telemetry(a, s))
      PROVE  InTurn'
  BY <1>7, <1>9 DEF Answer, Telemetry
<1> QED
  BY <1>1, <1>2, <1>3, <1>4, <1>5, <1>6, <1>8, <1>9, ReceiveInTurn DEF Next

-----------------------------------------------------------------------------
(* The theorems *)

LEMMA InStepInitially ==
  ASSUME Init
  PROVE  InStep
<1>1. Numbers /\ CommandsInStep /\ LookupInStep
  BY DEF Init, Numbers, CommandsInStep, LookupInStep, LookingUp, NoLookup
<1>2. MessagesAreSound
  BY IpcAssumption DEF Init, MessagesAreSound
<1>3. LookupIsTold /\ AnswersReachTheirCommand
  BY DEF Init, LookupIsTold, AnswersReachTheirCommand
<1> QED  BY <1>1, <1>2, <1>3 DEF InStep

LEMMA InStepInductive ==
  ASSUME InStep, [Next]_vars
  PROVE  InStep'
<1>1. CASE UNCHANGED vars
  <2>1. UNCHANGED <<pc, serial, lookedUp, asked, wire, sent, incompletes, heard, pendingSerial,
                    pendingState, sem, matched, pendingCommands, early, returned>>
    BY <1>1 DEF vars, execVars, netVars, receiveVars, lookupVars
  <2>2. MessagesAreSound'
    BY <2>1, RequestKeepsMessages DEF InStep, Numbers
  <2> QED
    BY <2>1, <2>2 DEF InStep, Numbers, CommandsInStep, LookupInStep, LookingUp, LookupIsTold,
                      AnswersReachTheirCommand
<1>2. ASSUME NEW a \in Agent, NEW r \in 1..MaxRequests, Answer(a, r)
      PROVE  InStep'
  <2>1. sent[a] < MaxSent /\ r \in 1..serial /\ r \in (1..MaxRequests) \cup State /\ 1 \in 1..2
    BY <1>2 DEF Answer, Publish
  <2>2. Message(a, "return", r, 1) \in Seq(Sendable)
    BY <2>1, MessageIsSendable
  <2> QED  BY <1>2, <2>2, PublishKeeps DEF Answer
<1>3. ASSUME NEW a \in Agent, NEW s \in State, Telemetry(a, s)
      PROVE  InStep'
  <2>1. sent[a] < MaxSent /\ s \in (1..MaxRequests) \cup State /\ 2 \in 1..2
    BY <1>3 DEF Telemetry, Publish
  <2>2. Message(a, "telemetry", s, 2) \in Seq(Sendable)
    BY <2>1, MessageIsSendable
  <2> QED  BY <1>3, <2>2, PublishKeeps DEF Telemetry
<1> QED
  BY <1>1, <1>2, <1>3, SendLookupKeeps, RecordLookupKeeps, LookupReturnsKeeps, SendCommandKeeps,
     RecordCommandKeeps, ReceiveKeeps, HandOverKeeps DEF Next

\* handleReturnValuesSequence() gives a command the answers to it and no others, however
\* many agents answer, and none that comes after executeDefaultCommand() has recorded it in
\* m_pendingCommands is lost.
THEOREM CommandsGetTheirAnswers == Spec => []AnswersReachTheirCommand
<1>1. InStep /\ [Next]_vars => InStep'
  BY InStepInductive
<1>2. InStep => AnswersReachTheirCommand
  BY DEF InStep
<1> QED  BY <1>1, <1>2, InStepInitially, PTL DEF Spec

\* lookupNow() does not sleep on an answer that was handled after the lookup had been
\* recorded: m_lookupSem has been posted, or the dispatch thread is about to post it.
THEOREM AnswersWakeTheirLookup == Spec => []AnsweredLookupWakes
<1>1. InStep /\ [Next]_vars => InStep'
  BY InStepInductive
<1>2. InStep => AnsweredLookupWakes
  BY DEF InStep, LookupInStep, LookingUp, LookupIsTold, AnsweredLookupWakes
<1> QED  BY <1>1, <1>2, InStepInitially, PTL DEF Spec

\* deliverMessages() is called with whole messages only, in order and of one sender, and
\* cacheMessageLeader() never finds the leader there already, however the packets of the
\* agents are mixed.
THEOREM MessagesAreWhole == Spec => []WholeMessages
<1>1. InStep /\ InOrder /\ [Next]_vars => InStep' /\ InOrder'
  BY InStepInductive, InOrderInductive
<1>2. InStep /\ InOrder => WholeMessages
  <2>1. ASSUME InStep, InOrder, delivered # <<>>
        PROVE  \A i \in 1..Len(delivered) : delivered[i].sender = Head(delivered).sender
    <3>1. Together(delivered) /\ Head(delivered) = delivered[1]
      BY <2>1 DEF InOrder, DeliveredIsWhole
    <3>2. \A i \in 2..Len(delivered) : Id(delivered[i]) = Id(Head(delivered))
      BY <3>1 DEF Together
    <3> QED  BY <3>1, <3>2 DEF Id
  <2> QED  BY <2>1 DEF InOrder, IncompletesAreStarted, DeliveredIsWhole, WholeMessages
<1>3. Init => InStep /\ InOrder
  BY InStepInitially, InOrderInitially
<1> QED  BY <1>1, <1>2, <1>3, PTL DEF Spec

\* lookupNow() returns an answer to its own lookup, and leaves no post of m_lookupSem for
\* the next one, as long as no lookup is answered twice.
THEOREM LookupsGetTheirAnswer == Spec => []RightAnswer
<1> DEFINE Inv == InStep /\ InOrder /\ InTurn
<1>1. Inv /\ [Next]_vars => Inv'
  BY InStepInductive, InOrderInductive, InTurnInductive
<1>2. Inv => RightAnswer
  BY DEF InStep, Numbers, InTurn, OnePost, Awaited, AnsweredOnceEach, RightAnswer
<1>3. Init => Inv
  <2>1. Init => InTurn
    BY FS_EmptySet DEF Init, InTurn, OnePost, NoLookup
  <2> QED  BY <2>1, InStepInitially, InOrderInitially
<1> QED  BY <1>1, <1>2, <1>3, PTL DEF Spec
=============================================================================
