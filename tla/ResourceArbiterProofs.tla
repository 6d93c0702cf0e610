------------------------ MODULE ResourceArbiterProofs ------------------------
(***************************************************************************)
(* No resource is overbooked; a command that is being executed holds what  *)
(* it needs, and no other does unless an interface has denied it, which is *)
(* also the only way for an entry to get lost.                             *)
(***************************************************************************)
EXTENDS ResourceArbiter, TLAPS

\* A command's requests are those its node evaluated, if it has any.
RequestsAreGiven == \A c \in Command : requests[c] = <<>> \/ requests[c] \in Requests[c]

\* What the queues say of a command agrees with its stage.
StagesAgree ==
  /\ \A c \in ToSet(queue) \cup ToSet(contending) : c \in Command /\ stage[c] = "queued"
  /\ accepted \cup rejected \subseteq ToSet(contending) /\ accepted \cap rejected = {}
  /\ \A c \in Undecided : requests[c] # <<>>
  /\ Arbitrating => queue = <<>>

\* The upper estimate covers what is allocated and stays within the capacity.
Covered ==
  Arbitrating =>
    \A r \in Resource : /\ allocated[r] <= estimates[r].consumable
                        /\ estimates[r].consumable <= Capacity[r]

\* What a command will give back it has taken.
NothingLent ==
  \A c \in DOMAIN reserved : \A r \in DOMAIN reserved[c] :
    reserved[c][r].release => reserved[c][r].weight >= 0

\* Every entry is what some list of its command's requests needs.
EntriesAreNeeds ==
  \A c \in DOMAIN reserved : \E list \in Requests[c] : reserved[c] = Needed(list)

\* c has been accepted and is not done.
Served(c) == (stage[c] = "sent" \/ c \in accepted) /\ requests[c] # <<>>

\* The holders of resources, during arbitrations too.
Holding ==
  /\ \A c \in Command : Served(c) => c \in DOMAIN reserved /\ reserved[c] = Needed(requests[c])
  /\ \A c \in DOMAIN reserved \ refused : Served(c)

Sound == TypeOK /\ RequestsAreGiven /\ StagesAgree /\ Covered /\ NothingLent
           /\ EntriesAreNeeds /\ Holding /\ LostByRefusal /\ NotOverbooked

\* The parameters of the specification, as the facts about it use them.
LEMMA Parameters ==
  /\ \A r \in Resource : Capacity[r] \in Nat
  /\ \A c \in Command : Requests[c] \subseteq Seq(Request)
BY CapacityAssumption, RequestsAssumption

\* The elements of a sequence belong to the set it is a sequence of, an appended
\* element is its new one, and only the empty sequence has none.
LEMMA Elements ==
  ASSUME NEW S, NEW q \in Seq(S)
  PROVE  /\ ToSet(q) \subseteq S
         /\ \A e \in S : Append(q, e) \in Seq(S) /\ ToSet(Append(q, e)) = ToSet(q) \cup {e}
         /\ ToSet(<<>>) = {}
<1>1. Len(q) \in Nat /\ DOMAIN q = 1..Len(q)
  OBVIOUS
<1>2. ToSet(q) = {q[i] : i \in 1..Len(q)}
  BY <1>1 DEF ToSet
<1>3. ASSUME NEW e \in S
      PROVE  Append(q, e) \in Seq(S) /\ ToSet(Append(q, e)) = ToSet(q) \cup {e}
  <2>1. /\ Append(q, e) \in Seq(S)
        /\ DOMAIN Append(q, e) = 1..(Len(q) + 1)
        /\ \A i \in 1..Len(q) : Append(q, e)[i] = q[i]
        /\ Append(q, e)[Len(q) + 1] = e
    OBVIOUS
  <2>2. ToSet(Append(q, e)) = {Append(q, e)[i] : i \in 1..(Len(q) + 1)}
    BY <2>1 DEF ToSet
  <2>3. ToSet(q) \cup {e} \subseteq ToSet(Append(q, e))
    BY <1>1, <1>2, <2>1, <2>2
  <2>4. ToSet(Append(q, e)) \subseteq ToSet(q) \cup {e}
    BY <1>1, <1>2, <2>1, <2>2
  <2> QED
    BY <2>1, <2>3, <2>4
<1>4. ToSet(<<>>) = {}
  BY DEF ToSet
<1> QED
  BY <1>1, <1>2, <1>3, <1>4

-----------------------------------------------------------------------------
(* Actions of the commands' nodes *)

LEMMA InitSound ==
  Init => Sound
<1> SUFFICES ASSUME Init PROVE Sound
  OBVIOUS
<1>1. TypeOK
  BY DEF Init, TypeOK, Stage, Handle, Nothing
<1>2. ToSet(queue) = {} /\ ToSet(contending) = {}
  BY DEF Init, ToSet
<1>3. /\ RequestsAreGiven /\ StagesAgree /\ Covered /\ NothingLent /\ EntriesAreNeeds
      /\ Holding /\ LostByRefusal
  BY <1>2 DEF Init, RequestsAreGiven, StagesAgree, Covered, NothingLent, EntriesAreNeeds,
              Holding, Served, LostByRefusal, Undecided, Arbitrating
<1>4. NotOverbooked
  BY Parameters DEF Init, NotOverbooked
<1> QED
  BY <1>1, <1>3, <1>4 DEF Sound

LEMMA EnqueueSound ==
  ASSUME Sound, NEW c \in Command, Enqueue(c)
  PROVE  Sound'
<1> USE DEF Sound
<1>1. PICK list \in Requests[c] : requests' = [requests EXCEPT ![c] = list]
  BY DEF Enqueue
<1>2. list \in Seq(Request)
  BY <1>1, Parameters
<1>3. /\ ToSet(queue) \subseteq Command
      /\ queue' \in Seq(Command) /\ ToSet(queue') = ToSet(queue) \cup {c}
  BY Elements DEF TypeOK, Enqueue
<1>4. contending = <<>> /\ ToSet(contending) = {} /\ ToSet(contending') = {}
  BY Elements DEF TypeOK, Enqueue, Arbitrating
<1>5. TypeOK'
  BY <1>1, <1>2, <1>3 DEF TypeOK, Enqueue, Stage, Handle
<1>6. RequestsAreGiven'
  BY <1>1 DEF RequestsAreGiven, TypeOK
<1>7. StagesAgree'
  BY <1>1, <1>3, <1>4 DEF StagesAgree, TypeOK, Enqueue, Undecided, Arbitrating, Stage, Handle
<1>8. Holding'
  <2>1. \A d \in Command : d # c => (Served(d)' <=> Served(d)) /\ requests'[d] = requests[d]
    BY <1>1 DEF Served, TypeOK, Enqueue
  <2>2. ~Served(c) /\ ~Served(c)'
    BY <1>4 DEF Served, StagesAgree, TypeOK, Enqueue
  <2>3. UNCHANGED <<reserved, refused>> /\ DOMAIN reserved \subseteq Command
    BY DEF Enqueue, TypeOK
  <2> QED  BY <2>1, <2>2, <2>3 DEF Holding
<1> QED
  BY <1>5, <1>6, <1>7, <1>8
  DEF Enqueue, Covered, NothingLent, EntriesAreNeeds, LostByRefusal, NotOverbooked, Arbitrating

LEMMA AnswerSound ==
  ASSUME Sound, NEW c \in Command, Answer(c)
  PROVE  Sound'
<1> USE DEF Sound
<1>1. TypeOK'
  BY DEF TypeOK, Answer, Handle
<1>2. StagesAgree'
  BY DEF StagesAgree, TypeOK, Answer, Undecided, Arbitrating
<1> QED
  BY <1>1, <1>2
  DEF Answer, RequestsAreGiven, Covered, NothingLent, EntriesAreNeeds, Holding, Served,
      LostByRefusal, NotOverbooked, Arbitrating

\* What an entry gives back is not negative.
LEMMA GivenBack ==
  ASSUME Sound, NEW c \in Command, NEW r \in Resource
  PROVE  Released(c, r) \in Int /\ Released(c, r) >= 0 /\ Kept(c, r) \in Int
<1>1. c \in DOMAIN reserved /\ r \in DOMAIN reserved[c]
        => reserved[c][r].weight \in Int /\ (reserved[c][r].release => reserved[c][r].weight >= 0)
  BY DEF Sound, TypeOK, NothingLent
<1> QED
  BY <1>1 DEF Released, Kept, Weight

LEMMA FinishSound ==
  ASSUME Sound, NEW c \in Command, Finish(c)
  PROVE  Sound'
<1> USE DEF Sound
<1>1. \A r \in Resource : Released(c, r) \in Int /\ Released(c, r) >= 0 /\ Kept(c, r) \in Int
  BY GivenBack
<1>2. contending = <<>> /\ ToSet(contending) = {} /\ accepted = {} /\ rejected = {}
  BY Elements DEF TypeOK, Finish, Arbitrating, StagesAgree
<1>3. /\ stage' = [stage EXCEPT ![c] = "idle"] /\ requests' = [requests EXCEPT ![c] = <<>>]
      /\ handle' = [handle EXCEPT ![c] = "none"]
      /\ UNCHANGED <<queue, contending, estimates, accepted, rejected, lost>>
      /\ stage[c] \in {"sent", "denied"}
      /\ refused' = IF stage[c] = "sent" /\ handle[c] = "denied" THEN refused \cup {c}
                                                              ELSE refused
  BY DEF Finish
<1>4. RequestsAreGiven'
  BY <1>3 DEF RequestsAreGiven, TypeOK
<1>5. StagesAgree'
  BY <1>2, <1>3 DEF StagesAgree, TypeOK, Undecided, Arbitrating
<1>6. Covered' /\ LostByRefusal'
  BY <1>2, <1>3 DEF Covered, Arbitrating, LostByRefusal
<1>10. /\ ~Served(c)' /\ refused \subseteq refused' /\ refused' \subseteq Command
       /\ \A d \in Command : d # c => (Served(d)' <=> Served(d)) /\ requests'[d] = requests[d]
  BY <1>3 DEF Served, TypeOK
<1>7. CASE ReleasesResources(c)
  <2>1. /\ allocated' = [r \in Resource |-> allocated[r] - Released(c, r)]
        /\ spent' = [r \in Resource |-> spent[r] + Kept(c, r)]
        /\ reserved' = [d \in DOMAIN reserved \ {c} |-> reserved[d]]
    BY <1>7 DEF Finish
  <2>2. allocated' \in [Resource -> Int] /\ spent' \in [Resource -> Int]
    <3>1. allocated \in [Resource -> Int] /\ spent \in [Resource -> Int]
      BY DEF TypeOK
    <3>2. \A r \in Resource : allocated[r] - Released(c, r) \in Int
                              /\ spent[r] + Kept(c, r) \in Int
      BY <1>1, <3>1
    <3> QED  BY <2>1, <3>2
  <2>3. /\ DOMAIN reserved' = DOMAIN reserved \ {c}
        /\ \A d \in DOMAIN reserved' : reserved'[d] = reserved[d]
    BY <2>1
  <2>4. TypeOK'
    BY <1>3, <1>10, <2>2, <2>3 DEF TypeOK, Stage, Handle
  <2>5. NothingLent' /\ EntriesAreNeeds'
    BY <2>3 DEF NothingLent, EntriesAreNeeds
  <2>6. NotOverbooked'
    BY <1>1, <2>1, Parameters DEF NotOverbooked, TypeOK
  <2>7. Holding'
    BY <1>10, <2>3 DEF Holding, TypeOK
  <2> QED
    BY <1>4, <1>5, <1>6, <2>4, <2>5, <2>6, <2>7
<1>8. CASE ~ReleasesResources(c)
  <2>1. UNCHANGED <<allocated, spent, reserved>>
    BY <1>8 DEF Finish
  <2>2. c \in DOMAIN reserved => c \in refused'
    <3>1. CASE stage[c] = "sent"
      BY <1>3, <1>8, <3>1 DEF ReleasesResources
    <3>2. CASE stage[c] # "sent"
      BY <1>2, <1>10, <3>2 DEF Holding, Served
    <3> QED  BY <3>1, <3>2
  <2>3. TypeOK'
    BY <1>3, <1>10, <2>1 DEF TypeOK, Stage, Handle
  <2>4. Holding'
    BY <1>10, <2>1, <2>2 DEF Holding, TypeOK
  <2> QED
    BY <1>4, <1>5, <1>6, <2>1, <2>3, <2>4 DEF NothingLent, EntriesAreNeeds, NotOverbooked
<1> QED
  BY <1>7, <1>8

-----------------------------------------------------------------------------
(* Arbitration *)

LEMMA BeginSound ==
  ASSUME Sound, BeginArbitration
  PROVE  Sound'
<1> USE DEF Sound
<1>1. /\ contending' = queue /\ queue' = <<>>
      /\ accepted' = {c \in ToSet(queue) : requests[c] = <<>>}
      /\ estimates' = [r \in Resource |->
                         [renewable |-> allocated[r], consumable |-> allocated[r]]]
      /\ UNCHANGED <<stage, requests, handle, rejected, allocated, reserved, spent, lost,
                     refused>>
      /\ contending = <<>>
  BY DEF BeginArbitration, Arbitrating
<1>2. /\ ToSet(queue) \subseteq Command /\ ToSet(queue') = {}
      /\ ToSet(contending) = {} /\ accepted = {} /\ rejected = {}
  BY <1>1, Elements DEF TypeOK, StagesAgree
<1>3. TypeOK'
  BY <1>1, <1>2 DEF TypeOK
<1>4. StagesAgree'
  BY <1>1, <1>2 DEF StagesAgree, Undecided, Arbitrating
<1>5. Covered'
  BY <1>1 DEF Covered, NotOverbooked, TypeOK
<1>6. Holding'
  <2>1. \A c \in Command : Served(c)' <=> Served(c)
    BY <1>1, <1>2 DEF Served
  <2> QED  BY <1>1, <2>1 DEF Holding, TypeOK
<1> QED
  BY <1>1, <1>3, <1>4, <1>5, <1>6
  DEF RequestsAreGiven, NothingLent, EntriesAreNeeds, LostByRefusal, NotOverbooked

\* What the command the loop has come to needs.
LEMMA NeedsOf ==
  ASSUME Sound, NEW c \in Command, NextUp(c)
  PROVE  /\ Arbitrating /\ c \in ToSet(contending) \ (accepted \cup rejected)
         /\ requests[c] # <<>> /\ requests[c] \in Requests[c]
         /\ DOMAIN Needed(requests[c]) \subseteq Resource
         /\ Needed(requests[c])
              \in [DOMAIN Needed(requests[c]) -> [weight : Int, release : BOOLEAN]]
<1>1. c \in ToSet(contending) \ (accepted \cup rejected) /\ c \in Undecided
  BY DEF NextUp, Undecided
<1>2. requests[c] # <<>> /\ requests[c] \in Requests[c]
  BY <1>1 DEF Sound, StagesAgree, RequestsAreGiven
<1>3. Arbitrating
  BY <1>1, Elements DEF Sound, TypeOK, Arbitrating
<1> QED
  BY <1>1, <1>2, <1>3, NeedsAssumption

\* The estimates with one more command: typed, and larger at the upper end by what
\* the command takes.
LEMMA WithFacts ==
  ASSUME Sound, NEW c \in Command, NextUp(c)
  PROVE  /\ With(c) \in [Resource -> [renewable : Int, consumable : Int]]
         /\ \A r \in Resource : /\ Granted(c, r) \in Int
                                /\ Granted(c, r) <= With(c)[r].consumable
                                /\ r \notin DOMAIN Needed(requests[c])
                                     => With(c)[r] = estimates[r]
<1> DEFINE need == Needed(requests[c])
<1>1. /\ DOMAIN need \subseteq Resource
      /\ need \in [DOMAIN need -> [weight : Int, release : BOOLEAN]]
      /\ Arbitrating
  BY NeedsOf
<1> SUFFICES ASSUME NEW r \in Resource
             PROVE  /\ With(c)[r] \in [renewable : Int, consumable : Int]
                    /\ Granted(c, r) \in Int
                    /\ Granted(c, r) <= With(c)[r].consumable
                    /\ r \notin DOMAIN need => With(c)[r] = estimates[r]
  BY DEF With
<1>2. /\ estimates[r] \in [renewable : Int, consumable : Int]
      /\ allocated[r] \in Int /\ allocated[r] <= estimates[r].consumable
  BY <1>1 DEF Sound, TypeOK, Covered
<1>3. CASE r \notin DOMAIN need
  <2>1. With(c)[r] = estimates[r] /\ Granted(c, r) = allocated[r] + 0
    BY <1>3 DEF With, Granted, Weight
  <2> QED
    BY <1>2, <1>3, <2>1
<1>4. CASE r \in DOMAIN need
  <2>1. need[r].weight \in Int
    BY <1>1, <1>4
  <2>2. With(c)[r] = Estimate(estimates[r], need[r].weight)
        /\ Granted(c, r) = allocated[r] + need[r].weight
    BY <1>4 DEF With, Granted, Weight
  <2> HIDE DEF need
  <2>3. CASE need[r].weight < 0
    <3>1. /\ With(c)[r] \in [renewable : Int, consumable : Int]
          /\ With(c)[r].consumable = estimates[r].consumable
      BY <1>2, <2>1, <2>2, <2>3 DEF Estimate
    <3> QED
      BY <1>2, <1>4, <2>1, <2>2, <2>3, <3>1
  <2>4. CASE ~(need[r].weight < 0)
    <3>1. /\ With(c)[r] \in [renewable : Int, consumable : Int]
          /\ With(c)[r].consumable = estimates[r].consumable + need[r].weight
      BY <1>2, <2>1, <2>2, <2>4 DEF Estimate
    <3> QED
      BY <1>2, <1>4, <2>1, <2>2, <3>1
  <2> QED
    BY <2>3, <2>4
<1> QED
  BY <1>3, <1>4

LEMMA AcceptSound ==
  ASSUME NothingIsLent, Sound, NEW c \in Command, Accept(c)
  PROVE  Sound'
<1> USE DEF Sound
<1> DEFINE need == Needed(requests[c])
<1>1. /\ accepted' = accepted \cup {c} /\ estimates' = With(c)
      /\ reserved' = [d \in DOMAIN reserved \cup {c} |-> IF d = c THEN need ELSE reserved[d]]
      /\ allocated' = [r \in Resource |-> Granted(c, r)]
      /\ spent' = [r \in Resource |-> spent[r] + Kept(c, r)]
      /\ lost' = [r \in Resource |-> lost[r] + Released(c, r)]
      /\ UNCHANGED <<stage, requests, handle, queue, contending, rejected, refused>>
      /\ NextUp(c) /\ Fits(c)
  BY DEF Accept
<1>2. /\ Arbitrating /\ c \in ToSet(contending) \ (accepted \cup rejected)
      /\ requests[c] # <<>> /\ requests[c] \in Requests[c]
      /\ DOMAIN need \subseteq Resource
      /\ need \in [DOMAIN need -> [weight : Int, release : BOOLEAN]]
  BY <1>1, NeedsOf
<1>3. /\ estimates' \in [Resource -> [renewable : Int, consumable : Int]]
      /\ \A r \in Resource : /\ Granted(c, r) \in Int
                             /\ Granted(c, r) <= estimates'[r].consumable
                             /\ r \notin DOMAIN need => estimates'[r] = estimates[r]
  BY <1>1, WithFacts
<1>4. \A r \in Resource : estimates'[r].consumable <= Capacity[r]
  <2> TAKE r \in Resource
  <2>1. CASE r \in DOMAIN need
    <3>1. estimates'[r].consumable \in 0..Capacity[r]
      BY <1>1, <2>1 DEF Fits, Within
    <3> QED
      BY <3>1, Parameters
  <2>2. CASE r \notin DOMAIN need
    BY <1>2, <1>3, <2>2 DEF Covered
  <2> QED
    BY <2>1, <2>2
<1>5. \A r \in DOMAIN need : need[r].release => need[r].weight >= 0
  BY <1>2 DEF NothingIsLent
<1> HIDE DEF need
<1>6. /\ DOMAIN reserved' = DOMAIN reserved \cup {c}
      /\ reserved'[c] = need
      /\ \A d \in DOMAIN reserved : d # c => reserved'[d] = reserved[d]
  BY <1>1
<1>7. TypeOK'
  <2>1. spent' \in [Resource -> Int] /\ lost' \in [Resource -> Int]
    <3>1. spent \in [Resource -> Int] /\ lost \in [Resource -> Int]
      BY DEF TypeOK
    <3>2. \A r \in Resource : spent[r] + Kept(c, r) \in Int /\ lost[r] + Released(c, r) \in Int
      BY <3>1, GivenBack
    <3> QED  BY <1>1, <3>2
  <2> QED  BY <1>1, <1>2, <1>3, <1>6, <2>1 DEF TypeOK
<1>8. StagesAgree'
  BY <1>1, <1>2 DEF StagesAgree, Undecided, Arbitrating
<1>9. Covered' /\ NotOverbooked'
  <2> SUFFICES ASSUME NEW r \in Resource
               PROVE  /\ allocated'[r] <= estimates'[r].consumable
                      /\ estimates'[r].consumable <= Capacity[r]
                      /\ allocated'[r] <= Capacity[r]
    BY DEF Covered, NotOverbooked
  <2>1. allocated'[r] \in Int /\ estimates'[r].consumable \in Int /\ Capacity[r] \in Int
    BY <1>7, Parameters DEF TypeOK
  <2>2. allocated'[r] = Granted(c, r)
    BY <1>1
  <2> QED
    BY <1>3, <1>4, <2>1, <2>2
<1>10. NothingLent' /\ EntriesAreNeeds'
  <2>1. \E list \in Requests[c] : need = Needed(list)
    BY <1>2 DEF need
  <2> QED  BY <1>5, <1>6, <2>1 DEF NothingLent, EntriesAreNeeds
<1>11. Holding'
  <2>1. need = Needed(requests[c]) /\ requests' = requests /\ refused' = refused
    BY <1>1 DEF need
  <2>2. Served(c)' /\ \A d \in Command : d # c => (Served(d)' <=> Served(d))
    BY <1>1, <1>2 DEF Served
  <2> QED  BY <1>6, <2>1, <2>2 DEF Holding, TypeOK
<1>12. LostByRefusal'
  <2> SUFFICES ASSUME NEW r \in Resource, lost'[r] # 0
               PROVE  \E d \in refused : MayHold(d, r)
    BY <1>1 DEF LostByRefusal, MayHold
  <2>1. CASE lost[r] # 0
    BY <2>1 DEF LostByRefusal
  <2>2. CASE lost[r] = 0
    <3>1. Released(c, r) # 0
      BY <1>1, <2>2, GivenBack
    <3>2. c \in DOMAIN reserved /\ r \in DOMAIN reserved[c]
      BY <3>1 DEF Released
    <3>3. MayHold(c, r)
      BY <3>2 DEF EntriesAreNeeds, MayHold
    <3>4. ~Served(c)
      BY <1>2 DEF Served, StagesAgree
    <3> QED  BY <3>2, <3>3, <3>4 DEF Holding
  <2> QED  BY <2>1, <2>2
<1> QED
  BY <1>1, <1>7, <1>8, <1>9, <1>10, <1>11, <1>12 DEF RequestsAreGiven

LEMMA RejectSound ==
  ASSUME Sound, NEW c \in Command, Reject(c)
  PROVE  Sound'
<1> USE DEF Sound
<1>1. /\ rejected' = rejected \cup {c} /\ estimates' = estimates
      /\ UNCHANGED <<stage, requests, handle, queue, contending, accepted, allocated,
                     reserved, spent, lost, refused>>
      /\ c \in ToSet(contending) \ (accepted \cup rejected)
  BY NeedsOf DEF Reject, AfterReject
<1>2. TypeOK'
  BY <1>1 DEF TypeOK
<1>3. StagesAgree'
  BY <1>1 DEF StagesAgree, Undecided, Arbitrating
<1> QED
  BY <1>1, <1>2, <1>3
  DEF RequestsAreGiven, Covered, NothingLent, EntriesAreNeeds, Holding, Served, LostByRefusal,
      NotOverbooked, Arbitrating

LEMMA EndSound ==
  ASSUME Sound, EndArbitration
  PROVE  Sound'
<1> USE DEF Sound
<1>1. /\ stage' = [c \in Command |-> IF c \in accepted THEN "sent"
                                       ELSE IF c \in rejected THEN "denied" ELSE stage[c]]
      /\ handle' = [c \in Command |-> IF c \in rejected THEN "denied" ELSE handle[c]]
      /\ contending' = <<>> /\ accepted' = {} /\ rejected' = {} /\ estimates' = Nothing
      /\ UNCHANGED <<requests, queue, allocated, reserved, spent, lost, refused>>
      /\ Arbitrating
  BY DEF EndArbitration
<1>2. /\ queue = <<>> /\ ToSet(queue') = {} /\ ToSet(contending') = {}
      /\ \A c \in accepted \cup rejected : c \in Command /\ stage[c] = "queued"
  BY <1>1, Elements DEF StagesAgree, TypeOK
<1>3. \A c \in Command : /\ c \in accepted => stage'[c] = "sent"
                         /\ c \notin accepted /\ c \in rejected => stage'[c] = "denied"
                         /\ c \notin accepted /\ c \notin rejected => stage'[c] = stage[c]
  BY <1>1
<1>4. stage' \in [Command -> Stage] /\ handle' \in [Command -> Handle]
  BY <1>1 DEF TypeOK, Stage, Handle
<1>5. TypeOK'
  BY <1>1, <1>4 DEF TypeOK, Nothing
<1>6. \A c \in Command : c \in accepted => c \notin rejected
  BY DEF StagesAgree
<1>7. StagesAgree'
  BY <1>1, <1>2, <1>3, <1>6 DEF StagesAgree, Undecided, Arbitrating
<1>8. Holding'
  <2>1. \A c \in Command : Served(c)' <=> Served(c)
    BY <1>1, <1>2, <1>3, <1>6 DEF Served
  <2> QED  BY <1>1, <2>1 DEF Holding, TypeOK
<1> QED
  BY <1>1, <1>5, <1>7, <1>8
  DEF RequestsAreGiven, Covered, NothingLent, EntriesAreNeeds, LostByRefusal, NotOverbooked,
      Arbitrating

-----------------------------------------------------------------------------
LEMMA NextSound ==
  ASSUME NothingIsLent, Sound, [Next]_vars
  PROVE  Sound'
<1>1. CASE Next
  BY <1>1, EnqueueSound, AnswerSound, FinishSound, AcceptSound, RejectSound, BeginSound,
     EndSound DEF Next
<1>2. CASE UNCHANGED vars
  BY <1>2 DEF vars, Sound, TypeOK, RequestsAreGiven, StagesAgree, Covered, NothingLent,
              EntriesAreNeeds, Holding, Served, LostByRefusal, NotOverbooked, Undecided, Arbitrating
<1> QED
  BY <1>1, <1>2

\* If no command lends a resource, every state that the arbiter reaches is sound.
THEOREM SoundAlways ==
  ASSUME NothingIsLent
  PROVE  Spec => []Sound
<1>1. Init => Sound
  BY InitSound
<1>2. Sound /\ [Next]_vars => Sound'
  BY NextSound
<1> QED
  BY <1>1, <1>2, PTL DEF Spec

\* For all commands, hierarchies and requests that lend nothing, no resource is ever
\* overbooked: the tests of optimalResourceArbitration() on estimates bound what
\* m_allocated adds up to over all steps.
THEOREM NeverOverbooked ==
  ASSUME NothingIsLent
  PROVE  Spec => []NotOverbooked
<1>1. Sound => NotOverbooked
  BY DEF Sound
<1> QED
  BY <1>1, SoundAlways, PTL

\* Between arbitrations, every command that was accepted and is not done holds what its
\* list needs, and no other command holds anything, whatever answers came and however
\* late, unless an interface has answered COMMAND_DENIED to it.
THEOREM HeldExactlyWhileSent ==
  ASSUME NothingIsLent
  PROVE  Spec => []HeldWhileSent
<1>1. Sound => HeldWhileSent
  <2> SUFFICES ASSUME Sound, ~Arbitrating PROVE HeldWhileSent
    BY DEF HeldWhileSent
  <2>1. accepted = {}
    BY Elements DEF Sound, StagesAgree, TypeOK, Arbitrating
  <2> QED
    BY <2>1 DEF Sound, Holding, Served, HeldWhileSent
<1> QED
  BY <1>1, SoundAlways, PTL

\* A resource that is to be given back gets lost, by an entry of m_cmdResMap that is
\* replaced, only if an interface has answered COMMAND_DENIED to a command that may ask
\* for it: every other way for an execution to end gives it back.
THEOREM LostOnlyByRefusal ==
  ASSUME NothingIsLent
  PROVE  Spec => []LostByRefusal
<1>1. Sound => LostByRefusal
  BY DEF Sound
<1> QED
  BY <1>1, SoundAlways, PTL
=============================================================================
