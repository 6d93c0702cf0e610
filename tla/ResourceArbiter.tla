--------------------------- MODULE ResourceArbiter ---------------------------
(***************************************************************************)
(* The arbiter of the resources that commands ask for                      *)
(* (intfc/ResourceArbiterInterface.cc), the commands that use it           *)
(* (intfc/CommandImpl.cc) and the part of the executive's step that calls  *)
(* it (PlexilExec::executeOutboundQueue).                                  *)
(*                                                                         *)
(* A command asks for resources when its node starts.  At the end of the   *)
(* step the arbiter considers the commands of the step one by one, best    *)
(* priority first, and accepts those that fit; the others are denied.      *)
(* What an accepted command has been given is released when its node is    *)
(* done, except for what it keeps, such as fuel that has been burnt; and   *)
(* unless its handle is then COMMAND_DENIED, which an interface may answer *)
(* as well as the executive.                                               *)
(***************************************************************************)
EXTENDS Integers, Sequences, FiniteSets, SequencesExt

CONSTANTS
  Command,
  Resource,
  Capacity,   \* the most of each resource that may be in use
  Children,   \* the resource hierarchy: what using a resource also uses
  Depth,      \* no chain of children is longer
  Requests    \* per command, the lists of requests it may evaluate to

\* One entry of a command's resource list.  A lower number is a better priority.
Request == [name : Resource, weight : Int, release : BOOLEAN, priority : Int]

ASSUME CapacityAssumption == Capacity \in [Resource -> Nat]
ASSUME HierarchyAssumption ==
  /\ Depth \in Nat
  /\ Children \in [Resource -> Seq([name : Resource, weight : Int])]
ASSUME RequestsAssumption == Requests \in [Command -> SUBSET Seq(Request)]

VARIABLES
  stage,      \* of each command: idle, queued for arbitration, sent or denied
  requests,   \* m_resourceValueList: evaluated when the node starts
  handle,     \* m_commandHandle, as far as the arbiter asks for it
  queue,      \* m_commandsToExecute
  contending, \* what arbitrateCommands() has been given, while it runs
  estimates,  \* local to optimalResourceArbitration()
  accepted,   \* acceptCmds
  rejected,   \* rejectCmds
  allocated,  \* m_allocated; a resource without an entry has 0
  reserved,   \* m_cmdResMap
  spent,      \* history: what finished commands have used, and need not give back
  lost,       \* history: what was to be given back, and no entry of m_cmdResMap says so
  refused     \* history: the commands that an interface has denied after they were sent

vars == <<stage, requests, handle, queue, contending, estimates, accepted, rejected,
          allocated, reserved, spent, lost, refused>>

Stage  == {"idle", "queued", "sent", "denied"}
Handle == {"none", "denied", "answered"}

Arbitrating == contending # <<>>

-----------------------------------------------------------------------------
(* What a list of requests needs *)

\* Everything that using r also uses, along chains of at most d children.
Descendants[d \in Nat] ==
  [r \in Resource |->
     IF d = 0 THEN <<>>
     ELSE FlattenSeq([i \in DOMAIN Children[r] |->
            <<Children[r][i]>> \o Descendants[d - 1][Children[r][i].name]])]

\* One request and, after it, the descendants of its resource.
Flattened(request) ==
  LET given(entry) == [name |-> entry.name, weight |-> entry.weight, release |-> request.release]
      below == Descendants[Depth][request.name]
  IN <<given(request)>> \o [i \in DOMAIN below |-> given(below[i])]

\* A resource that is named twice counts once, as it was first named: inserting
\* into a std::set does not replace what is there.
Needed(list) ==
  LET all == FlattenSeq([i \in DOMAIN list |-> Flattened(list[i])])
      first(r) == CHOOSE i \in DOMAIN all :
                    all[i].name = r /\ \A j \in 1..(i - 1) : all[j].name # r
  IN [r \in {all[i].name : i \in DOMAIN all} |->
        [weight |-> all[first(r)].weight, release |-> all[first(r)].release]]

\* What a list comes to has the type of its entries and of the hierarchy.
ASSUME NeedsAssumption ==
  \A c \in Command : \A list \in Requests[c] :
    /\ DOMAIN Needed(list) \subseteq Resource
    /\ Needed(list) \in [DOMAIN Needed(list) -> [weight : Int, release : BOOLEAN]]

Weight(need, r) == IF r \in DOMAIN need THEN need[r].weight ELSE 0

\* c is considered before d: better priority, which is that of the first request,
\* or the same and earlier in the queue (the sort is stable).
Before(c, d) ==
  LET p(e) == Head(requests[e]).priority
      at(e) == CHOOSE i \in DOMAIN contending : contending[i] = e
  IN p(c) < p(d) \/ (p(c) = p(d) /\ at(c) <= at(d))

Undecided == ToSet(contending) \ (accepted \cup rejected)

\* The entry that the loop over the sorted commands has come to.
NextUp(c) == c \in Undecided /\ \A d \in Undecided : Before(c, d)

-----------------------------------------------------------------------------
TypeOK ==
  /\ stage \in [Command -> Stage]
  /\ requests \in [Command -> Seq(Request)]
  /\ handle \in [Command -> Handle]
  /\ queue \in Seq(Command)
  /\ contending \in Seq(Command)
  /\ estimates \in [Resource -> [renewable : Int, consumable : Int]]
  /\ accepted \in SUBSET Command
  /\ rejected \in SUBSET Command
  /\ allocated \in [Resource -> Int]
  /\ DOMAIN reserved \subseteq Command
  /\ \A c \in DOMAIN reserved :
       /\ DOMAIN reserved[c] \subseteq Resource
       /\ reserved[c] \in [DOMAIN reserved[c] -> [weight : Int, release : BOOLEAN]]
  /\ spent \in [Resource -> Int]
  /\ lost \in [Resource -> Int]
  /\ refused \subseteq Command

Nothing == [r \in Resource |-> [renewable |-> 0, consumable |-> 0]]

Init ==
  /\ stage = [c \in Command |-> "idle"]
  /\ requests = [c \in Command |-> <<>>]
  /\ handle = [c \in Command |-> "none"]
  /\ queue = <<>>
  /\ contending = <<>>
  /\ estimates = Nothing
  /\ accepted = {}
  /\ rejected = {}
  /\ allocated = [r \in Resource |-> 0]
  /\ reserved = <<>>
  /\ spent = [r \in Resource |-> 0]
  /\ lost = [r \in Resource |-> 0]
  /\ refused = {}

-----------------------------------------------------------------------------
(* Commands *)

\* A command node starts: CommandImpl::activate(), fixValues(), enqueueCommand().
Enqueue(c) ==
  /\ ~Arbitrating
  /\ stage[c] = "idle"
  /\ \E list \in Requests[c] : requests' = [requests EXCEPT ![c] = list]
  /\ stage' = [stage EXCEPT ![c] = "queued"]
  /\ handle' = [handle EXCEPT ![c] = "none"]
  /\ queue' = Append(queue, c)
  /\ UNCHANGED <<contending, estimates, accepted, rejected, allocated, reserved, spent,
                 lost, refused>>

\* An interface answers, this execution of the command or an earlier one, with any
\* handle, COMMAND_DENIED included.  The input queue is read between steps, when no
\* command waits to be arbitrated.
Answer(c) ==
  /\ ~Arbitrating
  /\ queue = <<>>
  /\ stage[c] \in {"sent", "denied"}
  /\ \E h \in {"answered", "denied"} : handle' = [handle EXCEPT ![c] = h]
  /\ UNCHANGED <<stage, requests, queue, contending, estimates, accepted, rejected,
                 allocated, reserved, spent, lost, refused>>

\* What the entry of c gives back of r, and what it keeps.
Released(c, r) ==
  IF c \in DOMAIN reserved /\ r \in DOMAIN reserved[c] /\ reserved[c][r].release
  THEN reserved[c][r].weight ELSE 0
Kept(c, r) ==
  IF c \in DOMAIN reserved THEN Weight(reserved[c], r) - Released(c, r) ELSE 0

\* Slip: a command that has not been answered yet has nothing to release.
ToldToRelease(c) == handle[c] = "answered"

\* A command that an interface has denied is taken for one that the arbiter rejected.
ReleasesResources(c) == handle[c] # "denied"

\* The node is done: CommandImpl::deactivate(), releaseResourcesForCommand().
Finish(c) ==
  /\ ~Arbitrating
  /\ stage[c] \in {"sent", "denied"}
  /\ stage' = [stage EXCEPT ![c] = "idle"]
  /\ requests' = [requests EXCEPT ![c] = <<>>]
  /\ handle' = [handle EXCEPT ![c] = "none"]
  /\ IF ReleasesResources(c)
     THEN /\ allocated' = [r \in Resource |-> allocated[r] - Released(c, r)]
          /\ spent' = [r \in Resource |-> spent[r] + Kept(c, r)]
          /\ reserved' = [d \in DOMAIN reserved \ {c} |-> reserved[d]]
     ELSE UNCHANGED <<allocated, spent, reserved>>
  /\ refused' = IF stage[c] = "sent" /\ handle[c] = "denied" THEN refused \cup {c} ELSE refused
  /\ UNCHANGED <<queue, contending, estimates, accepted, rejected, lost>>

-----------------------------------------------------------------------------
(* Arbitration *)

\* partitionCommands(): a command that asks for nothing is accepted at once.  The
\* estimates start from what is allocated now.
BeginArbitration ==
  /\ ~Arbitrating
  /\ queue # <<>>
  /\ contending' = queue
  /\ accepted' = {c \in ToSet(queue) : requests[c] = <<>>}
  /\ queue' = <<>>
  /\ estimates' = [r \in Resource |-> [renewable |-> allocated[r], consumable |-> allocated[r]]]
  /\ UNCHANGED <<stage, requests, handle, rejected, allocated, reserved, spent, lost, refused>>

\* A negative weight gives some of the resource back: what is in use then lies
\* between the two estimates, whichever of the commands comes first.
Estimate(e, weight) ==
  IF weight < 0 THEN [e EXCEPT !.renewable = @ + weight]
                ELSE [e EXCEPT !.consumable = @ + weight]

Within(e, r) == e.renewable \in 0..Capacity[r] /\ e.consumable \in 0..Capacity[r]

\* The estimates with c added.
With(c) ==
  [r \in Resource |->
     IF r \in DOMAIN Needed(requests[c])
     THEN Estimate(estimates[r], Needed(requests[c])[r].weight) ELSE estimates[r]]

\* Slip: what c needs is compared with the capacity as if c were alone.
FitsAlone(c) ==
  \A r \in DOMAIN Needed(requests[c]) : Needed(requests[c])[r].weight <= Capacity[r]

Fits(c) == \A r \in DOMAIN Needed(requests[c]) : Within(With(c)[r], r)

\* Slip: only what the command itself names is entered as allocated.
GrantedAsNamed(c, r) ==
  allocated[r] + IF \E i \in DOMAIN requests[c] : requests[c][i].name = r
                 THEN Weight(Needed(requests[c]), r) ELSE 0

Granted(c, r) == allocated[r] + Weight(Needed(requests[c]), r)

\* What is entered for c replaces what an earlier execution has left there.
Accept(c) ==
  /\ NextUp(c)
  /\ Fits(c)
  /\ accepted' = accepted \cup {c}
  /\ estimates' = With(c)
  /\ reserved' = [d \in DOMAIN reserved \cup {c} |->
                    IF d = c THEN Needed(requests[c]) ELSE reserved[d]]
  /\ allocated' = [r \in Resource |-> Granted(c, r)]
  /\ spent' = [r \in Resource |-> spent[r] + Kept(c, r)]
  /\ lost' = [r \in Resource |-> lost[r] + Released(c, r)]
  /\ UNCHANGED <<stage, requests, handle, queue, contending, rejected, refused>>

\* Slip: the estimates keep what a rejected command asked for.
AfterRejecting(c) == With(c)

\* savedEstimates.
AfterReject(c) == estimates

Reject(c) ==
  /\ NextUp(c)
  /\ ~Fits(c)
  /\ rejected' = rejected \cup {c}
  /\ estimates' = AfterReject(c)
  /\ UNCHANGED <<stage, requests, handle, queue, contending, accepted, allocated, reserved,
                 spent, lost, refused>>

\* The accepted commands are executed, the others denied.
EndArbitration ==
  /\ Arbitrating
  /\ Undecided = {}
  /\ stage' = [c \in Command |-> IF c \in accepted THEN "sent"
                                   ELSE IF c \in rejected THEN "denied" ELSE stage[c]]
  /\ handle' = [c \in Command |-> IF c \in rejected THEN "denied" ELSE handle[c]]
  /\ contending' = <<>>
  /\ estimates' = Nothing
  /\ accepted' = {}
  /\ rejected' = {}
  /\ UNCHANGED <<requests, queue, allocated, reserved, spent, lost, refused>>

Next ==
  \/ \E c \in Command : Enqueue(c) \/ Answer(c) \/ Finish(c) \/ Accept(c) \/ Reject(c)
  \/ BeginArbitration
  \/ EndArbitration

Spec == Init /\ [][Next]_vars

-----------------------------------------------------------------------------
(* Properties *)

\* A command that gives a resource back does so for good.  A resource that was
\* lent only until the command is done may already be in use elsewhere when it is
\* taken away again.
NothingIsLent ==
  \A c \in Command : \A list \in Requests[c] : \A r \in DOMAIN Needed(list) :
    Needed(list)[r].release => Needed(list)[r].weight >= 0

\* Commands of one step and of all earlier ones together never use more of a
\* resource than there is (the tests against maxConsumableResourceValue()).
NotOverbooked == \A r \in Resource : allocated[r] <= Capacity[r]

Total(S, w(_)) == FoldFunction(+, 0, [c \in S |-> w(c)])

MayHold(c, r) == \E list \in Requests[c] : r \in DOMAIN Needed(list)

\* An entry of m_cmdResMap that is replaced still has something to give back only if an
\* interface has answered COMMAND_DENIED to its command (CommandImpl::deactivate()).
LostByRefusal ==
  \A r \in Resource : lost[r] # 0 => \E c \in refused : MayHold(c, r)

\* What is allocated is what m_cmdResMap says, children in the hierarchy included, and
\* what is gone: used up, or lost with an entry that was replaced.  Nothing is released
\* twice, and nothing gets lost but through commands that an interface has denied
\* (m_allocated against m_cmdResMap).
AccountsBalance ==
  /\ LostByRefusal
  /\ \A r \in Resource :
       allocated[r] = spent[r] + lost[r]
                      + Total(DOMAIN reserved, LAMBDA c : Weight(reserved[c], r))

\* Between arbitrations, a command that is being executed holds what its present list
\* needs, even if it has left an entry behind before; and no other command holds
\* anything, however its execution ended and whatever answers came late, unless an
\* interface has denied it (CommandImpl::deactivate(), releaseResourcesForCommand()).
HeldWhileSent ==
  ~Arbitrating =>
    /\ \A c \in Command : stage[c] = "sent" /\ requests[c] # <<>> =>
         c \in DOMAIN reserved /\ reserved[c] = Needed(requests[c])
    /\ \A c \in DOMAIN reserved \ refused : stage[c] = "sent" /\ requests[c] # <<>>

\* "All currently executing commands with resource requirements" (m_cmdResMap): between
\* arbitrations no other command has an entry.  An interface that answers COMMAND_DENIED
\* breaks it.
HoldersExecute ==
  ~Arbitrating => \A c \in DOMAIN reserved : stage[c] = "sent" /\ requests[c] # <<>>

\* In use of r, by the lower and the upper estimate, when c is considered: what was
\* allocated before, and the accepted commands that come before c.
InUse(c, r) ==
  LET taken == {d \in accepted : requests[d] # <<>>}
      w(d) == Weight(Needed(requests[d]), r)
      start == allocated[r] - Total(taken, w)
      earlier(S(_)) == Total({d \in taken : Before(d, c) /\ d # c /\ S(w(d))}, w)
  IN [renewable |-> start + earlier(LAMBDA x : x < 0),
      consumable |-> start + earlier(LAMBDA x : x >= 0)]

\* A command is accepted exactly if it fits beside the accepted commands of better
\* priority: no better command is denied for the sake of a worse one, and none is
\* denied because of a command that was itself denied (optimalResourceArbitration()).
GreedyByPriority ==
  \A c \in {d \in ToSet(contending) \ Undecided : requests[d] # <<>>} :
    c \in accepted <=>
      \A r \in DOMAIN Needed(requests[c]) :
        Within(Estimate(InUse(c, r), Needed(requests[c])[r].weight), r)
=============================================================================
