---------------------------- MODULE Reservations ----------------------------
(***************************************************************************)
(* What the executive promises the nodes of a plan about their mutexes and *)
(* the variables they assign, whatever queues and priorities it decides    *)
(* with: a node gets all it needs in one step, when nothing of it has a    *)
(* holder; it only works while it holds it all; and nobody else can take   *)
(* it away.  A node may keep some of it when its work is over.             *)
(***************************************************************************)
CONSTANTS
  None,
  Client,    \* those who reserve
  Resource,
  Needs      \* for each client, the resources it works with

VARIABLES
  held,      \* for each resource, the client that holds it, or None
  working    \* the clients at work

vars == <<held, working>>

Init == held = [r \in Resource |-> None] /\ working = {}

\* All or nothing
Take(n) ==
  /\ n \notin working
  /\ \A r \in Needs[n] : held[r] = None
  /\ held' = [r \in Resource |-> IF r \in Needs[n] THEN n ELSE held[r]]
  /\ UNCHANGED working

Begin(n) ==
  /\ \A r \in Needs[n] : held[r] = n
  /\ working' = working \cup {n}
  /\ UNCHANGED held

\* A client stops, if it works, and gives up what it likes of what it holds.
LetGo(n, R) ==
  /\ held' = [r \in Resource |-> IF r \in R /\ held[r] = n THEN None ELSE held[r]]
  /\ working' = working \ {n}

Next == \E n \in Client : Take(n) \/ Begin(n) \/ \E R \in SUBSET Needs[n] : LetGo(n, R)

Spec == Init /\ [][Next]_vars
=============================================================================
