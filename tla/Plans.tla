-------------------------------- MODULE Plans --------------------------------
(***************************************************************************)
(* How the MC modules write the plans they check PlexilExec on.            *)
(***************************************************************************)
EXTENDS PlexilExec

Is(v)     == [kind |-> "constant", of |-> v]
On(l)     == [kind |-> "lookup", of |-> l]
Var(v)    == [kind |-> "variable", of |-> v]
In(n, S)  == [kind |-> "state", of |-> n, in |-> S]
ByDefault == [kind |-> "default"]

\* A condition the plan does not give.
Absent == [c \in ConditionName |->
             Is(IF c \in {"exit", "skip", "repeat"} THEN "F" ELSE "T")]

\* The conditions of n: those given, and the defaults for the rest.
Given(n, given) ==
  [c \in ConditionName |->
     IF c \in DOMAIN given THEN given[c]
     ELSE IF c = "end" /\ Type[n] = "List" THEN ByDefault ELSE Absent[c]]

\* The parent of every node but the root is the root.
Flat(nodes) == [n \in nodes |-> IF n = "root" THEN None ELSE "root"]

\* Listeners in the order of the document the plan was read from.
Ordered(document) ==
  [S \in SUBSET ToSet(document) |-> SelectSeq(document, LAMBDA n : n \in S)]

NoMutexes == [n \in Node |-> <<>>]
NoDest    == [n \in Node |-> None]
NoRhs     == [n \in Node |-> "U"]
Equal     == [n \in Node |-> 0]
Global     == [v \in Variable |-> None]
AllUnknown == [v \in Variable |-> "U"]
AllFalse   == [v \in Variable |-> "F"]
=============================================================================
