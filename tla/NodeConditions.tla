---------------------------- MODULE NodeConditions ----------------------------
(***************************************************************************)
(* A plan: a forest of nodes, the resources they use and the conditions    *)
(* that drive them; the values of those conditions in a state of the       *)
(* executive; and which nodes are notified when something a condition      *)
(* reads has changed.  This is the part of NodeImpl, ListNode, CommandNode *)
(* and UpdateNode that builds the conditions, activates and deactivates    *)
(* them, and listens to them.                                              *)
(*                                                                         *)
(* A condition is one expression: a constant, a lookup, a variable, or a   *)
(* test of another node's state.  The operators between them are left out: *)
(* a plan is a choice of which conditions share a source of change.        *)
(***************************************************************************)
EXTENDS NodeTransitions, Sequences, FiniteSets

CONSTANTS
  Node, None,
  Parent,      \* [Node -> Node \cup {None}]
  Type,        \* [Node -> NodeType]; a LibraryCallNode is a "List" of one child
  Priority,    \* [Node -> Nat], numerically lowest first
  Mutex,
  Using,       \* [Node -> Seq(Mutex)], the node's mutexes in declaration order
  Variable,
  Dest,        \* [Node -> Variable \cup {None}], the variable an assignment sets or
               \* a command returns its result in
  Rhs,         \* [Node -> TruthValue], the value it assigns
  Owner,       \* [Variable -> Node \cup {None}], the node declaring a variable
  Initial,     \* [Variable -> TruthValue], the value of its initializer
  Lookup,
  Conditions,  \* the choices of conditions, a set of [Node -> [ConditionName -> Expression]]
  InOrder      \* [SUBSET Node -> Seq(Node)], the order in which listeners are notified

ConditionName == {"exit", "invariant", "skip", "start", "pre", "end", "post", "repeat"}

\* "default" is the end condition ListNode supplies when the plan has none.
Expression ==
  [kind : {"constant"}, of : TruthValue] \cup [kind : {"lookup"}, of : Lookup]
    \cup [kind : {"variable"}, of : Variable]
    \cup [kind : {"state"}, of : Node, in : SUBSET NodeState]
    \cup [kind : {"default"}]

ASSUME PlanAssumption ==
  /\ None \notin Node \cup Variable
  /\ Parent \in [Node -> Node \cup {None}]
  /\ Type \in [Node -> NodeType]
  /\ Priority \in [Node -> Nat]
  /\ Using \in [Node -> Seq(Mutex)]
  /\ \A n \in Node : \A i, j \in DOMAIN Using[n] : Using[n][i] = Using[n][j] => i = j
  /\ Dest \in [Node -> Variable \cup {None}]
  /\ \A n \in Node : Type[n] = "Assignment" => Dest[n] \in Variable
  /\ Rhs \in [Node -> TruthValue]
  /\ Owner \in [Variable -> Node \cup {None}]
  /\ Initial \in [Variable -> TruthValue]
  /\ Mutex \cap Variable = {}

\* Only a ListNode has children, and the nodes form trees: following the parents out
\* of a set of nodes one leaves it.
ASSUME ForestAssumption ==
  /\ \A n \in Node : Parent[n] # None => Type[Parent[n]] = "List"
  /\ \A S \in SUBSET Node : S # {} => \E n \in S : Parent[n] \notin S

\* Only a ListNode supplies a condition of its own, its end condition.
ASSUME ConditionsAssumption ==
  \A plan \in Conditions :
    /\ plan \in [Node -> [ConditionName -> Expression]]
    /\ \A n \in Node, c \in ConditionName :
         plan[n][c].kind = "default" => c = "end" /\ Type[n] = "List"

\* Each listener is called once.
ASSUME OrderAssumption ==
  /\ InOrder \in [SUBSET Node -> Seq(Node)]
  /\ \A S \in SUBSET Node :
       /\ {InOrder[S][i] : i \in DOMAIN InOrder[S]} = S
       /\ \A i, j \in DOMAIN InOrder[S] : InOrder[S][i] = InOrder[S][j] => i = j

VARIABLES
  condition,     \* the conditions of the plans, chosen when they are written
  state,         \* NodeImpl::m_state
  failure,       \* NodeImpl::m_failureType
  lookup,        \* the cached value of each lookup
  value,         \* the value of each variable
  handle,        \* CommandImpl::m_commandHandle
  ack,           \* Assignment::m_ack and UpdateImpl::m_ack
  abortComplete, \* CommandImpl::m_abortComplete and Assignment::m_abortComplete
  exitLeaked     \* command nodes whose exit condition was activated once too often

condVars == <<condition, state, failure, lookup, value, handle, ack, abortComplete,
              exitLeaked>>

Handle == {"NO_COMMAND_HANDLE", "COMMAND_SENT", "COMMAND_FAILED"}

-----------------------------------------------------------------------------
(* The plan as a forest *)

IsRoot(n)   == Parent[n] = None
Children(n) == {m \in Node : Parent[m] = n}

Ancestors[n \in Node] ==
  IF IsRoot(n) THEN {} ELSE {Parent[n]} \cup Ancestors[Parent[n]]

\* A condition refers to the state of nodes of its own plan: itself, its parent, a child or a
\* sibling, or by name a node above it or a child of one.
SamePlan(m, n) == ({m} \cup Ancestors[m]) \cap ({n} \cup Ancestors[n]) # {}

ASSUME ReferencesAssumption ==
  \A plan \in Conditions, n \in Node, c \in ConditionName :
    plan[n][c].kind = "state" => SamePlan(n, plan[n][c].of)

Mutexes(n)   == {Using[n][i] : i \in DOMAIN Using[n]}
Resource     == Mutex \cup Variable

ResourcesWithoutVariable(n) == Mutexes(n)  \* slip: assignments reserve nothing
Resources(n) == Mutexes(n) \cup (IF Type[n] = "Assignment" THEN {Dest[n]} ELSE {})

-----------------------------------------------------------------------------
(* Values *)

Truth(b)  == IF b THEN "T" ELSE "F"
AnyOf(vs) == IF "T" \in vs THEN "T" ELSE IF "U" \in vs THEN "U" ELSE "F"
AllOf(vs) == IF "F" \in vs THEN "F" ELSE IF "U" \in vs THEN "U" ELSE "T"

\* A local variable is active while the node that declares it runs, or while an
\* assignment or a command with a result holds it active.
VariableActive(v) ==
  \/ Owner[v] = None
  \/ state[Owner[v]] \in Running
  \/ \E n \in Node : Dest[n] = v /\ state[n] \in Running

Value(e) ==
  CASE e.kind = "constant" -> e.of
    [] e.kind = "lookup"   -> lookup[e.of]
    [] e.kind = "variable" -> IF VariableActive(e.of) THEN value[e.of] ELSE "U"
    [] OTHER               -> Truth(state[e.of] \in e.in)

Has(n, c) == condition[n][c].kind \notin {"constant", "default"}

\* The value of the condition c that the ancestors of n give it: the parent's
\* own condition combined with what it inherits.
AncestorExit(n)      == AnyOf({Value(condition[a]["exit"]) : a \in Ancestors[n]})
AncestorInvariant(n) == AllOf({Value(condition[a]["invariant"]) : a \in Ancestors[n]})
AncestorEnd(n)       == AnyOf({Value(condition[a]["end"]) :
                               a \in {b \in Ancestors[n] : condition[b]["end"].kind # "default"}})

AllFinished(n)          == \A m \in Children(n) : state[m] = "FINISHED"
AllWaitingOrFinished(n) == \A m \in Children(n) : state[m] \in {"WAITING", "FINISHED"}

EndCondition(n) ==
  LET given == condition[n]["end"]
  IN  CASE given.kind = "default"  -> Truth(AllFinished(n))
        [] Type[n] = "Command"     -> AnyOf({Truth(handle[n] = "COMMAND_FAILED"), Value(given)})
        [] Type[n] = "Update"      -> AllOf({Truth(ack[n]), Value(given)})
        [] OTHER                   -> Value(given)

ActionComplete(n) ==
  CASE Type[n] = "List"    -> Truth(AllWaitingOrFinished(n))
    [] Type[n] = "Command" -> Truth(handle[n] # "NO_COMMAND_HANDLE")
    [] OTHER               -> Truth(ack[n])

ValuesOf(n) ==
  [ancestorExit |-> AncestorExit(n), exit |-> Value(condition[n]["exit"]),
   ancestorInvariant |-> AncestorInvariant(n),
   invariant |-> Value(condition[n]["invariant"]), ancestorEnd |-> AncestorEnd(n),
   skip |-> Value(condition[n]["skip"]), start |-> Value(condition[n]["start"]),
   pre |-> Value(condition[n]["pre"]), end |-> EndCondition(n),
   post |-> Value(condition[n]["post"]), repeat |-> Value(condition[n]["repeat"]),
   actionComplete |-> ActionComplete(n), abortComplete |-> Truth(abortComplete[n]),
   parent |-> IF IsRoot(n) THEN "NONE" ELSE state[Parent[n]], failure |-> failure[n]]

-----------------------------------------------------------------------------
(* Activation: a condition notifies its listeners only while it is active *)

ActiveStates(c) ==
  CASE c = "exit"               -> {"WAITING", "EXECUTING", "FINISHING"}
    [] c = "invariant"          -> {"EXECUTING", "FINISHING"}
    [] c \in {"skip", "start"}  -> {"WAITING"}
    [] c = "end"                -> {"EXECUTING"}
    [] c = "repeat"             -> {"ITERATION_ENDED"}
    [] OTHER                    -> {}  \* nobody listens to pre and post

\* Slip: a list never deactivates what it has activated.
NeverDeactivated(a, c) ==
  /\ c \in {"exit", "invariant", "end"}
  /\ \E b \in Node : /\ Type[b] = "List" /\ state[b] \notin {"INACTIVE", "WAITING"}
                     /\ a = b \/ a \in Ancestors[b]

\* A list that runs keeps the conditions its children inherit active, and with
\* them their arguments: its own condition, and what it inherits itself.
KeptActive(a, c) ==
  /\ c \in {"exit", "invariant", "end"}
  /\ \E b \in Node : /\ Type[b] = "List" /\ state[b] \in Running
                     /\ a = b \/ a \in Ancestors[b]

\* CommandNode activates its exit condition twice per execution, in WAITING and
\* in EXECUTING, and deactivates it once: it stays active ever after.
Active(n, c) == \/ state[n] \in ActiveStates(c)
                \/ c = "exit" /\ n \in exitLeaked
                \/ KeptActive(n, c)

\* The ancestor condition of n is made by its nearest ancestor a that has such a
\* condition, and is a's condition itself when a inherits none.
Inherits(n, c) == {a \in Ancestors[n] : Has(a, c)}

AncestorActive(n, c) ==
  \E a \in Inherits(n, c) :
    /\ Inherits(n, c) \subseteq Ancestors[a] \cup {a}
    /\ KeptActive(a, c) \/ (Inherits(a, c) = {} /\ Active(a, c))

\* What NodeImpl checks before it reads an ancestor condition.
AncestorsChecked(n) ==
  CASE state[n] = "WAITING"         -> {"exit", "invariant", "end"}
    [] state[n] = "ITERATION_ENDED" -> {"exit", "invariant", "end"}
    [] state[n] = "INACTIVE" /\ ~IsRoot(n) /\ state[Parent[n]] = "EXECUTING" ->
                                       {"exit", "invariant", "end"}
    [] state[n] = "EXECUTING" /\ Type[n] = "Empty" -> {"exit", "invariant"}
    [] OTHER                        -> {}

\* They are read in that order, exit with the node's own, until one decides.
Reached(n, c) ==
  /\ c # "exit" => /\ AncestorExit(n) # "T"
                   /\ state[n] \in {"WAITING", "EXECUTING"} => Value(condition[n]["exit"]) # "T"
  /\ c = "end" => AncestorInvariant(n) # "F"

AncestorsInactive(n) ==
  \E c \in AncestorsChecked(n) :
    Reached(n, c) /\ Inherits(n, c) # {} /\ ~AncestorActive(n, c)

Reads(e, source) == e.kind = source.kind /\ e.of = source.of

\* The nodes a change of source notifies, through their own conditions, through
\* those they inherit, and a list through the states of its children.
Listeners(source) ==
  {n \in Node :
    \/ \E c \in ConditionName : Active(n, c) /\ Has(n, c) /\ Reads(condition[n][c], source)
    \/ \E c \in {"exit", "invariant", "end"} :
         /\ AncestorActive(n, c)
         /\ \E a \in Inherits(n, c) : Reads(condition[a][c], source)
    \/ /\ source.kind = "state" /\ Parent[source.of] = n /\ Type[n] = "List"
       /\ \/ state[n] \in {"FINISHING", "FAILING"}
          \/ state[n] = "EXECUTING" /\ condition[n]["end"].kind = "default"}

StateOf(n)    == [kind |-> "state", of |-> n]
LookupOf(l)   == [kind |-> "lookup", of |-> l]
VariableOf(v) == [kind |-> "variable", of |-> v]
=============================================================================
