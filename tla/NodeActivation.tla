---------------------------- MODULE NodeActivation ----------------------------
(***************************************************************************)
(* The activation counts of conditions and variables (expr/Notifier.cc),   *)
(* as the transitions of nodes raise and lower them.                       *)
(*                                                                         *)
(* NodeConditions says of each state of the executive which conditions are *)
(* active.  Here every activate() and deactivate() that a transition calls *)
(* is counted, to show that the counts always come to that.                *)
(***************************************************************************)
EXTENDS PlexilExec

-----------------------------------------------------------------------------
(* Expressions: the entries of m_conditions, and variables                 *)

\* The conditions that a list makes for its children, and which of its own each combines
\* with what it inherits.
AncestorSlot == {"ancestorExit", "ancestorInvariant", "ancestorEnd"}
OwnOf == [ancestorExit |-> "exit", ancestorInvariant |-> "invariant", ancestorEnd |-> "end"]

\* ListNode::specializedCreateConditionWrappers(): the list's own condition, what it
\* inherits, a function of the two if there are both, or nothing.
ForChildren[n \in Node, slot \in AncestorSlot] ==
  LET inherited == IF IsRoot(n) THEN {} ELSE ForChildren[Parent[n], slot]
  IN  CASE ~Has(n, OwnOf[slot])                     -> inherited
        [] Has(n, OwnOf[slot]) /\ inherited = {}    -> {<<n, OwnOf[slot]>>}
        [] Has(n, OwnOf[slot]) /\ inherited # {}    -> {<<n, slot>>}

VariableExpression(v) == <<v, "variable">>

\* What activates and deactivates with e: FixedSizeFunction::handleActivate().
Arguments(e) ==
  CASE e[2] = "variable" -> {}
    [] e[2] \in AncestorSlot -> {<<e[1], OwnOf[e[2]]>>} \cup ForChildren[Parent[e[1]], e[2]]
    [] OTHER -> IF e[2] \in ConditionName /\ condition[e[1]][e[2]].kind = "variable"
                THEN {VariableExpression(condition[e[1]][e[2]].of)} ELSE {}

\* The expressions behind a slot of n.  "locals" are the variables it declares, and
\* "executable" is what its assignment or command holds active.
Behind(n, slot) ==
  CASE slot = "locals"       -> {VariableExpression(v) : v \in {w \in Variable : Owner[w] = n}}
    [] slot = "executable"   -> IF Dest[n] = None THEN {} ELSE {VariableExpression(Dest[n])}
    [] slot \in AncestorSlot -> ForChildren[n, slot]
    [] slot \in ConditionName /\ ~Has(n, slot) -> {}
    [] OTHER                 -> {<<n, slot>>}

-----------------------------------------------------------------------------
(* Notifier::activate() and deactivate()                                   *)

AllExpressions ==
  (Node \X (AncestorSlot \cup ConditionName \cup {"actionComplete", "abortComplete"}))
    \cup (Variable \X {"variable"})

Gathered(S, chain) == FoldSet(LAMBDA e, bag : bag (+) chain[e], EmptyBag, S)

\* The expressions whose counts go up with that of e, when active is the bag of counts: those
\* it reads too if it was not active.
Raised(e, active) ==
  LET chain[x \in AllExpressions] ==
        SetToBag({x}) (+) (IF BagIn(x, active) THEN EmptyBag ELSE Gathered(Arguments(x), chain))
  IN  chain[e]

\* Those whose counts go down with that of e: those it reads too if it is not active any more.
Lowered(e, active) ==
  LET chain[x \in AllExpressions] ==
        SetToBag({x}) (+) (IF CopiesIn(x, active) > 1 THEN EmptyBag
                           ELSE Gathered(Arguments(x), chain))
  IN  chain[e]

\* The exit condition of a command goes up with every execution: two is as good as more.
Capped(bag) ==
  [e \in DOMAIN bag |->
     IF e[2] = "exit" /\ Type[e[1]] = "Command" /\ bag[e] > 2 THEN 2 ELSE bag[e]]

\* counts.active is the bag of the active expressions, m_activeCount of each, and
\* counts.tooOften says that the assertion in deactivate() has failed.
Activate(e, counts) == [counts EXCEPT !.active = Capped(@ (+) Raised(e, @))]

Deactivate(e, counts) ==
  LET down == Lowered(e, counts.active)
  IN  [active |-> counts.active (-) down,
       tooOften |-> counts.tooOften
                      \/ \E x \in DOMAIN down : CopiesIn(x, counts.active) < down[x]]

-----------------------------------------------------------------------------
(* The transition of a node of this type from s to t                       *)

\* deactivateExecutable()
Executable == {"executable", "locals"}

LeavingWaiting(t) ==
  {"skip", "start", "pre"} \cup (IF t = "EXECUTING" THEN {} ELSE {"exit"})

LeavingExecuting(type, t) ==
  CASE type = "Empty"               -> {"exit", "invariant", "end", "post"} \cup Executable
    [] type \in {"Assignment", "Update"} ->
         {"exit", "invariant", "end", "post"}
           \cup (IF type = "Assignment" THEN {"actionComplete"} ELSE {})
           \cup (IF t = "ITERATION_ENDED" THEN Executable ELSE {})
    [] OTHER -> {"end"} \cup (IF t = "FAILING" THEN {"exit", "invariant"} ELSE {})

\* Of lists and commands.
LeavingFinishing(type, t) ==
  {"exit", "invariant", "post"}
    \cup (IF type = "Command" \/ t = "ITERATION_ENDED" THEN {"actionComplete"} ELSE {})
    \cup (IF t = "ITERATION_ENDED" THEN Executable ELSE {})
    \cup (IF type = "List" /\ t = "ITERATION_ENDED" THEN AncestorSlot ELSE {})

\* Slip: a list that fails keeps the conditions of its children active.
LeavingFailingKept(type) ==
  Executable \cup (IF type \in {"List", "Update"} THEN {"actionComplete"}
                   ELSE {"abortComplete"})

LeavingFailing(type) ==
  Executable
    \cup (IF type \in {"List", "Update"} THEN {"actionComplete"} ELSE {"abortComplete"})
    \cup (IF type = "List" THEN AncestorSlot ELSE {})

\* The slots deactivated in transitionFrom...().
DeactivatedSlots(type, s, t) ==
  CASE s = "WAITING"         -> LeavingWaiting(t)
    [] s = "EXECUTING"       -> LeavingExecuting(type, t)
    [] s = "FINISHING"       -> LeavingFinishing(type, t)
    [] s = "FAILING"         -> LeavingFailing(type)
    [] s = "ITERATION_ENDED" -> {"repeat"}
    [] OTHER                 -> {}

\* Lists and updates activate it as they leave EXECUTING, the others on the way in.
ActionCompleteStarts(type, s, t) ==
  \/ type = "List" /\ s = "EXECUTING"
  \/ type = "Update" /\ t = "FAILING"
  \/ type = "Command" /\ t = "FINISHING"
  \/ type = "Assignment" /\ t = "EXECUTING"

Entering(type, t) ==
  CASE t = "WAITING"         -> {"exit", "skip", "start", "pre"}
    [] t = "EXECUTING"       -> {"invariant", "end"} \cup Executable
                                  \cup (CASE type = "List"    -> AncestorSlot
                                          [] type = "Command" -> {"exit"}
                                          [] OTHER            -> {"post"})
    [] t = "FINISHING"       -> {"post"}
    [] t = "FAILING"         -> IF type \in {"List", "Update"} THEN {} ELSE {"abortComplete"}
    [] t = "ITERATION_ENDED" -> {"repeat"}
    [] OTHER                 -> {}

\* The slots activated then, in transitionTo...() and in execute().
ActivatedSlots(type, s, t) ==
  Entering(type, t)
    \cup (IF ActionCompleteStarts(type, s, t) THEN {"actionComplete"} ELSE {})

\* The expressions behind slots of n, one entry for each slot.
AllBehind(n, slots) == UNION {Behind(n, slot) \X {n} \X {slot} : slot \in slots}

\* NodeImpl::transition(): out of the old state, then into the new one.
Counted(n, s, t, counts) ==
  LET left == FoldSet(LAMBDA x, c : Deactivate(x[1], c), counts,
                      AllBehind(n, DeactivatedSlots(Type[n], s, t)))
  IN  FoldSet(LAMBDA x, c : Activate(x[1], c), left,
              AllBehind(n, ActivatedSlots(Type[n], s, t)))

-----------------------------------------------------------------------------
(* Properties                                                              *)

\* The slots that a node of this type has active in a state: the "Conditions active" that the
\* source lists above the functions of each state, with what it activates for others.
ActiveSlots(type, s) ==
  CASE s = "WAITING"   -> {"exit", "skip", "start", "pre"}
    [] s = "EXECUTING" -> {"exit", "invariant", "end"} \cup Executable
                            \cup (CASE type = "List"       -> AncestorSlot
                                    [] type = "Command"    -> {}
                                    [] type = "Assignment" -> {"post", "actionComplete"}
                                    [] OTHER               -> {"post"})
    [] s = "FINISHING" -> {"exit", "invariant", "post", "actionComplete"} \cup Executable
                            \cup (IF type = "List" THEN AncestorSlot ELSE {})
    [] s = "FAILING"   -> Executable
                            \cup (CASE type = "List"   -> {"actionComplete"} \cup AncestorSlot
                                    [] type = "Update" -> {"actionComplete"}
                                    [] OTHER           -> {"abortComplete"})
    [] s = "ITERATION_ENDED" -> {"repeat"}
    [] OTHER           -> {}

\* The counts that the states of the nodes and the leaks of commands come to.
Expected ==
  FoldSet(LAMBDA x, c : Activate(x[1], c), [active |-> EmptyBag, tooOften |-> FALSE],
          UNION {AllBehind(n, ActiveSlots(Type[n], state[n])) : n \in Node}
            \cup UNION {Behind(n, "exit") \X {n} \X {"leaked"} : n \in exitLeaked})

\* Whatever way a node takes through its states, what its transitions activate and deactivate
\* leads from the counts expected before to those expected after, and nothing is deactivated
\* more often than it was activated ("Attempted to deactivate expression too many times").
\* As nothing is active in the beginning, the counts are always those expected.
CountsFollowStates ==
  [][\A n \in Node : state'[n] # state[n] =>
       Counted(n, state[n], state'[n], Expected) = Expected']_vars

\* With these counts an expression is active exactly when NodeConditions says so: the user's
\* conditions in the states whose handlers listen to them, and in command nodes for ever
\* after; what a list makes for its children while it runs; local variables while their node,
\* or an assignment or command that sets them, does.  (Only transitions change any of this.)
CountsMatchStates ==
  phase = "transition" => \E active \in {Expected.active} :
    /\ \A n \in Node, c \in ConditionName \ {"pre", "post"} :
         Has(n, c) => (BagIn(<<n, c>>, active) <=> Active(n, c))
    /\ \A n \in Node, slot \in AncestorSlot :
         ~IsRoot(n) =>
           ((\E e \in ForChildren[Parent[n], slot] : BagIn(e, active))
              <=> AncestorActive(n, OwnOf[slot]))
    /\ \A v \in Variable :
         Owner[v] # None => (BagIn(VariableExpression(v), active) <=> VariableActive(v))
=============================================================================
