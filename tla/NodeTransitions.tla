--------------------------- MODULE NodeTransitions ---------------------------
(***************************************************************************)
(* The node state machine of the PLEXIL executive: for each node type, the *)
(* state a node moves to, given the values of its conditions.  This is     *)
(* NodeImpl::getDestState() and the getDestStateFrom...() methods it       *)
(* dispatches to, with the overrides of ListNode (LibraryCallNode inherits *)
(* them), CommandNode, AssignmentNode and UpdateNode.                      *)
(*                                                                         *)
(* A condition is three-valued: "T", "F" or "U" (unknown).  The record c   *)
(* passed to DestState holds one value per condition.  A condition the     *)
(* plan does not give has the value that makes its test vacuous: exit and  *)
(* skip "F", start, pre, invariant, post and end "T", repeat "F".          *)
(***************************************************************************)
EXTENDS Naturals

TruthValue == {"T", "F", "U"}

NodeType == {"Empty", "List", "Assignment", "Command", "Update"}

NodeState == {"INACTIVE", "WAITING", "EXECUTING", "FINISHING", "FAILING",
              "ITERATION_ENDED", "FINISHED"}

\* The states in which a node does what it is for, and holds its resources.
Running == {"EXECUTING", "FINISHING", "FAILING"}

Outcome == {"NO_OUTCOME", "SUCCESS", "FAILURE", "SKIPPED", "INTERRUPTED"}

FailureType == {"NO_FAILURE", "PRE_CONDITION_FAILED", "POST_CONDITION_FAILED",
                "INVARIANT_CONDITION_FAILED", "PARENT_FAILED", "PARENT_EXITED",
                "EXITED"}

\* What getDestState leaves in m_nextState, m_nextOutcome, m_nextFailureType.
Destination == [state : NodeState \cup {"NO_STATE"}, outcome : Outcome,
                failure : FailureType]

To(s, oc, ft) == [state |-> s, outcome |-> oc, failure |-> ft]
ToState(s)    == To(s, "NO_OUTCOME", "NO_FAILURE")
NoTransition  == ToState("NO_STATE")

\* The values of the conditions of one node, with what else its next state
\* depends on: its parent's state and its own failure type.
ConditionValues ==
  [ancestorExit : TruthValue, exit : TruthValue, ancestorInvariant : TruthValue,
   invariant : TruthValue, ancestorEnd : TruthValue, skip : TruthValue,
   start : TruthValue, pre : TruthValue, end : TruthValue, post : TruthValue,
   repeat : TruthValue, actionComplete : TruthValue, abortComplete : TruthValue,
   parent : NodeState \cup {"NONE"}, failure : FailureType]

ParentEnded == {"PARENT_EXITED", "PARENT_FAILED"}

-----------------------------------------------------------------------------
(* The four conditions that cut a node short, in the order they are tested *)

Interrupted(c) == \/ c.ancestorExit = "T" \/ c.exit = "T"
                  \/ c.ancestorInvariant = "F" \/ c.invariant = "F"

InterruptedTo(c, self, ancestor) ==
  IF c.ancestorExit = "T" THEN To(ancestor, "INTERRUPTED", "PARENT_EXITED")
  ELSE IF c.exit = "T" THEN To(self, "INTERRUPTED", "EXITED")
  ELSE IF c.ancestorInvariant = "F" THEN To(ancestor, "FAILURE", "PARENT_FAILED")
  ELSE To(self, "FAILURE", "INVARIANT_CONDITION_FAILED")

\* The end of an iteration: the post condition decides the outcome.
IterationOver(c) ==
  IF c.post = "T" THEN To("ITERATION_ENDED", "SUCCESS", "NO_FAILURE")
  ELSE To("ITERATION_ENDED", "FAILURE", "POST_CONDITION_FAILED")

-----------------------------------------------------------------------------
(* One operator per state a node can be in *)

FromInactive(c) ==
  CASE c.parent = "NONE"     -> ToState("WAITING")
    [] c.parent = "FINISHED" -> To("FINISHED", "SKIPPED", "NO_FAILURE")
    [] c.parent = "EXECUTING" ->
         IF c.ancestorExit = "T" \/ c.ancestorInvariant = "F" \/ c.ancestorEnd = "T"
         THEN To("FINISHED", "SKIPPED", "NO_FAILURE")
         ELSE ToState("WAITING")
    [] OTHER -> NoTransition

FromWaiting(c) ==
  IF \/ c.ancestorExit = "T" \/ c.exit = "T" \/ c.ancestorInvariant = "F"
     \/ c.ancestorEnd = "T" \/ c.skip = "T"
  THEN To("FINISHED", "SKIPPED", "NO_FAILURE")
  ELSE IF c.start # "T" THEN NoTransition
  ELSE IF c.pre # "T" THEN To("ITERATION_ENDED", "FAILURE", "PRE_CONDITION_FAILED")
  ELSE ToState("EXECUTING")

\* Slip: an EmptyNode fails like the others.
FromExecutingAlike(type, c) ==
  IF Interrupted(c) THEN InterruptedTo(c, "FAILING", "FAILING")
  ELSE IF c.end # "T" THEN NoTransition
  ELSE IF type \in {"List", "Command"} THEN ToState("FINISHING")
  ELSE IterationOver(c)

\* An EmptyNode has nothing to abort; an AssignmentNode looks at nothing before
\* its assignment has been executed.
FromExecuting(type, c) ==
  IF type = "Assignment" /\ c.actionComplete # "T" THEN NoTransition
  ELSE IF Interrupted(c) THEN
    IF type = "Empty" THEN InterruptedTo(c, "ITERATION_ENDED", "FINISHED")
    ELSE InterruptedTo(c, "FAILING", "FAILING")
  ELSE IF c.end # "T" THEN NoTransition
  ELSE IF type \in {"List", "Command"} THEN ToState("FINISHING")
  ELSE IterationOver(c)

FromFinishing(c) ==
  IF Interrupted(c) THEN InterruptedTo(c, "FAILING", "FAILING")
  ELSE IF c.actionComplete = "T" THEN IterationOver(c)
  ELSE NoTransition

\* Slip: it waits for nothing.
FromFailingAtOnce(type, c) ==
  ToState(IF c.failure \in ParentEnded THEN "FINISHED" ELSE "ITERATION_ENDED")

\* Only an AssignmentNode and a CommandNode wait for an acknowledged abort;
\* a ListNode waits for its children and an UpdateNode for its ack.
FromFailing(type, c) ==
  LET done == IF type \in {"Assignment", "Command"} THEN c.abortComplete
              ELSE c.actionComplete
  IN  IF done # "T" THEN NoTransition
      ELSE IF c.failure \in ParentEnded THEN ToState("FINISHED")
      ELSE ToState("ITERATION_ENDED")

FromIterationEnded(c) ==
  IF c.ancestorExit = "T" THEN To("FINISHED", "INTERRUPTED", "PARENT_EXITED")
  ELSE IF c.ancestorInvariant = "F" THEN To("FINISHED", "FAILURE", "PARENT_FAILED")
  ELSE IF c.ancestorEnd = "T" THEN ToState("FINISHED")
  ELSE IF c.repeat = "U" THEN NoTransition
  ELSE IF c.repeat = "T" THEN ToState("WAITING")
  ELSE ToState("FINISHED")

\* Slip: it resets itself whatever its parent does.
FromFinishedAlways(c) == IF c.parent = "NONE" THEN NoTransition ELSE ToState("INACTIVE")

FromFinished(c) ==
  IF c.parent = "WAITING" THEN ToState("INACTIVE") ELSE NoTransition

DestState(type, s, c) ==
  CASE s = "INACTIVE"        -> FromInactive(c)
    [] s = "WAITING"         -> FromWaiting(c)
    [] s = "EXECUTING"       -> FromExecuting(type, c)
    [] s = "FINISHING"       -> FromFinishing(c)
    [] s = "FAILING"         -> FromFailing(type, c)
    [] s = "ITERATION_ENDED" -> FromIterationEnded(c)
    [] OTHER                 -> FromFinished(c)

-----------------------------------------------------------------------------
\* "Legal successor states" of the comments before each group of methods.
LegalSuccessor(type, s) ==
  CASE s = "INACTIVE"  -> {"WAITING", "FINISHED"}
    [] s = "WAITING"   -> {"EXECUTING", "FINISHED", "ITERATION_ENDED"}
    [] s = "EXECUTING" ->
         CASE type = "Empty"              -> {"FINISHED", "ITERATION_ENDED"}
           [] type \in {"List", "Command"} -> {"FAILING", "FINISHING"}
           [] OTHER                       -> {"FAILING", "ITERATION_ENDED"}
    [] s = "FINISHING" -> {"FAILING", "ITERATION_ENDED"}
    [] s = "FAILING"   -> {"FINISHED", "ITERATION_ENDED"}
    [] s = "ITERATION_ENDED" -> {"FINISHED", "WAITING"}
    [] OTHER -> {"INACTIVE"}
=============================================================================
