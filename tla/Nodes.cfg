SPECIFICATION Spec
CONSTANTS
  None = None
  Node <- NodesNode
  Parent <- NodesParent
  Type <- NodesType
  Priority <- NodesPriority
  Mutex = {"m"}
  Using <- NodesUsing
  Variable = {"v"}
  Dest <- NodesDest
  Rhs <- NodesRhs
  Owner <- NodesOwner
  Initial <- AllUnknown
  Lookup = {"l", "k"}
  Conditions <- NodesConditions
  InOrder <- NodesOrder
INVARIANTS
  MutualExclusion
  NoFault
  NoMissedTransition
  EffectsMatchState
  OutcomeMatchesFailure
  RunsInsideParent
  CountsMatchStates
PROPERTIES
  AssignmentIsAtomic
  CountsFollowStates
  ResultsComeApart
