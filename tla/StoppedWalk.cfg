SPECIFICATION Spec
CONSTANTS
  None = None
  Node <- PendingNode
  Parent <- PendingParent
  Type <- PendingType
  Priority <- PendingPriority
  Mutex = {"m"}
  Using <- PendingUsing
  Variable = {}
  Dest <- NoDest
  Rhs <- NoRhs
  Owner <- Global
  Initial <- AllUnknown
  Lookup = {"l", "k"}
  Conditions <- PendingConditions
  InOrder <- PendingOrder
INVARIANTS
  NoMissedRelease
CHECK_DEADLOCK FALSE
