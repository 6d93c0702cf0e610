SPECIFICATION Spec
CONSTANTS
  None = None
  Node <- MutexNode
  Parent <- MutexParent
  Type <- MutexType
  Priority <- MutexPriority
  Mutex = {"m1", "m2"}
  Using <- MutexUsing
  Variable = {}
  Dest <- NoDest
  Rhs <- NoRhs
  Owner <- Global
  Initial <- AllUnknown
  Lookup = {"l", "k"}
  Conditions <- MutexConditions
  InOrder <- MutexOrder
INVARIANTS
  HolderIsRunning
