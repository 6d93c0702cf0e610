SPECIFICATION FairSpec
CONSTANTS
  None = None
  Node <- MutexNode
  Parent <- MutexParent
  Type <- MutexType
  Priority <- MutexPriority
  Mutex = {"m1", "m2"}
  Using <- MutexUsing
  Variable = {}
  Dest <- NoDest
  Rhs <- NoRhs
  Owner <- Global
  Initial <- AllUnknown
  Lookup = {"l", "k"}
  Conditions <- AllConditions
  InOrder <- MutexOrder
INVARIANTS
  TypeOK
  MutualExclusion
  OneQueue
  QueuesAreSound
  SteadyHolderIsRunning
  PatientNoMissedTransition
  PatientNoMissedRelease
  SteadyNothingDangles
PROPERTIES
  ChangesAreLegal
  PriorityRespected
  ImplementsReservations
  StepEnds
