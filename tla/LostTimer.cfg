SPECIFICATION Spec
CONSTANTS
  None = None
  Exec = Exec
  Timer = {t1}
  Lookup = {"fine", "coarse"}
  Tolerance <- Coarseness
  MaybeEarly = FALSE
  MaxTime = 4
  MaxEvents = 2
INVARIANTS
  TimerIsSet
CHECK_DEADLOCK FALSE
