SPECIFICATION FairSpec
CONSTANTS
  None = None
  Exec = Exec
  Timer = {t1}
  Lookup = {"fine", "coarse"}
  Tolerance <- Coarseness
  MaybeEarly = TRUE
  MaxTime = 4
  MaxEvents = 2
INVARIANTS
  TimerCovers
CHECK_DEADLOCK FALSE
PROPERTIES
  WakesUp
