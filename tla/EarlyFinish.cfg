SPECIFICATION Spec
CONSTANTS
  Client = {main, adapter}
  Main = main
  Waiter = {main}
  Plan = {plan1}
  MaxEvents = 0
  MaxMarks = 1
  MaxSuspensions = 0
  MaxWaits = 1
PROPERTY
  PlanFinished
CHECK_DEADLOCK FALSE
