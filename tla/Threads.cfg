SPECIFICATION FairSpec
CONSTANTS
  Client = {main, adapter}
  Main = main
  Waiter = {main}
  Plan = {plan1}
  MaxEvents = 2
  MaxMarks = 2
  MaxSuspensions = 1
  MaxWaits = 1
INVARIANTS
  TypeOK
  NoEventForgotten
  FinishIsTold
PROPERTIES
  WaitedForAll
  WaiterReturns
CHECK_DEADLOCK FALSE
