SPECIFICATION Spec
CONSTANTS
  Command <- RoverCommands
  Resource <- RoverResources
  Capacity <- RoverCapacity
  Children <- RoverHierarchy
  Depth = 1
  Requests <- RoverRequests
INVARIANTS
  NotOverbooked
  AccountsBalance
  HeldWhileSent
  GreedyByPriority
