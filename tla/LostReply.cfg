SPECIFICATION Spec
CONSTANTS
  None = None
  Agent = {a1}
  State = {s}
  MaxRequests = 1
  MaxSent = 1
INVARIANTS
  HeldWhileRecorded
CHECK_DEADLOCK FALSE
