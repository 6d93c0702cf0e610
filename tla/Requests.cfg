SPECIFICATION Spec
CONSTANTS
  None = None
  Agent = {a1, a2}
  State = {s}
  MaxRequests = 3
  MaxSent = 2
INVARIANTS
  WholeMessages
  AnswersReachTheirCommand
  AnsweredLookupWakes
  RightAnswer
CHECK_DEADLOCK FALSE
