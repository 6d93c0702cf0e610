SPECIFICATION Spec
CONSTANTS
  None = None
  Unknown = Unknown
  State = {"x"}
  Lookup = {"fixed"}
  OnChange = {"fixed"}
  Adjustable = {}
  Names <- SomeNames
  Kind = "integer"
  Values = {0, 1, 2}
  Tolerances = {1, 2}
  MaxReports = 1
INVARIANTS
  InTolerance
