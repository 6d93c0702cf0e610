SPECIFICATION Spec
CONSTANTS
  None = None
  Unknown = Unknown
  State = {"x", "y"}
  Lookup = {"plain", "fixed", "varying"}
  OnChange = {"fixed", "varying"}
  Adjustable = {"varying"}
  Names <- SomeNames
  Kind = "real"
  Values = {0, 1, 2}
  Tolerances = {2, Unknown}
  MaxReports = 1
INVARIANT ChangesArePublished
