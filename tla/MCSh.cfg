CONSTANTS
  Lines <- MCLines
  MaxLines = 2
  PipeCap = 1
  Codes = {0}
  MayFail = TRUE
SPECIFICATION Spec
INVARIANTS NoLeakedEnds SingleStatusIsOwn
PROPERTIES LineReturns EveryChildEnds ImplementsJobs
CHECK_DEADLOCK FALSE
