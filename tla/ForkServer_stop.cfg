SPECIFICATION Spec
CONSTANTS
  MaxRuns = 1
  CanStop = TRUE
INVARIANT NoRunnerIsLeft
CHECK_DEADLOCK FALSE
