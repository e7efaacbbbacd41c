SPECIFICATION Spec
CONSTANTS
  MaxRuns = 3
  CanStop = TRUE
INVARIANTS TypeOK ResultIsOfThisRun TimerKillsItsOwnRun
PROPERTIES RunsReturn
CHECK_DEADLOCK FALSE
