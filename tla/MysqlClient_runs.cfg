SPECIFICATION Spec
CONSTANTS
  MaxExecs = 3
  MaxUpsets = 2
INVARIANTS TypeOK StartsEmpty TimeoutIsRecent KilledIsNotNormal CrashIsExplained
PROPERTIES KillsItsOwnSession ExecutionsReturn
CHECK_DEADLOCK FALSE
