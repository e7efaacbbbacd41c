SPECIFICATION Spec
CONSTANTS
  Inputs <- AnyOracle
  PieceLimit = 5
  TmoutLimit = 0
  MaxInputs = 2
  MaxSkips = 1
  CanStop = TRUE
INVARIANTS TypeOK OnlyAbandonedIsForeign LaterRunsAreClean CleanVerdictIsRight FailReproduces
PROPERTIES TimeoutsAreRationed
CHECK_DEADLOCK FALSE
