SPECIFICATION Spec
CONSTANTS
  Inputs <- LikelyOnly
  PieceLimit = 5
  TmoutLimit = 1
  MaxInputs = 1
  MaxSkips = 0
  CanStop = FALSE
INVARIANT LostRowsAreReported
CHECK_DEADLOCK FALSE
