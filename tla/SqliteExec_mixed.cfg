SPECIFICATION Spec
CONSTANTS
  Inputs <- AgreeingOnly
  PieceLimit = 5
  TmoutLimit = 1
  MaxInputs = 2
  MaxSkips = 1
  CanStop = FALSE
INVARIANT ReportsCompareOneRun
CHECK_DEADLOCK FALSE
