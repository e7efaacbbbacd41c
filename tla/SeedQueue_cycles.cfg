SPECIFICATION FairSpec
CONSTANTS
  NumSeeds = 2
  MapSize = 3
  Factors = {1, 2}
  GiveUpFaults = {"TMOUT"}
  CalChances = 2
  SmallQueue = 1
  MaxQueue = 3
INVARIANTS TypeOK RefCounts FavoredCover PendingCounts
PROPERTIES SlotsOnlyImprove NoStarvation
CHECK_DEADLOCK FALSE
