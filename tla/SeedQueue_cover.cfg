SPECIFICATION Spec
CONSTANTS
  NumSeeds = 1
  MapSize = 2
  Factors = {1}
  GiveUpFaults = {}
  CalChances = 2
  SmallQueue = 1
  MaxQueue = 2
INVARIANT FavorablesTriggerAllSeen
CHECK_DEADLOCK FALSE
