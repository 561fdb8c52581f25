CONSTANTS
  Handles = {h1, h2}
  h1 = h1
  h2 = h2
  Lengths = {0, 1, 5}
  PageSize <- SmallPages
  MaxStat = 9
SPECIFICATION MmapFairSpec
INVARIANTS
  RegionsFit
  NoRegionLeft
  OwnHandlerOutside
PROPERTY AllocReturns
CHECK_DEADLOCK FALSE
