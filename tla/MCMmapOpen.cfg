CONSTANTS
  Handles = {h1, h2}
  h1 = h1
  h2 = h2
  Lengths = {0, 1, 4, 5}
  PageSize <- SmallPages
  MaxStat = 9
SPECIFICATION MmapSpec
\* one at a time
INVARIANT StatsPerPageSize
\* INVARIANT AddressInRegion
CHECK_DEADLOCK FALSE
