SPECIFICATION FairSpec
CONSTANTS
  Paths = {p1, p2, p3}
  Keys = {p1, p2, p3}
  Values = {"new"}
  Capacity = 2
  None = None
  PrefetchThreshold = 1
  MaxPrefetchPaths = 2
  MaxConcurrentFetch = 1
  MaxCount = 2
INVARIANTS
  MapMatchesList
  PrefetchBound
PROPERTIES
  EvictsLeastRecent
  HotRefreshed
  WarmingStops
CHECK_DEADLOCK FALSE
