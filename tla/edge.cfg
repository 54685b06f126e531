SPECIFICATION FairSpec
CONSTANTS
  Requests = {q1, q2}
  Paths = {p1}
  MaxAttempts = 2
  FailThreshold = 1
  SuccessThreshold = 1
  OpenTimeout = 1
  HalfOpenMaxConcurrent = 1
  PrefetchThreshold = 2
  MaxPrefetchPaths = 1
  MaxConcurrentFetch = 1
  MaxCount = 2
INVARIANTS
  TypeOK
  Leaders
  SpareSlotAdmits
  PurgeLeaksOnlyInFlight
PROPERTIES
  FailedOnlyIfAbandoned
  EveryRequestAnswered
  FailuresSubside
