SPECIFICATION FairSpec
CONSTANTS
  Requests = {r1, r2, r3}
  Paths = {p1, p2}
  MaxWaitersPerKey = 1
  FetchMayTimeOut = TRUE
  None = None
INVARIANTS Ownership NotStranded WaiterBound DuplicateOnlyAfterAbort BlastRadius
PROPERTY EveryFetchReturns
