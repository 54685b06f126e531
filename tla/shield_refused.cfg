SPECIFICATION FairSpec
CONSTANTS
  Requests = {r1, r2, r3}
  Paths = {p1}
  MaxWaitersPerKey = 1
  FetchMayTimeOut = FALSE
  None = None
PROPERTY RefusedOnlyWhenFull
