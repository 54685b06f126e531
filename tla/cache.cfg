SPECIFICATION FairSpec
CONSTANTS
  Clients = {c1, c2}
  Keys = {k1}
  Capacity = 1
  MaxSets = 2
  Outages = TRUE
  Cancels = TRUE
  None = None
INVARIANTS RegularReads FallbackRegular
PROPERTY RejoinsRedis
