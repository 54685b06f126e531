SPECIFICATION FairSpec
CONSTANTS
  r1 = r1  r2 = r2  r3 = r3
  n1 = n1  n2 = n2  n3 = n3
  Regions = {r1, r2, r3}
  DefaultRegions = {r1, r2}
  Nodes = {n1, n2, n3}
  VNodes <- MCVNodes
  Hashes <- MCHashes
  Monitored = {n1, n2, n3}
  Sites <- MCSites
  Startup <- MCStartup
  Distance <- MCDistance
  Requests = {q1}
  MaxEvents = 2
  None = None
INVARIANTS RingMatchesPool RoundRobinFair FailoverComplete Locality NearestTarget
PROPERTIES MinimalDisruption EveryRequestAnswered
