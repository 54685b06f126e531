SPECIFICATION Spec
CONSTANTS
  r1 = r1  r2 = r2  r3 = r3
  n1 = n1  n2 = n2  n3 = n3
  Regions = {r1, r2, r3}
  DefaultRegions = {r1, r2}
  Nodes = {n1, n2, n3}
  VNodes <- MCVNodes
  Hashes <- MCHashes
  Monitored = {}
  Sites <- MCSites
  Startup <- MCStartup
  Distance <- MCDistance
  Requests = {q1}
  MaxEvents = 0
  None = None
INVARIANT AliveNodeServes
