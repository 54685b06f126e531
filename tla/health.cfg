SPECIFICATION FairSpec
CONSTANTS
  Nodes = {n1, n2}
  FailThreshold = 3
  SuccessThreshold = 2
  None = None
INVARIANTS TypeOK LiveStaysUp
PROPERTIES Hysteresis QuietAfterStop Converges StopEnds
