SPECIFICATION FairSpec
CONSTANTS
  Keys = {k1, k2}
  Burst = 3
  Unit = 3
  Rps = 2
  Window = 4
PROPERTIES
  RateLawHolds
  IdleForgotten
