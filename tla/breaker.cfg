SPECIFICATION FairSpec
CONSTANTS
  Callers = {c1, c2, c3}
  FailThreshold = 2
  SuccessThreshold = 2
  OpenTimeout = 1
  HalfOpenMaxConcurrent = 1
INVARIANTS Accounting ProbeBound SpareSlotAdmits
PROPERTY Recovery
