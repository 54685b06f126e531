SPECIFICATION Spec
CONSTANTS
  Clients = {c1, c2}
  Keys = {k1}
  Capacity = 1
  MaxSets = 1
  Outages = TRUE
  Cancels = FALSE
  None = None
SYMMETRY Symmetry
INVARIANT PurgeHolds
