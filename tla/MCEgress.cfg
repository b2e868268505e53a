CONSTANTS
  e1 = e1
  s1 = s1
  v1 = v1
  w1 = w1
  w2 = w2
  vpc1 = vpc1
  eip1 = eip1
  snat1 = snat1
  Resources <- MCResources
  Eips = {e1}
  Snats = {s1}
  Vpcs = {v1}
  Workers = {w1, w2}
  WithLB = TRUE
  MaxToggles = 2
  MaxFaults = 1
  VPCs = {1, 2}
  Runs = {"r1"}
  Dispatchers = {"d1", "d2"}
  MaxBatch = 2
  MaxOrders = 5
  Parts = {"public", "base", "backfill"}
SPECIFICATION MCSpec
SYMMETRY Symmetry
INVARIANTS
  EgressSafety
  BaseSafety
  BackfillSafety
PROPERTIES
  LatePatchIsHarmless
  AvailableTogether
  BackfillSteps
CHECK_DEADLOCK FALSE
