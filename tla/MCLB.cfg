CONSTANTS
  m1 = m1
  m2 = m2
  w1 = w1
  w2 = w2
  Members = {m1, m2}
  Workers = {w1, w2}
  SubnetOf <- Placed
  Entry = "s0"
  MaxVersions = 2
  MaxFaults = 1
  MaxTurns = 1
  MaxTrouble = 1
  Meddling = TRUE
SPECIFICATION Spec
SYMMETRY Lanes
INVARIANTS
  LBSafety
