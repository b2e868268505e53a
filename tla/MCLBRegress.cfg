CONSTANTS
  m1 = m1
  m2 = m2
  w1 = w1
  w2 = w2
  Members = {m1}
  Workers = {w1, w2}
  SubnetOf <- Placed
  Entry = "s0"
  MaxVersions = 2
  MaxFaults = 0
  MaxTurns = 2
  MaxTrouble = 2
  Meddling = FALSE
SPECIFICATION FairSpec
PROPERTY ConfigurationNeverRegresses
