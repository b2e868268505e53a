CONSTANTS
  v1 = v1
  s1 = s1
  s2 = s2
  w1 = w1
  w2 = w2
  Vpcs = {v1}
  Subnets = {s1, s2}
  VpcOf <- TwoParents
  Overlapping <- SamePair
  Workers = {w1}
  MaxFaults = 1
SPECIFICATION LiveSpec
INVARIANTS
  DisjointOnProvider
PROPERTIES
  KeepsPromise
