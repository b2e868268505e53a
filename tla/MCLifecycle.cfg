CONSTANTS
  v1 = v1
  s1 = s1
  s2 = s2
  w1 = w1
  w2 = w2
  Vpcs = {v1}
  Subnets = {s1}
  VpcOf <- OneParent
  Overlapping = {}
  Workers = {w1, w2}
  MaxFaults = 2
SPECIFICATION Spec
SYMMETRY LaneSymmetry
INVARIANTS
  TypeOK
  LifecycleInv
  CreatedOnce
  DeletedMeansGone
PROPERTIES
  RemovalSticks
  CompletedIsHistory
  KeepsContract
