CONSTANTS
  Links = {"free", "bridged"}
  Wired = {"bridged"}
  Freshness = 1
  MaxTime = 3
  MaxObjects = 2
  MaxLate = 2
  Resources = {"d1", "d2"}
  Workers = {"w1"}
  Nodes = {"n1", "n2"}
  Joining = {"n2"}
  Prepared = {"d2"}
  MaxFaults = 2
  MaxTrouble = 1
SPECIFICATION MCSpec
INVARIANTS
  FactsSafety
  PlatformSafety
  DeviceSafety
  AddressesAreSound
PROPERTIES
  DocumentsAdvance
  EvidenceBacksAddresses
CHECK_DEADLOCK FALSE
