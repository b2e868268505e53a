CONSTANTS
  a1 = a1
  a2 = a2
  w1 = w1
  w2 = w2
  Attachments = {a1, a2}
  Workers = {w1}
  ProcessOf <- OneProcess
  WatchLag = TRUE
  OwnerErrs = FALSE
  MaxFaults = 0
SPECIFICATION Spec
SYMMETRY AttachmentSymmetry
INVARIANTS
  ReleasedMeansGone
  SlotExclusive
  RemovalFindsNothing
PROPERTIES
  AttachmentHistory
