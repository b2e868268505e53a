CONSTANTS
  a1 = a1
  a2 = a2
  w1 = w1
  w2 = w2
  Attachments = {a1}
  Workers = {w1}
  ProcessOf <- OneProcess
  WatchLag = FALSE
  OwnerErrs = TRUE
  MaxFaults = 1
SPECIFICATION LiveSpec
PROPERTIES
  ReleaseEnds
  LatePodIsNoticed
