CONSTANTS
  c1 = c1
  c2 = c2
  c3 = c3
  Parts = {"process", "migrations", "keys", "changes", "pairs", "crowds", "pages", "scope"}
  Processes = {"old"}
  Lanes <- OneProcess
  Migrators = {"m1", "m2", "m3"}
  Release <- Files
  Interval = 2
  Fresh = 6
  ProbeTime = 1
  MaxStarts = 1
  MaxFaults = 1
  MaxOutages = 1
  MaxFailures = 2
  Disturbances = 1
SPECIFICATION MCSpec
SYMMETRY Callers
INVARIANTS
  ProcessSafety
  MigrationSafety
  KeySafety
  NoWaitCycle
  ReadingIsExact
CHECK_DEADLOCK FALSE
