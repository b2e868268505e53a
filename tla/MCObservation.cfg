CONSTANTS
  Objects = {o1}
  Targets = {"attachment", "resource", "removal"}
  KindOf <- OneOfEach
  ObjectsOf <- AllObjects
  Lanes = {1}
  ProcessOf <- OwnProcess
  QueueCapacity = 1
  ChangesFactor = 1
  MaxChanges = 1
  MaxRows = 1
  MaxFaults = 1
SPECIFICATION LiveSpec
INVARIANTS
  NoHintIsLost
PROPERTIES
  FactsNeverRegress
  ConclusionsAreCurrent
  ObservationProgress
