SPECIFICATION FairSpec
CONSTANTS
  v1 = v1
  v2 = v2
  Value = {v1, v2}
  kMaxCommands = 0
  WorkerCapacity = 1
  WorkerSpare = 1
  MaxHups = 2
INVARIANTS
  PendingIsOneReload
  AppliedIsPublished
PROPERTIES
  HupIsHeard
  CloudIsHeard
  StopEnds
