CONSTANTS
  Op = {set}
  Arg = {a}
  Returned = {"ok"}
  SeqSpace = 2
  MaxSession = 2
  Window = 2
  Capacity = 4
  MaxRetry = 0
  AckTimeout = 1
  Lifetime = 1
  ResultTtl = 1
  ResultTimeout = 2
  MaxCommands = 2
  MaxReplacements = 1
  BatchSize = 1
  MaxOutput = 1
  Epoch = {1}
SPECIFICATION LinkFairSpec
INVARIANTS
  ReportedWasExecuted
PROPERTIES
  EveryCommandReported
