CONSTANTS
  Op = {set}
  Arg = {a, b}
  Returned = {"ok"}
  SeqSpace = 2
  MaxSession = 3
  Window = 1
  Capacity = 2
  MaxRetry = 0
  AckTimeout = 1
  Lifetime = 1
  ResultTtl = 1
  ResultTimeout = 1
  MaxCommands = 2
  MaxReplacements = 2
  BatchSize = 1
  MaxOutput = 1
  Epoch = {3}
  MaxRestarts = 1
SPECIFICATION RestartSpec
SYMMETRY ArgSymmetry
INVARIANTS
  ReportedWasExecuted
