CONSTANTS
  Op = {set}
  Arg = {a, b}
  Returned = {"ok"}
  SeqSpace = 2
  MaxSession = 4
  Window = 2
  Capacity = 4
  MaxRetry = 1
  AckTimeout = 1
  Lifetime = 2
  ResultTtl = 1
  ResultTimeout = 1
  MaxCommands = 2
  MaxReplacements = 0
  BatchSize = 1
  MaxOutput = 1
  Epoch = {1, 3}
  MaxRestarts = 1
SPECIFICATION RestartSpec
SYMMETRY ArgSymmetry
INVARIANTS
  RequestsMatchEntries
  WindowsAgree
  NothingForgotten
PROPERTIES
  NoStaleExecution
  ImplementsService
