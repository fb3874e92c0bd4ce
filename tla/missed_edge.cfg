CONSTANTS
  Op = {set}
  Arg = {a}
  Returned = {"ok"}
  SeqSpace = 1
  MaxSession = 2
  Window = 1
  Capacity = 2
  MaxRetry = 0
  AckTimeout = 1
  Lifetime = 1
  ResultTtl = 1
  ResultTimeout = 1
  MaxCommands = 1
  MaxReplacements = 0
  BatchSize = 1
  MaxOutput = 2
  Epoch = {1}
  Fd = {1, 8, 9}
  SerialFd = {1}
  DownFd = 8
  TimerFd = 9
  MaxChannels = 3
  NoChannel = NoChannel
SPECIFICATION ReactorSpec
INVARIANTS
  WritableEventComes
