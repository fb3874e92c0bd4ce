CONSTANTS
  Op = {set}
  Arg = {a}
  Returned = {"none"}
  SeqSpace = 5
  MaxSession = 2
  Window = 2
  Capacity = 4
  MaxRetry = 1
  AckTimeout = 1
  Lifetime = 1
  ResultTtl = 2
  ResultTimeout = 3
SPECIFICATION NodeFairSpec
INVARIANTS
  InOrderOnce
  NoGapSkipped
  ResultsAreOfExecutions
  ReceivedIsKept
PROPERTIES
  ClosedStaysClosed
  SlotsAreReleased
