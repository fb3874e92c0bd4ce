SPECIFICATION FairSpec
CONSTANTS
  kBufferSize = 3
  kMaxQueuedBuffers = 2
  kKeepOnOverflow = 1
  Length = {1, 2}
  MaxLines = 5
INVARIANTS
  LinesAccounted
PROPERTIES
  EveryLineSettles
  DestructorReturns
