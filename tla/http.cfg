SPECIFICATION FairSpec
CONSTANTS
  c1 = c1
  c2 = c2
  Conn = {c1, c2}
  kConnectionLimit = 1
  MaxRequests = 3
INVARIANTS
  HttpTypeOK
  OneResponsePerRequest
  OneThingAtATime
PROPERTIES
  WaitsEnd
