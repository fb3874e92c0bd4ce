SPECIFICATION Spec
CONSTANTS
  EDGE_LEN_MAX = 7
  Frames <- MCFrames
  Noise = {170, 85, 1, 8}
  MaxFrames = 3
  MaxFaults = 2
INVARIANTS
  AlignedIsDelivered
  FindsNextFrame
PROPERTIES
  DeliveredWasReceived
