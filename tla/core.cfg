SPECIFICATION FairSpec
CONSTANTS
  m1 = m1
  m2 = m2
  r1 = r1
  t1 = t1
  t2 = t2
  Msg = {m1, m2}
  Request = {r1}
  MqttThread = {t1, t2}
  kMaxCommands = 1
  kMaxQueries = 1
  CoreCapacity = 1
  CoreSpare = 1
  WorkerCapacity = 1
  WorkerSpare = 0
  MaxFrames = 1
  MaxReadings = 1
INVARIANTS
  CommandsAccounted
  RoomForCompletions
  OneReplyPerRequest
PROPERTIES
  AllAnswered
  ShutdownEnds
