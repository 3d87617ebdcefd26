CONSTANTS
  t1 = t1
  t2 = t2
  t3 = t3
  a = a
  b = b
  x = x
  y = y
  EOF = EOF
  SystemTick = 3
  UserTick = 1
  TimerTicks = 4
  Requested = {"disk"}
  Polling = {"keyboard"}
  Delay = {1, 2, 5}
  Randomize = TRUE
  IntMax = 1000
  MaxTicks = 12
  SectorsPerTrack = 3
  NumTracks = 3
  RotationTime = 3
  SeekTime = 4
  MaxDiskTicks = 22
  Thread = {t1, t2, t3}
  NumSectors = 2
  Value = {0, 1}
  Magic = Magic
  NULL = NULL
  Host = {a, b}
  Client = {t1, t2, t3}
  HostOf <- RunsOn
  Scripts <- TwoScripts
  Box = {0, 1}
  Tries = 2
  QueueMax = 2
  MaxStops <- OnlyBStops
  None = None
SPECIFICATION Spec
CHECK_DEADLOCK FALSE
INVARIANTS
  DeliveredInTime
  LatencyIsPhysical
  OneRequestAtATime
  InOrder
PROPERTIES
  ImplementsStore
  EchoEnds
  TestsEnd
