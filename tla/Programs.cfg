CONSTANTS
  Words = {"-d", "-K", "-cp", "-x", "-f", "-ci", "file"}
  MaxArgs = 3
  HeaderSize = 2
  Sizes = {0, 1, 2}
  Addresses = {0, 2}
  MaxSections = 2
  NumPhysPages = 7
  PageSize = 2
  Segments <- ASegments
  Program <- Image
  UserSpace = 5
  Size = {1, 2}
  Value = {1}
  MaxStamp = 3
  Pid = {2, 3}
  Memories <- SomeMemories
  BufferSize = 2
  WriteSize = {1, 2}
  Operand = {1, 2}
  MaxCalls = 4
SPECIFICATION Spec
CHECK_DEADLOCK FALSE
INVARIANTS
  DoesWhatWasAsked
  PartsAreLive
  NoffIsFaithful
  TablesAgree
  ReadSeesWrite
  SequencesWork
  ExceptionsArePrecise
  ArithmeticIsExact
  CallIsServed
  JoinAwaitsExec
