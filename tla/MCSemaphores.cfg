CONSTANTS
  m = m
  a = a
  b = b
  mutex = mutex
  device = device
  Thread = {m, a, b}
  Main = m
  NULL = NULL
  PriorityArgs = {2}
  MaxThreadNum = 1
  UserThreads = {m, a}
  Semaphore = {mutex, device}
  InitialValue <- Values
  HandlerSem = {device}
  MaxValue = 2
SPECIFICATION SemSpec
INVARIANTS
  NoLostWakeup
  ModeMatches
  UserContext
