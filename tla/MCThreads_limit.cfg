CONSTANTS
  m = m
  a = a
  b = b
  c = c
  Thread = {m, a}
  Main = m
  NULL = NULL
  PriorityArgs = {2}
  MaxThreadNum = 2
  UserThreads = {}
SPECIFICATION Spec
INVARIANT
  LimitIsOfLiveThreads
