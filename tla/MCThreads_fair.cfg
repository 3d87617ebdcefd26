CONSTANTS
  m = m
  a = a
  b = b
  c = c
  Thread = {m, a, b}
  Main = m
  NULL = NULL
  PriorityArgs = {0}
  MaxThreadNum = 2
  UserThreads = {}
SPECIFICATION FairSpec
PROPERTIES
  ReadyRuns
