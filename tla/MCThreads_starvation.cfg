CONSTANTS
  m = m
  a = a
  b = b
  c = c
  Thread = {m, a}
  Main = m
  NULL = NULL
  PriorityArgs = {2}
  MaxThreadNum = 1
  UserThreads = {}
SPECIFICATION FairSpec
PROPERTY
  YieldReschedules
