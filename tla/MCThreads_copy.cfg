CONSTANTS
  m = m
  a = a
  b = b
  c = c
  Thread = {m}
  Main = m
  NULL = NULL
  PriorityArgs = {2}
  MaxThreadNum = 1
  UserThreads = {m}
SPECIFICATION Spec
INVARIANT
  KernelInSystemMode
