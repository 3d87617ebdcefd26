CONSTANTS
  m = m
  a = a
  b = b
  c = c
  Thread = {m, a, b, c}
  Main = m
  NULL = NULL
  PriorityArgs = {0, 2, 9}
  MaxThreadNum = 3
  UserThreads = {m}
SPECIFICATION Spec
SYMMETRY Symmetry
INVARIANTS
  ReadyListConsistent
  DestroySafe
  NoDanglingThread
PROPERTIES
  PriorityRespected
  NoOvertaking
