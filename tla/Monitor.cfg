CONSTANTS
  Thread = {a, b, c, d}
  NULL = NULL
SPECIFICATION MonitorFairSpec
INVARIANTS
  NoSignalLost
PROPERTIES
  ImplementsMesa
  SignalledRuns
CHECK_DEADLOCK FALSE
