CONSTANTS
  f = f
  g = g
  h = h
  NULL = NULL
SPECIFICATION Spec
CHECK_DEADLOCK FALSE
INVARIANTS
  FilesAreExact
  CrashIsContained
PROPERTIES
  AreByteFiles
  SourceIsPrinted
