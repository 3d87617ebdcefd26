SPECIFICATION Spec
CHECK_DEADLOCK FALSE
INVARIANTS
  RoundTrip
  RunIsComplete
  NoneMissing
PROPERTIES
  ImplementCollections
  ShowsAll
