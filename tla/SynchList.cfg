CONSTANTS
  Thread = {a, b, c}
  Item = {x, y}
  Operation = {"Append", "RemoveFront", "Apply"}
  NULL = NULL
SPECIFICATION FairSpec
INVARIANTS
  ItemsHaveTakers
PROPERTIES
  ConsumersServed
CHECK_DEADLOCK FALSE
