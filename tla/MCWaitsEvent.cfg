CONSTANTS
  i1 = i1
  i2 = i2
  Items = {i1, i2}
  Handles = {h}
  MAX_WAIT_ITEMS = 1
  Calls = {c1, c2}
  NoItem = NoItem
INVARIANT DestroyedAfterCallbacks
SPECIFICATION Spec
CHECK_DEADLOCK FALSE
CONSTRAINT Instances
