CONSTANTS
  i1 = i1
  i2 = i2
  Items = {i1, i2}
  Handles = {h1, h2}
  MAX_WAIT_ITEMS = 2
  Calls = {c1, c2}
  NoItem = NoItem
CONSTRAINT Instances
INVARIANTS
  TypeOK
  ThreadUsesLiveItems
  CallbacksEndFirst
 
SPECIFICATION FairSpec
CHECK_DEADLOCK FALSE
