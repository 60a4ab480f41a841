CONSTANTS
  Threads = {t1, t2}
  Values = {v}
  NULL = NULL
  NoTable = NoTable
  NoWalk = NoWalk
  LastSlot = 4
  ExtSize = 5
  WordSize = 3
  Taken = {0, 1, 2}
  MaxOwners = 2
SYMMETRY ThreadSymmetry
SPECIFICATION Spec
INVARIANTS
  SlotsHaveOneOwner
  FreshSlotIsNull
CHECK_DEADLOCK FALSE
