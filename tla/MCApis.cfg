CONSTANTS
  SEGMENT = 8
  SHARED = 2
  ENCODED = 4
  TOP = 9
  FORWARDS = 8
  Stub <- MCStub
  kernel = kernel
  user = user
  near = near
  far = far
  wide = wide
  dcfg = dcfg
  Procs = {p1, p2}
  Bases = {6}
  Nobody = Nobody
  old = old
  heir = heir
  fwd = fwd
  None = None
  Names = {1, 2, 3}
  Handle <- MCHandle
  System <- MCSystem
  LibTables <- MCLibTables
  Inis <- MCInis
SPECIFICATION ImportsSpec
CONSTRAINT Few
SYMMETRY Symmetry
INVARIANTS
  
  DefaultOrNothing
  ImportsTypeOK
  BoundInProcess
  StartedBeforeUse
  ListedOnceByEach
CHECK_DEADLOCK FALSE
