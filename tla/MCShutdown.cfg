CONSTANTS
  a1 = a1
  a2 = a2
  svc = svc
  Null = Null
  Users = {a1, a2}
  Services = {svc}
  Kernel = "kernel"
  Hooked = {a1, a2}
  Callers = {"c1", "c2"}
SPECIFICATION ShutdownSpec
CONSTRAINT Few
INVARIANTS
  ShutdownTypeOK
  
  
  ForcedWhenLate
CHECK_DEADLOCK FALSE
PROPERTY RequestEnds
