CONSTANTS
  mpr = mpr
  app = app
  old = old
  m1 = m1
  a1 = a1
  a2 = a2
  o1 = o1
  dflt = dflt
  winlogon = winlogon
  own = own
  sta0 = sta0
  sta1 = sta1
  Null = Null
  Desks = {dflt, winlogon, own}
  Name <- MCName
  Stations = {sta0, sta1}
  Procs = {mpr, app, old}
  Mpr = mpr
  Plain = {old}
  Threads = {m1, a1, a2, o1}
  ProcOf <- MCProcOf
  Windows = {"wa", "wo"}
  Owner <- MCOwner
  Default = dflt
  Winlogon = winlogon
  WinSta0 = sta0
  MaxHandles = 1
SPECIFICATION FairSpec
CONSTRAINT Few
INVARIANTS
  TypeOK
  
  
  InputIsActive
CHECK_DEADLOCK FALSE

  
  
