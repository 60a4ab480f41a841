CONSTANTS
  app = app
  tool = tool
  dll = dll
  own = own
  xp = xp
  nt = nt
  NoConf = NoConf
  UnknownConf = UnknownConf
  NoEntry = NoEntry
  NoClient = NoClient
  NoProc = NoProc
  NoPath = NoPath
  NotLoaded = NotLoaded
  DefaultConf = xp
  OwnPath = own
  LibPaths = {}
  Shared = {own}
  Clients = {u1}
  Procs = {p1, p2, p3}
  Exes = {app, tool}
  Patterns = {}
  EnvNames = {}
  ExtensionsDisabled = FALSE
  Paths <- MCPaths
  Expand <- MCExpand
  Matches <- MCMatches
  FirstPattern <- MCFirstPattern
  EnumOrders <- MCEnumOrders
  Confs <- MCConfs
  UpdateEntries <- MCUpdateEntries
  InitConfs <- MCInitConfs
  InitFlags <- MCInitFlags
  FreedReads <- MCFreedReads
  RegOpens = {TRUE}
  MaxUpdates = 1
CONSTRAINT Few
SYMMETRY ProcSymmetry
SPECIFICATION ResolverSpec
INVARIANTS
  ResolverTypeOK
  ExtendedHasConf
  
  
  SettingHasItsSource
 
CHECK_DEADLOCK FALSE
