CONSTANTS
  app = app
  msi = msi
  lib = lib
  own = own
  anyexe = anyexe
  envmsi = envmsi
  xp = xp
  nt = nt
  NoConf = NoConf
  UnknownConf = UnknownConf
  NoEntry = NoEntry
  NoClient = NoClient
  DefaultConf = xp
  OwnPath = own
  LibPaths = {lib}
  Clients = {u1}
  Paths <- MCPaths
  Patterns <- MCPatterns
  EnvNames <- MCEnvNames
  Expand <- MCExpand
  Matches <- MCMatches
  FirstPattern <- MCFirstPattern
  EnumOrders <- MCEnumOrders
  Confs <- MCConfs
  UpdateEntries <- MCUpdateEntries
  InitConfs <- MCInitConfs
  InitFlags <- MCInitFlags
  RegOpens = {TRUE}
  MaxUpdates = 2
SPECIFICATION Spec
PROPERTY SettingSurvivesReload
CHECK_DEADLOCK FALSE
