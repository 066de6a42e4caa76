CONSTANTS
  Locations <- MCLocations
  Configs <- MCConfigs
  Paths <- MCPaths
  Clients = {b1, b2}
  SessionTimeout = 2
  CleanupPeriod = 1
  CookieAge = 4
  MaxTime = 5
  MaxPerSecond = 2
SPECIFICATION Spec
SYMMETRY Symmetry
INVARIANTS  SessionKept NoSharing
PROPERTY GarbageBounded
