CONSTANTS
  Contents <- MCContents
  Missing = Missing
  Ports = {1, 2}
  NFds = 3
  MaxReloads = 2
  MaxEdits = 1
SPECIFICATION FairSpec
INVARIANTS TypeOK NoOrphans WatchesServers ReloadSafe
PROPERTIES  ShutdownEnds
CHECK_DEADLOCK FALSE
