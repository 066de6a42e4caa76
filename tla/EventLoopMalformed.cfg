CONSTANTS
  NServers = 1
  Conns = {c1}
  NoConn = NoConn
  FdLimit = 4
  FdSetSize = 8
  MaxClients = 2
  ClientTimeout = 1
  KeepAliveTimeout = 1
  HandlerDelays = {0}
  AgeCap = 2
  Kinds = {"malformed", "headerless"}
  MaxRequests = 1
  Window = 1
  RespSize = 1
  Faults = {}
SPECIFICATION FairSpec
PROPERTY NeverHangs
