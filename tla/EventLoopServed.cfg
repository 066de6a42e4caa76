CONSTANTS
  NServers = 2
  Conns = {c1, c2}
  NoConn = NoConn
  FdLimit = 4
  FdSetSize = 8
  MaxClients = 1
  ClientTimeout = 1
  KeepAliveTimeout = 1
  HandlerDelays = {0}
  AgeCap = 2
  Kinds = {"withBody"}
  MaxRequests = 1
  Window = 1
  RespSize = 1
  Faults = {"hangup"}
SPECIFICATION FairSpec
PROPERTIES  GoneClosed 
