CONSTANTS
  NServers = 1
  Conns = {c1, c2}
  NoConn = NoConn
  FdLimit = 3
  FdSetSize = 2
  MaxClients = 2
  ClientTimeout = 1
  KeepAliveTimeout = 1
  HandlerDelays = {0, 1}
  AgeCap = 4
  Kinds = {"noBody"}
  MaxRequests = 2
  Window = 2
  RespSize = 1
  Faults = {"stall"}
SPECIFICATION Spec
SYMMETRY Symmetry
INVARIANTS SocketsOwned SelectSafe AnswersInOrder
PROPERTIES  IdleReaped
