CONSTANTS
  NServers = 1
  Conns = {c1, c2}
  NoConn = NoConn
  FdLimit = 4
  FdSetSize = 8
  MaxClients = 2
  ClientTimeout = 0
  KeepAliveTimeout = 0
  HandlerDelays = {0}
  AgeCap = 1
  Kinds = {"earlyMark"}
  MaxRequests = 2
  Window = 1
  RespSize = 1
  Faults = {"reset"}
SPECIFICATION Spec
SYMMETRY Symmetry
INVARIANTS FileFdsPrivate Consistent AnswersInOrder
 
