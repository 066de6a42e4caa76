CONSTANTS
  BufSize = 2
  PipeSize = 3
  HeaderBuf = 3
  Timeout = 2
  MaxOutput = 6
SPECIFICATION FairSpec
INVARIANTS  Signalled  
PROPERTY Returns
CHECK_DEADLOCK FALSE
