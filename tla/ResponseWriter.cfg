CONSTANTS
  HeaderSize = 2
  BufferedSizes = {0, 5}
  FileSizes = {0, 1, 3}
  ChunkSize = 2
  SndBuf = 5
  MaxBytes = 17
SPECIFICATION FairSpec
PROPERTIES Delivers 
CHECK_DEADLOCK FALSE
