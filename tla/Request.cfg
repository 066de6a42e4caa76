CONSTANTS
  Messages <- MCMessages
  BufferSize = 8
  IntMax = 63
  SizeMax = 1023
SPECIFICATION Spec
INVARIANTS TypeOK Recognised Whole
CHECK_DEADLOCK FALSE
