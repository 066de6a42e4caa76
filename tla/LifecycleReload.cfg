CONSTANTS
  Contents <- MCContents
  Missing = Missing
  Ports = {1, 2}
  NFds = 3
  MaxReloads = 1
  MaxEdits = 0
SPECIFICATION Spec
INVARIANT NeverDies
CHECK_DEADLOCK FALSE
