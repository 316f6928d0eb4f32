CONSTANTS
  MaxPages = 2
  DataSize = 2
  Byte = {zero, d}
  ZeroByte = zero
  NoData = none
  SignBit = 3
  Faults = {"write", "drop", "read", "setlen", "crash"}
  ClientDisposes = FALSE

SPECIFICATION Spec
INVARIANT FlushedPagesSurvive
CHECK_DEADLOCK FALSE
