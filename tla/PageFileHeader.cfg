CONSTANTS
  MaxPages = 3
  DataSize = 1
  Byte = {zero, d}
  ZeroByte = zero
  NoData = none
  SignBit = 3
  Faults = {"crash"}
  ClientDisposes = TRUE

SPECIFICATION Spec
INVARIANT DiskHeaderValid
CHECK_DEADLOCK FALSE
