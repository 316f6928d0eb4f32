CONSTANTS
  MaxPages = 3
  DataSize = 1
  Byte = {zero, d}
  ZeroByte = zero
  NoData = none
  SignBit = 3
  Faults = {"write"}
  ClientDisposes = TRUE

SPECIFICATION Spec
INVARIANT TypeOK
INVARIANT FreeListThreaded
INVARIANT CleanIsOnDisk
PROPERTY ImplementsPageStore
