CONSTANTS
  Capacity = 2
  Threads = {t1, t2}
  MaxFiles = 2
  MaxPages = 2
  Data = {zero}
  ZeroData = zero
  NoData = none
  MaxUses = 1
  ForcesPinned = TRUE

SPECIFICATION Spec
INVARIANT TypeOK
INVARIANT PinsMatchGuards
INVARIANT GuardStable
INVARIANT PageTableInverse
INVARIANT FramesPartitioned
PROPERTY CallsReturn
