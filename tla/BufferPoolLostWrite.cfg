CONSTANTS
  Capacity = 2
  Threads = {t1, t2}
  MaxFiles = 1
  MaxPages = 2
  Data = {zero, d}
  ZeroData = zero
  NoData = none
  MaxUses = 1
  ForcesPinned = TRUE

SPECIFICATION Spec
INVARIANT CleanIsStored
