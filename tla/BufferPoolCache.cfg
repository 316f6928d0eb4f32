CONSTANTS
  Capacity = 2
  Threads = {t1, t2}
  MaxFiles = 1
  MaxPages = 3
  Data = {zero, d}
  ZeroData = zero
  NoData = none
  MaxUses = 1
  ForcesPinned = FALSE

SPECIFICATION Spec
INVARIANT CleanIsStored
PROPERTY ImplementsPageCache
