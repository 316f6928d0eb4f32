SPECIFICATION Spec
CONSTANTS
  Tables = {t1}
  Indexes = {i1}
  Rids = {r1}
  Keys = {k1}
  NoKey = nokey
  NoTable = notable
  Missing = missing
  NoHandle = nohandle
  Broken = broken
  FaultSets = {{}}
  DuplicateCreates = TRUE
INVARIANT SelectMatchesScan
