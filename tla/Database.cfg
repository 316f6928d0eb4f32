SPECIFICATION Spec
CONSTANTS
  Tables = {t1}
  Indexes = {i1, i2}
  Rids = {r1, r2}
  Keys = {k1, k2}
  NoKey = nokey
  NoTable = notable
  Missing = missing
  NoHandle = nohandle
  Broken = broken
  FaultSets = {{"io", "kill"}, {"drop", "kill"}}
  DuplicateCreates = FALSE
INVARIANTS
  TypeOK
  IndexesMatchTables
  CatalogsMatchFiles
  SelectMatchesScan
  SuccessfulWritesRepairIndexes
  
SYMMETRY Symmetry
