SPECIFICATION Spec
CONSTANTS
  MaxPages = 2
  SlotsPerPage = 2
  Values = {a}
  NoRecord = none
  Faults = {"kill"}
INVARIANT DiskHeaderValid
CHECK_DEADLOCK FALSE
