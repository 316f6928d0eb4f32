\* A rejected file stays rejected: there is no next step then.
SPECIFICATION Spec
CONSTANTS
  MaxPages = 2
  SlotsPerPage = 1
  Values = {a, b}
  NoRecord = none
  Faults = {"write", "setlen", "kill"}
INVARIANT FlushedRecordsOnDisk
CHECK_DEADLOCK FALSE
