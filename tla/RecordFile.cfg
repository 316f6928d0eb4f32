\* Two data pages of two slots, so that pages are empty, half full and full and
\* the chain has up to two pages; writes fail.
SPECIFICATION Spec
CONSTANTS
  MaxPages = 2
  SlotsPerPage = 2
  Values = {a}
  NoRecord = none
  Faults = {"write"}
INVARIANTS TypeOK FreePagesChained FlushedRecordsReadable
PROPERTY ImplementsRecordStore
