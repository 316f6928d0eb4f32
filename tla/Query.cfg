\* A request ends: there is no next step then.
SPECIFICATION Spec
CONSTANTS
  PAGE_DATA_SIZE = 75
  Schema <- MCSchema
  Unknown = 0
  NoRow = norow
  MaxRows = 3
  Tables <- MCTables
  Requests <- MCRequests
INVARIANTS
  SelectAnswers
  RefusalDependsOnRequest
  ListsResolve
  WritesChangeWhatTheyName
  PredicatesMean
  LayoutFits
CHECK_DEADLOCK FALSE
