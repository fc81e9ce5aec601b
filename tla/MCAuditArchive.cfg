SPECIFICATION FairSpec
CONSTANTS
  Replica = {n1, n2}
  NoRunner = none
  BatchRows = 1
  MaxRow = 2
  MaxFault = 1
  MaxStop = 1
  MaxCallback = 1
CHECK_DEADLOCK FALSE
INVARIANTS
  DeletedWasExported
  ExportedOnceUndisturbed
PROPERTIES
  OldRowsAreArchived
