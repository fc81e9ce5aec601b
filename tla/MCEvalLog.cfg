SPECIFICATION FairSpec
CONSTANTS
  Replica = {n1, n2}
  MaxEval = 2
  BufferSize = 1
  BatchSize = 2
  MaxFault = 1
  MaxStop = 1
CHECK_DEADLOCK FALSE
INVARIANTS
  AcceptedIsKept
  StopKeepsEarlierWrites
PROPERTIES
  AcceptedIsStored
