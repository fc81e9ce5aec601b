SPECIFICATION Spec
CONSTANTS
  Task = {t1}
  Worker = {w1, w2}
  Action = {archive, sweep, retired}
  Registered = {archive, sweep}
  TriggerMark = trigger
  NoOne = noone
  Lease = 1
  MaxClock = 5
  MayRedefine = TRUE
CHECK_DEADLOCK FALSE
SYMMETRY JobsSymmetry
INVARIANTS
  OverlapOnlyWhenStale
  SucceededByItsClaimant
  RunsTheRecordedAction
PROPERTIES
  SucceededIsFinal
  ClaimsMoveForward
  ImplementsLease
