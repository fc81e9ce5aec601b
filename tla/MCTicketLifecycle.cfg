SPECIFICATION Spec
CONSTANTS
  Ticket = {t1, t2}
  Request = {p1, p2, p3}
  User = {u1, u2}
  NoUser = nouser
  Field = {title, priority}
  Graph <- TwoGraphs
  Offered = {"create", "update", "close", "assign", "comment", "relate", "delete"}
  MaxOps = 5
CHECK_DEADLOCK FALSE
SYMMETRY RequestSymmetry
INVARIANTS
  ClosedByOneEvent
  NoLostPatch
  DeletionLeavesOneEvent
  OneRelationPerPair
PROPERTIES
  ClosedIsFinal
