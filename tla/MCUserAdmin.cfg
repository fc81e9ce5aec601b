SPECIFICATION Spec
CONSTANTS
  root = root
  deputy = deputy
  clerk = clerk
  hire = hire
  superadmin = superadmin
  operator = operator
  manager = manager
  User = {root, deputy, clerk, hire}
  Fresh = {hire}
  System = {root}
  Role = {superadmin, operator, manager}
  Super = superadmin
  Priority <- Prio
  Seed <- Bindings
  ActorGroup <- Groups
  Field = {email, phone}
  Request = {p1, p2}
  Nobody = nobody
  Offered = {"create", "update", "profile", "delete", "status", "roles", "reset"}
  Wanted <- Lists
  MaxOps = 3
CHECK_DEADLOCK FALSE
SYMMETRY RequestSymmetry
INVARIANTS
  SuperadminRemains
  NoEscalation
  NoLostPatch
  ListMatchesGet
