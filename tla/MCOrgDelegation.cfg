SPECIFICATION Spec
CONSTANTS
  User = {root, ann, bob}
  Seed = {ann}
  Admin = {root}
  Virtual = TRUE
  Request = {p1, p2}
  Nobody = nobody
  Offered = {"add", "remove", "owners", "role", "scope", "orgs", "delete", "bind", "unbind"}
  MaxOps = 3
SYMMETRY Places
CHECK_DEADLOCK FALSE
INVARIANTS
  OwnershipAgrees
  PowerComesFromGlobal
