SPECIFICATION Spec
CONSTANTS
  hq = hq
  branch = branch
  squad = squad
  dept = dept
  fresh = fresh
  Org = {hq, branch, squad, dept, fresh}
  NoOrg = noorg
  System = {hq}
  Virtual = {squad, fresh}
  SeedPath <- ChainSeed
  User = {u1}
  Ticket = {k1}
  Request = {p1, p2, p3}
  Nobody = nobody
  Offered = {"create", "move", "delete", "add", "set", "ticket"}
  MaxDepth = 5
  MaxOps = 3
CHECK_DEADLOCK FALSE
SYMMETRY RequestSymmetry
INVARIANTS
  PathsFollowParents
  TicketPathsFollow
  DeletedIsEmpty
