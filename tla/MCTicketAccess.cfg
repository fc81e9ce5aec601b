SPECIFICATION AccessSpec
CONSTANTS
  top = top
  dept = dept
  group = group
  Org = {top, dept, group}
  NoOrg = noOrg
  Virtual = {group}
  SeedPath <- ThreeLevels
  User = {ann, root}
  Nobody = nobody
  Admin = {root}
  Manager = {}
  Ticket = {t1}
  SeedTicket = {t1}
  Offered = {"read", "comment", "note", "update", "close", "assign", "delete", "comments", "relations", "list", "create"}
  MaxChange = 2
CHECK_DEADLOCK FALSE
INVARIANTS
  GrantedWasAllowed
  UndisturbedIsExact
