SPECIFICATION PolicySpec
CONSTANTS
  superadmin = superadmin
  boss = boss
  lead = lead
  staff = staff
  staff2 = staff2
  root = root
  chief = chief
  worker = worker
  home = home
  page = page
  save = save
  get = get
  post = post
  Role = {superadmin, boss, lead, staff, staff2}
  norole = norole
  NoRole = norole
  Fresh = {staff2}
  SystemRole = {superadmin}
  Super = superadmin
  Bypass = {superadmin}
  CodeOf <- Codes
  Rank <- Ranks
  Prio = {1, 3}
  Parents = {lead, staff, norole}
  Target = {superadmin, lead, staff, staff2}
  Menu = {home, page, save}
  NoMenu = nomenu
  nomenu = nomenu
  Api = {get, post}
  Apis <- MenuApis
  MenuParent <- MenuParents
  Button = {save}
  Hidden = {home}
  User = {root, chief, worker}
  Direct <- Bound
  ViaOrg <- ByOrg
  Inherits <- Edges
  Granted <- Menus
  ActorGroup <- Groups
  Request = {p1, p2}
  Nobody = nobody
  Offered = {"create", "update", "delete", "assign"}
  MenuLists <- Lists
  MaxOps = 3
CHECK_DEADLOCK FALSE
SYMMETRY RequestSymmetry
INVARIANTS
  PoliciesWithinMenus
  EnforcerIsFresh
  SerialEditsKeepHierarchy
  CallableIsOffered
  TreeShowsEveryPage
