------------------------------ MODULE RolePolicy ------------------------------
(***************************************************************************)
(* Roles, their inheritance, the menus assigned to them, and the Casbin    *)
(* policies that follow from the menus.  roles.parent_id makes a forest:   *)
(* who holds a role also holds its ancestors.  AssignMenus rewrites        *)
(* role_menus and casbin_rule in one transaction, and then the process     *)
(* loads the policies into the enforcer that judges requests.              *)
(*                                                                         *)
(* A step is one statement that reads, the snapshot of a DELETE, the wait  *)
(* for the rows that another transaction has deleted and the deletion of   *)
(* those still there, one INSERT, or the last statement and the commit.    *)
(* Nothing locks the row of the role, and ON CONFLICT DO NOTHING does not  *)
(* lock a row it finds in place.  Menus and their APIs are fixed data: no  *)
(* route writes them.  User bindings are fixed here, UserAdmin changes     *)
(* them; a binding of a role that does not exist yet counts once the role  *)
(* does.                                                                   *)
(***************************************************************************)
EXTENDS RolePriority, FiniteSets

CONSTANTS Role, NoRole,
          Fresh,       \* roles that do not exist at the start
          SystemRole,  \* is_system roles
          Super,       \* the role superadmin
          Bypass,      \* superadmin and admin: the matcher lets them pass
          CodeOf,      \* CodeOf[r] : its code, unique among roles that are not deleted
          Rank,        \* Rank[r] : the priority of r at the start
          Prio,        \* priorities that requests ask for
          Parents,     \* parents that requests ask for
          Target,      \* roles that requests name
          Menu, NoMenu, Api,
          Apis,        \* Apis[m] : the menu_apis rows of m
          MenuParent,  \* MenuParent[m] : its parent, or NoMenu
          Button,      \* the menus that are buttons; the others are directories and pages
          Hidden,      \* the menus with visible = false
          User,
          Direct,      \* Direct[u] : the user_roles rows of u
          ViaOrg,      \* ViaOrg[u] : roles bound to an organization of which u is a member
          Inherits,    \* Inherits[r] : the parent of r at the start
          Granted,     \* Granted[r] : the menus assigned to r at the start
          ActorGroup,  \* the sets of users whose requests are considered together
          Request, Nobody,
          Offered, MenuLists,
          MaxOps       \* bound on requests

Code == {CodeOf[r] : r \in Role}

(* What can be reached from the nodes in S along the edges in E: the least *)
(* set of nodes of N that has S and is closed under E, which is what a     *)
(* recursive query with UNION returns.                                     *)
Reach(N, S, E) ==
  {x \in N : \A T \in SUBSET N :
     (S \subseteq T /\ \A e \in E : e[1] \in T => e[2] \in T) => x \in T}
(* The edges of the inheritance in which the parent of x is P[x].          *)
UpLinks(P) == {<<x, P[x]>> : x \in {y \in Role : P[y] # NoRole}}
AncestorsIn(P, r) == Reach(Role, {P[r]} \ {NoRole}, UpLinks(P))
Op == {"create", "update", "delete", "assign"}

(* The seed data are sound: menus form a forest, roles inherit from roles  *)
(* that exist and are not stronger, and nobody inherits from itself.       *)
ASSUME PolicyAssumption ==
  /\ IsFiniteSet(Role) /\ NoRole \notin Role
  /\ Fresh \subseteq Role /\ SystemRole \subseteq Role \ Fresh
  /\ Super \in Bypass /\ Bypass \subseteq SystemRole
  /\ Rank \in [Role -> Nat \ {0}] /\ Prio \subseteq Nat
  /\ Parents \subseteq Role \cup {NoRole}
  /\ DOMAIN CodeOf = Role
  /\ \A r \in Role \ Fresh, s \in Role \ Fresh : CodeOf[r] = CodeOf[s] => r = s
  /\ \A r \in Bypass, s \in Role : CodeOf[r] = CodeOf[s] => r = s
  /\ Target \subseteq Role
  /\ IsFiniteSet(Menu) /\ NoMenu \notin Menu /\ Apis \in [Menu -> SUBSET Api]
  /\ MenuParent \in [Menu -> Menu \cup {NoMenu}] /\ Button \subseteq Menu /\ Hidden \subseteq Menu
  /\ Direct \in [User -> SUBSET Role] /\ ViaOrg \in [User -> SUBSET Role]
  /\ Inherits \in [Role -> Role \cup {NoRole}]
  /\ \A r \in Role : r \notin AncestorsIn(Inherits, r) /\ Inherits[r] \notin Fresh
  /\ \A r \in Role \ Fresh : Inherits[r] # NoRole => Rank[r] <= Rank[Inherits[r]]
  /\ \A S \in (SUBSET Menu) \ {{}} : \E m \in S : MenuParent[m] \notin S
  /\ Granted \in [Role -> SUBSET Menu] /\ \A r \in Fresh : Granted[r] = {}
  /\ ActorGroup \subseteq SUBSET User /\ Nobody \notin Request
  /\ Offered \subseteq Op /\ MenuLists \subseteq SUBSET Menu /\ MaxOps \in Nat

VARIABLES
  role,        \* role[r] : the roles row: life, prio, parent, on (status), version
  menus,       \* menus[r] : the role_menus rows of r
  rules,       \* rules[c] : the casbin_rule rows of subject role::c
  mem,         \* mem[c] : what the enforcer has loaded
  req,         \* req[p] : the request in progress
  ops,
  actors,      \* whose requests are considered; chosen at the start (auxiliary)
  overlapped,  \* two requests overlapped, not both assigning menus (auxiliary)
  slipped,     \* codes of which a transaction deleted a menu row that another one had
               \* found in place instead of inserting it (auxiliary)
  behind       \* the last reload that ended failed, or a commit had come since it
               \* had read the rules (auxiliary)

policyVars == <<role, menus, rules, mem, req, ops, actors, overlapped, slipped, behind>>

IdleReq == [op |-> "assign", pc |-> "idle", actor |-> Nobody, r |-> NoRole, prio |-> 0,
            parent |-> NoRole, on |-> TRUE, ver |-> 0, cur |-> NoRole, visited |-> {},
            seen |-> 0, want |-> {},
            snapM |-> {}, put |-> {}, met |-> {},     \* menus deleted, inserted, found in place
            snapC |-> {}, putC |-> {}, metC |-> {},   \* and the same of the rules
            tries |-> 0, loaded |-> [c \in Code |-> {}], late |-> FALSE]

Live(r) == role[r].life = "live"
IsOn(r) == Live(r) /\ role[r].on
Priority == [r \in Role |-> role[r].prio]
ApisOf(M) == UNION {Apis[m] : m \in M}

(* GetRoles of the user repository: the direct roles that are on.          *)
GetRoles(u) == {r \in Direct[u] : IsOn(r)}
Seeds(u) == {r \in Direct[u] \cup ViaOrg[u] : IsOn(r)}
(* The recursive queries go from a role that is on to its parent.          *)
ParentsOn == {<<r, role[r].parent>> : r \in {x \in Role : IsOn(x) /\ role[x].parent # NoRole}}
GetEffectiveRoles(u) == Reach(Role, Seeds(u), {e \in ParentsOn : IsOn(e[2])})
(* The query behind the menus keeps a parent whatever its state.           *)
OnlySeeds(u) == Seeds(u)
ListRoleIDsByUserID(u) == Reach(Role, Seeds(u), ParentsOn)

(* GetUserPermissions: one code per menu; every menu for the bypass roles. *)
ListRoleCodesByRoleIDs(R) == {r \in R : Live(r)}
ListByRoleIDs(R) == UNION {menus[r] : r \in R}
AllPermissions == Menu
GetUserPermissions(u) ==
  IF ListRoleCodesByRoleIDs(ListRoleIDsByUserID(u)) \cap Bypass # {} THEN AllPermissions
  ELSE ListByRoleIDs(ListRoleIDsByUserID(u))

(* GetUserMenus: the menus of the roles with their ancestors, without      *)
(* buttons and hidden ones, as a tree; a menu whose parent is not among    *)
(* them becomes a root.                                                    *)
IncludeMenuAncestors(M) ==
  Reach(Menu, M, {<<m, MenuParent[m]>> : m \in {x \in Menu : MenuParent[x] # NoMenu}})
FilterMenusForTree(M) == (M \ Button) \ Hidden
RootsWithoutParent(M) == {m \in M : MenuParent[m] = NoMenu}
Roots(M) == {m \in M : MenuParent[m] \notin M}
BuildMenuTree(M) == Reach(M, Roots(M), {<<MenuParent[m], m>> : m \in M})
GetUserMenus(u) ==
  BuildMenuTree(FilterMenusForTree(IncludeMenuAncestors(ListByRoleIDs(ListRoleIDsByUserID(u)))))

(* What the administrator is shown of a role: its menus, and the rules of  *)
(* its code.                                                               *)
ListMenuIDsByRoleID(r) == menus[r]
GetRoleMenuIDs(r) == ListMenuIDsByRoleID(r)
ListCasbinPoliciesByRoleCode(c) == rules[c]
GetRolePermissions(r) == IF r \in Bypass THEN Api ELSE ListCasbinPoliciesByRoleCode(CodeOf[r])

(* CasbinAuth enforces role by role; the matcher lets the bypass roles go. *)
Allowed(u) ==
  IF GetEffectiveRoles(u) \cap Bypass # {} THEN Api
  ELSE UNION {mem[CodeOf[r]] : r \in GetEffectiveRoles(u)}

-----------------------------------------------------------------------------
PolicyInit ==
  /\ role = [r \in Role |-> [life |-> IF r \in Fresh THEN "none" ELSE "live", prio |-> Rank[r],
                             parent |-> Inherits[r], on |-> TRUE, version |-> 1]]
  /\ menus = Granted
  /\ rules = [c \in Code |-> UNION {ApisOf(Granted[r]) : r \in {x \in Role \ Bypass : CodeOf[x] = c}}]
  /\ mem = rules
  /\ req = [p \in Request |-> IdleReq]
  /\ actors \in ActorGroup
  /\ ops = 0 /\ overlapped = FALSE /\ slipped = {} /\ behind = FALSE

Tables == <<role, menus, rules, mem, actors, overlapped, slipped, behind>>
Goto(p, pc) == req' = [req EXCEPT ![p].pc = pc]
Refuse(p) ==
  /\ req' = [req EXCEPT ![p] = IdleReq]
  /\ UNCHANGED <<Tables, ops>>
Check(p, ok, pc) == IF ok THEN Goto(p, pc) /\ UNCHANGED <<Tables, ops>> ELSE Refuse(p)

(* The bound counts an update twice: it has the most parameters.           *)
Cost(op) == IF op = "update" THEN 2 ELSE 1
Start(p, q) ==
  /\ req[p].pc = "idle" /\ q.op \in Offered /\ ops + Cost(q.op) <= MaxOps
  /\ (q.op = "create") = (role[q.r].life = "none")
  /\ ops' = ops + Cost(q.op)
  /\ req' = [req EXCEPT ![p] = q]
  /\ UNCHANGED Tables

(* The requests, as the handlers bind them: the actor is the user of the   *)
(* token.  Update names the parent the role shall have, which may be the   *)
(* one it has, or none, and the version the client has seen; an older one  *)
(* only makes the write fail.                                              *)
CreateRequest(a, r, n, q) ==
  [IdleReq EXCEPT !.op = "create", !.pc = "rank", !.actor = a, !.r = r, !.prio = n, !.parent = q]
UpdateRequest(a, r, n, q, o) ==
  [IdleReq EXCEPT !.op = "update", !.pc = "find", !.actor = a, !.r = r, !.prio = n,
                  !.parent = q, !.on = o, !.ver = role[r].version]
DeleteRequest(a, r) ==
  [IdleReq EXCEPT !.op = "delete", !.pc = "find", !.actor = a, !.r = r]
AssignMenusRequest(a, r, w) ==
  [IdleReq EXCEPT !.op = "assign", !.pc = "find", !.actor = a, !.r = r, !.want = w]

CreateRole(p) == \E a \in actors, r \in Target, n \in Prio, q \in Parents :
  Start(p, CreateRequest(a, r, n, q))
UpdateRole(p) == \E a \in actors, r \in Target, n \in Prio, q \in Parents, o \in BOOLEAN :
  Start(p, UpdateRequest(a, r, n, q, o))
DeleteRole(p) == \E a \in actors, r \in Target : Start(p, DeleteRequest(a, r))
AssignMenus(p) == \E a \in actors, r \in Target, w \in MenuLists :
  Start(p, AssignMenusRequest(a, r, w))

-----------------------------------------------------------------------------
(* FindByID.  AssignMenus leaves the question of system roles to the next  *)
(* step.                                                                   *)
FindByID(p) ==
  /\ req[p].pc = "find"
  /\ LET q == req[p] IN
     IF Live(q.r) /\ (q.r \in SystemRole => q.op = "assign")
     THEN /\ req' = [req EXCEPT ![p].pc = "manage", ![p].seen = role[q.r].prio]
          /\ UNCHANGED <<Tables, ops>>
     ELSE Refuse(p)

(* ensureCanManageRole compares the actor with the role as it was read.    *)
EnsureCanManageRole(p) ==
  /\ req[p].pc = "manage"
  /\ LET q == req[p]
         mine == GetRoles(q.actor)
     IN Check(p, /\ q.r \in SystemRole => Super \in mine
                 /\ CanManageTarget(mine, {q.r}, [Priority EXCEPT ![q.r] = q.seen], Super),
              CASE q.op = "update" -> "rank"
                [] q.op = "delete" -> "users"
                [] q.op = "assign" -> "delMenus")
EnsureRolePriorityAllowed(p) ==
  /\ req[p].pc = "rank"
  /\ LET q == req[p] IN
     Check(p, CanSetRolePriority(GetRoles(q.actor), q.prio, Priority),
           IF q.op = "update" THEN "children"
           ELSE IF q.parent = NoRole THEN "write" ELSE "parent")
NoChildCheck(r, n) == TRUE
ChildrenAllow(r, n) == \A c \in Role : Live(c) /\ role[c].parent = r => role[c].prio <= n
EnsureChildrenPriorityAllowed(p) ==
  /\ req[p].pc = "children"
  /\ LET q == req[p] IN
     Check(p, ChildrenAllow(q.r, q.prio), IF q.parent = NoRole THEN "write" ELSE "parent")

(* validateParentLink: the parent itself, then its chain, read by read.    *)
ParentAllowed(q) ==
  /\ Live(q.parent) /\ q.parent \notin SystemRole /\ role[q.parent].on
  /\ q.parent # q.r /\ q.prio <= role[q.parent].prio
ValidateParent(p) ==
  /\ req[p].pc = "parent"
  /\ LET q == req[p] IN
     IF ParentAllowed(q)
     THEN /\ req' = [req EXCEPT ![p].pc = "walk", ![p].cur = q.parent, ![p].visited = {q.r}]
          /\ UNCHANGED <<Tables, ops>>
     ELSE Refuse(p)
ClosesCycle(q) == q.cur \in q.visited
WalkChain(p) ==
  /\ req[p].pc = "walk"
  /\ LET q == req[p] IN
     IF ClosesCycle(q) \/ ~Live(q.cur) THEN Refuse(p)
     ELSE /\ req' = [req EXCEPT ![p].visited = @ \cup {q.cur},
                                ![p].cur = role[q.cur].parent,
                                ![p].pc = IF role[q.cur].parent = NoRole THEN "write" ELSE "walk"]
          /\ UNCHANGED <<Tables, ops>>

(* A commit overlaps another request that has read roles and not written   *)
(* yet, unless both only assign menus.                                     *)
Overlap(p) ==
  overlapped' = (overlapped \/ \E q \in Request \ {p} :
                    /\ req[q].pc \notin {"idle", "find", "reload", "install"}
                    /\ ~(req[p].op = "assign" /\ req[q].op = "assign"))
Insert(p) ==
  /\ req[p].pc = "write" /\ req[p].op = "create" /\ role[req[p].r].life = "none"
  /\ LET q == req[p] IN
     /\ \A s \in Role : Live(s) => CodeOf[s] # CodeOf[q.r]
     /\ role' = [role EXCEPT ![q.r].life = "live", ![q.r].prio = q.prio,
                             ![q.r].parent = q.parent, ![q.r].on = q.on]
  /\ Overlap(p)
  /\ req' = [req EXCEPT ![p] = IdleReq]
  /\ UNCHANGED <<menus, rules, mem, ops, actors, slipped, behind>>
UpdateRow(p) ==
  /\ req[p].pc = "write" /\ req[p].op = "update"
  /\ LET q == req[p] IN
     /\ Live(q.r) /\ role[q.r].version = q.ver
     /\ role' = [role EXCEPT ![q.r].prio = q.prio, ![q.r].parent = q.parent, ![q.r].on = q.on,
                             ![q.r].version = @ + 1]
  /\ Overlap(p)
  /\ req' = [req EXCEPT ![p] = IdleReq]
  /\ UNCHANGED <<menus, rules, mem, ops, actors, slipped, behind>>
CountUsersByRoleID(p) ==
  /\ req[p].pc = "users"
  /\ Check(p, \A u \in User : req[p].r \notin Direct[u], "delMenus")

(* DELETE FROM role_menus: its snapshot, then the deletion of the rows     *)
(* that are still there once nobody else writes them.  An INSERT waits     *)
(* for whoever deletes or inserts its row, and leaves a row that is there  *)
(* then, without a lock.  casbin_rule follows the same way, unless the     *)
(* role passes without policies.                                           *)
Writing == {"insMenus", "delRules", "lockRules", "insRules", "commit"}
MenuRows(q) == IF q.pc \in Writing THEN {q.r} \X (q.snapM \cup q.put) ELSE {}
RuleRows(q) == IF q.pc \in {"insRules", "commit"} THEN {CodeOf[q.r]} \X (q.snapC \cup q.putC) ELSE {}
Free(p, M) == \A x \in Request \ {p} : MenuRows(req[x]) \cap ({req[p].r} \X M) = {}
FreeRules(p, I) == \A x \in Request \ {p} : RuleRows(req[x]) \cap ({CodeOf[req[p].r]} \X I) = {}
MenusNext(q) == IF ~(q.want \subseteq q.put \cup q.met) THEN "insMenus"
                ELSE IF q.r \in Bypass THEN "commit" ELSE "delRules"
RulesNext(q) == IF ApisOf(q.want) \subseteq q.putC \cup q.metC THEN "commit" ELSE "insRules"

DeleteRoleMenus(p) ==
  /\ req[p].pc = "delMenus"
  /\ req' = [req EXCEPT ![p].snapM = menus[req[p].r], ![p].pc = "lockMenus"]
  /\ UNCHANGED <<Tables, ops>>
LockRoleMenus(p) ==
  /\ req[p].pc = "lockMenus"
  /\ LET q == req[p] IN
     /\ Free(p, q.snapM)
     /\ Goto(p, MenusNext(q))
     /\ slipped' = slipped \cup {CodeOf[q.r] : x \in {x \in Request \ {p} :
                       req[x].pc \in Writing /\ req[x].r = q.r /\ req[x].met \cap q.snapM # {}}}
  /\ UNCHANGED <<role, menus, rules, mem, ops, actors, overlapped, behind>>
InsertRoleMenu(p) ==
  /\ req[p].pc = "insMenus"
  /\ \E m \in req[p].want \ (req[p].put \cup req[p].met) :
       LET q == req[p]
           s == IF m \in menus[q.r] \ q.snapM THEN [q EXCEPT !.met = @ \cup {m}]
                ELSE [q EXCEPT !.put = @ \cup {m}]
       IN /\ Free(p, {m})
          /\ req' = [req EXCEPT ![p] = [s EXCEPT !.pc = MenusNext(s)]]
  /\ UNCHANGED <<Tables, ops>>
DeleteCasbinRules(p) ==
  /\ req[p].pc = "delRules"
  /\ req' = [req EXCEPT ![p].snapC = rules[CodeOf[req[p].r]], ![p].pc = "lockRules"]
  /\ UNCHANGED <<Tables, ops>>
LockCasbinRules(p) ==
  /\ req[p].pc = "lockRules"
  /\ FreeRules(p, req[p].snapC)
  /\ Goto(p, RulesNext(req[p]))
  /\ UNCHANGED <<Tables, ops>>
InsertCasbinRule(p) ==
  /\ req[p].pc = "insRules"
  /\ \E i \in ApisOf(req[p].want) \ (req[p].putC \cup req[p].metC) :
       LET q == req[p]
           s == IF i \in rules[CodeOf[q.r]] \ q.snapC THEN [q EXCEPT !.metC = @ \cup {i}]
                ELSE [q EXCEPT !.putC = @ \cup {i}]
       IN /\ FreeRules(p, {i})
          /\ req' = [req EXCEPT ![p] = [s EXCEPT !.pc = RulesNext(s)]]
  /\ UNCHANGED <<Tables, ops>>

NoReload(r) == "idle"
AfterCommit(r) == IF r \in Bypass THEN "idle" ELSE "reload"
(* To a DELETE that still waits, the rows this commit has deleted are      *)
(* gone, also those inserted anew; what a reload has read is old now.      *)
Outdated(x, q) ==
  [x EXCEPT !.snapM = IF x.pc = "lockMenus" /\ x.r = q.r THEN @ \ q.snapM ELSE @,
            !.snapC = IF x.pc = "lockRules" /\ CodeOf[x.r] = CodeOf[q.r] THEN @ \ q.snapC ELSE @,
            !.late = @ \/ (x.pc = "install" /\ q.r \notin Bypass)]
Ended(p) ==
  req' = [x \in Request |->
            IF x # p THEN Outdated(req[x], req[p])
            ELSE IF AfterCommit(req[p].r) = "idle" THEN IdleReq
            ELSE [IdleReq EXCEPT !.pc = "reload"]]
(* The rows a transaction leaves: what it deleted is gone, what it         *)
(* inserted is there.                                                      *)
OldRulesToo(q) == rules[CodeOf[q.r]] \cup q.putC
NewMenus(q) == (menus[q.r] \ q.snapM) \cup q.put
NewRules(q) == (rules[CodeOf[q.r]] \ q.snapC) \cup q.putC
CommitMenus(p) ==
  /\ req[p].pc = "commit" /\ req[p].op = "assign"
  /\ menus' = [menus EXCEPT ![req[p].r] = NewMenus(req[p])]
  /\ rules' = [rules EXCEPT ![CodeOf[req[p].r]] = NewRules(req[p])]
  /\ Overlap(p) /\ Ended(p)
  /\ UNCHANGED <<role, mem, ops, actors, slipped, behind>>
CommitDelete(p) ==
  /\ req[p].pc = "commit" /\ req[p].op = "delete" /\ Live(req[p].r)
  /\ menus' = [menus EXCEPT ![req[p].r] = NewMenus(req[p])]
  /\ rules' = [rules EXCEPT ![CodeOf[req[p].r]] = NewRules(req[p])]
  /\ role' = [role EXCEPT ![req[p].r].life = "deleted"]
  /\ Overlap(p) /\ Ended(p)
  /\ UNCHANGED <<mem, ops, actors, slipped, behind>>
(* A version that is not current, a code in use, a role deleted meanwhile, *)
(* a deadlock broken by the database or a lost connection.                 *)
RollBack(p) ==
  req[p].pc \in {"write", "lockMenus", "insMenus", "lockRules", "insRules", "commit"} /\ Refuse(p)

(* LoadPolicy reads all rules, which is tried twice, and installs them.    *)
(* The enforcer excludes readers of its model only while it installs, and  *)
(* reloadPolicy has no mutex of its own.                                   *)
ReadPolicy(p) ==
  /\ req[p].pc = "reload"
  /\ req' = [req EXCEPT ![p].pc = "install", ![p].loaded = rules]
  /\ UNCHANGED <<Tables, ops>>
InstallPolicy(p) ==
  /\ req[p].pc = "install"
  /\ mem' = req[p].loaded /\ behind' = req[p].late
  /\ req' = [req EXCEPT ![p] = IdleReq]
  /\ UNCHANGED <<role, menus, rules, ops, actors, overlapped, slipped>>
ReadPolicyFails(p) ==
  /\ req[p].pc = "reload"
  /\ req' = [req EXCEPT ![p] = IF @.tries = 1 THEN IdleReq ELSE [@ EXCEPT !.tries = 1]]
  /\ behind' = (behind \/ req[p].tries = 1)
  /\ UNCHANGED <<role, menus, rules, mem, ops, actors, overlapped, slipped>>

PolicyNext == \E p \in Request :
  \/ CreateRole(p) \/ UpdateRole(p) \/ DeleteRole(p) \/ AssignMenus(p)
  \/ FindByID(p) \/ EnsureCanManageRole(p) \/ EnsureRolePriorityAllowed(p)
  \/ EnsureChildrenPriorityAllowed(p) \/ ValidateParent(p) \/ WalkChain(p)
  \/ Insert(p) \/ UpdateRow(p) \/ CountUsersByRoleID(p)
  \/ DeleteRoleMenus(p) \/ LockRoleMenus(p) \/ InsertRoleMenu(p)
  \/ DeleteCasbinRules(p) \/ LockCasbinRules(p) \/ InsertCasbinRule(p)
  \/ CommitMenus(p) \/ CommitDelete(p) \/ RollBack(p)
  \/ ReadPolicy(p) \/ InstallPolicy(p) \/ ReadPolicyFails(p)
PolicySpec == PolicyInit /\ [][PolicyNext]_policyVars

-----------------------------------------------------------------------------
(* Types, and that only a replacement of menus and rules writes rows.      *)
PolicyTypeOK ==
  /\ role \in [Role -> [life : {"none", "live", "deleted"}, prio : Nat, on : BOOLEAN,
                        parent : Role \cup {NoRole}, version : Nat]]
  /\ menus \in [Role -> SUBSET Menu]
  /\ rules \in [Code -> SUBSET Api] /\ mem \in [Code -> SUBSET Api]
  /\ \A p \in Request :
       /\ req[p].op \in Op /\ req[p].tries \in 0..1 /\ req[p].put \subseteq req[p].want
       /\ req[p].pc \in Writing => req[p].op \in {"assign", "delete"}

(* Concurrent assignments of one role can merge, but a role may call no    *)
(* API that none of its menus stands for: a transaction deletes menus      *)
(* before rules and commits both at once.  A deleted role with the same    *)
(* code counts too: an assignment to it that commits after the deletion    *)
(* leaves rules for the role that has taken its code since.  The one       *)
(* exception are codes in `slipped': a transaction that found a menu in    *)
(* place has no lock on it, so a third one may delete it before the rules  *)
(* of the first are there.                                                 *)
PoliciesWithinMenus ==
  \A r \in Role \ Bypass :
    CodeOf[r] \notin slipped =>
      GetRolePermissions(r) \subseteq
        UNION {ApisOf(GetRoleMenuIDs(x)) : x \in {y \in Role : CodeOf[y] = CodeOf[r]}}

(* The enforcer judges by the committed policies, unless a reload is under *)
(* way, or the last one to end failed twice or installed what it had read  *)
(* before a commit.                                                        *)
EnforcerIsFresh ==
  mem = rules \/ behind \/ \E p \in Request : req[p].pc \in {"reload", "install"}

(* Role edits that do not overlap keep the inheritance sound: parents form *)
(* no cycle, and no role inherits from a stronger one.                     *)
Ancestors(r) == AncestorsIn([x \in Role |-> role[x].parent], r)
SerialEditsKeepHierarchy ==
  ~overlapped => \A r \in Role :
    /\ r \notin Ancestors(r)
    /\ LET q == role[r].parent IN Live(r) /\ q # NoRole /\ Live(q) => role[r].prio <= role[q].prio

(* After edits that did not overlap, and once they are loaded, whoever may *)
(* call an API behind a menu is shown the permission code of such a menu,  *)
(* so that the front end offers what the enforcer allows.                  *)
(* The roles behind the two answers come from two queries, and the rules   *)
(* of a deleted role must not reach a later role with its code.            *)
CallableIsOffered ==
  ~overlapped /\ slipped = {} /\ mem = rules =>
    \A u \in User : Allowed(u) \cap ApisOf(Menu) \subseteq ApisOf(GetUserPermissions(u))

(* The tree of a user shows every visible page of its roles, also one      *)
(* whose directory is hidden.                                              *)
TreeShowsEveryPage ==
  \A u \in User : \A r \in GetEffectiveRoles(u) : FilterMenusForTree(menus[r]) \subseteq GetUserMenus(u)
=============================================================================
