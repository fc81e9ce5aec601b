------------------------------ MODULE UserAdmin ------------------------------
(***************************************************************************)
(* Administration of users: accounts, the roles bound to them, who may     *)
(* change whom, and the guard that keeps one superadmin in the system.     *)
(* Every request checks its actor on rows it reads one statement at a      *)
(* time and writes in a later one, so a step is one statement or one       *)
(* transaction after its last wait.  DELETE FROM user_roles removes the    *)
(* rows of its own snapshot; what another transaction inserts meanwhile    *)
(* stays.  Passwords and sessions are in Session, memberships in OrgTree.  *)
(***************************************************************************)
EXTENDS RolePriority, FiniteSets

CONSTANTS User,
          Fresh,       \* users that do not exist at the start
          System,      \* is_system users
          Role,
          Super,       \* the role whose code is superadmin; an is_system role
          Priority,    \* Priority[r] : the smaller, the stronger
          Seed,        \* Seed[u] : the roles of u at the start
          ActorGroup,  \* the sets of users whose requests are considered together
          Field,       \* the columns a profile patch can name
          Request,     \* requests that can be in progress at once
          Nobody,      \* no request
          Offered,     \* the operations clients ask for in this model
          Wanted,      \* the role lists clients send
          MaxOps       \* bound on requests and on role changes

Op == {"create", "update", "profile", "delete", "status", "roles", "reset"}

ASSUME UserAssumption ==
  /\ IsFiniteSet(User) /\ Fresh \subseteq User /\ System \subseteq User
  /\ Super \in Role /\ Priority \in [Role -> Nat]
  /\ Seed \in [User -> SUBSET Role]
  /\ \A u \in Fresh : Seed[u] = {}
  /\ \E u \in User \ Fresh : Super \in Seed[u]
  /\ ActorGroup \subseteq SUBSET User
  /\ Nobody \notin Request
  /\ Offered \subseteq Op /\ Wanted \subseteq SUBSET Role /\ MaxOps \in Nat

VARIABLES
  row,      \* row[u] : the users row: life, status, must (change password), version, data
  bind,     \* bind[u] : the user_roles rows of u
  role,     \* role[r] : on, off (status = 0) or deleted
  guard,    \* the holder of the advisory lock 'last_superadmin_guard', or Nobody
  req,      \* req[p] : the request in progress
  ops,
  actors,   \* whose requests are considered; chosen at the start (auxiliary)
  patched,  \* patched[u][f] : the last patch of f that was committed (auxiliary)
  escaped   \* an active superadmin was lost in a commit outside the guard (auxiliary)

vars == <<row, bind, role, guard, req, ops, actors, patched, escaped>>

UserRow == [life : {"none", "live", "deleted"}, status : {0, 1}, must : BOOLEAN,
            version : Nat, data : [Field -> Nat]]
NewUser == [life |-> "live", status |-> 1, must |-> FALSE, version |-> 1,
            data |-> [f \in Field |-> 0]]
NoRow == [NewUser EXCEPT !.life = "none"]
Pc == {"idle", "find", "actor", "target", "assign", "probe", "lock", "count", "unbind", "write"}
IdleReq == [op |-> "reset", pc |-> "idle", actor |-> Nobody, target |-> Nobody, want |-> {},
            val |-> 0, ver |-> 0, field |-> Nobody, mine |-> {}, seen |-> NoRow, snap |-> {}]

Live(u) == row[u].life = "live"

(* GetRoles: only roles that are on count. *)
GetRoles(u) == {r \in bind[u] : role[r] = "on"}

(* IsSuperadminUser; it does not look at the account. *)
IsSuperadminUser(u) == Super \in GetRoles(u)
(* CountActiveSuperadminUsers counts these. *)
ActiveSupers == {u \in User : Live(u) /\ row[u].status = 1 /\ IsSuperadminUser(u)}

(* List leaves out the users bound to superadmin, whatever the state of   *)
(* the role, unless the actor holds it; GetByID goes through              *)
(* ensureVisible.                                                         *)
ListHides(a, u) == Super \notin GetRoles(a) /\ role[Super] # "deleted" /\ Super \in bind[u]
List(a) == {u \in User : Live(u) /\ ~ListHides(a, u)}
EnsureVisible(a, u) == Super \in GetRoles(a) \/ ~IsSuperadminUser(u)

-----------------------------------------------------------------------------
Init ==
  /\ row = [u \in User |-> IF u \in Fresh THEN NoRow ELSE NewUser]
  /\ bind = Seed
  /\ role = [r \in Role |-> "on"]
  /\ guard = Nobody
  /\ req = [p \in Request |-> IdleReq]
  /\ ops = 0
  /\ actors \in ActorGroup
  /\ patched = [u \in User |-> [f \in Field |-> 0]]
  /\ escaped = FALSE

(* The outcome of an unguarded commit is recorded when it takes an active  *)
(* superadmin away.                                                        *)
Audit(p) == escaped' = (escaped \/ (guard # p /\ ~(ActiveSupers \subseteq ActiveSupers')))
ReleaseNothing(p) == guard
Release(p) == IF guard = p THEN Nobody ELSE guard
Finish(p) ==
  /\ req' = [req EXCEPT ![p] = IdleReq]
  /\ guard' = Release(p)
(* Every refusal, and a statement that fails: the transaction rolls back.  *)
Refuse(p) ==
  /\ Finish(p)
  /\ UNCHANGED <<row, bind, patched, escaped>>
Goto(p, pc) == req' = [req EXCEPT ![p].pc = pc]
Reading == UNCHANGED <<row, bind, guard, patched, escaped>>

Start(p, r) ==
  /\ req[p].pc = "idle" /\ r.op \in Offered /\ ops < MaxOps
  /\ (r.op = "create") = (row[r.target].life = "none")
  /\ ops' = ops + 1
  /\ req' = [req EXCEPT ![p] = r]
  /\ UNCHANGED <<role, actors>> /\ Reading

(* The requests, as the handlers bind them: the actor is the user of the   *)
(* token.  Update sends the version the client has seen; an older one only *)
(* makes it fail.                                                          *)
CreateRequest(a, u, w) ==
  [IdleReq EXCEPT !.op = "create", !.actor = a, !.target = u, !.want = w]
UpdateRequest(a, u, f) ==
  [IdleReq EXCEPT !.op = "update", !.actor = a, !.target = u, !.field = f,
                  !.ver = row[u].version]
ProfileRequest(a, f) ==
  [IdleReq EXCEPT !.op = "profile", !.actor = a, !.target = a, !.field = f]
DeleteRequest(a, u) == [IdleReq EXCEPT !.op = "delete", !.actor = a, !.target = u]
StatusRequest(a, u, v) ==
  [IdleReq EXCEPT !.op = "status", !.actor = a, !.target = u, !.val = v]
RolesRequest(a, u, w) ==
  [IdleReq EXCEPT !.op = "roles", !.actor = a, !.target = u, !.want = w]
ResetRequest(a, u) == [IdleReq EXCEPT !.op = "reset", !.actor = a, !.target = u]

(* The first lines of the services: what is refused before anything is     *)
(* read, and what is read first.                                           *)
Create(p) == \E a \in actors, u \in User, w \in Wanted :
  Start(p, [CreateRequest(a, u, w) EXCEPT !.pc = "assign"])
Update(p) == \E a \in actors, u \in User, f \in Field :
  Start(p, [UpdateRequest(a, u, f) EXCEPT !.pc = "find"])
UpdateProfile(p) == \E a \in actors, f \in Field :
  Start(p, [ProfileRequest(a, f) EXCEPT !.pc = "find"])
Delete(p) == \E a \in actors : \E u \in User \ {a} :
  Start(p, [DeleteRequest(a, u) EXCEPT !.pc = "find"])
UpdateStatus(p) == \E a \in actors, u \in User, v \in {0, 1} :
  /\ v = 0 => u # a
  /\ Start(p, [StatusRequest(a, u, v) EXCEPT !.pc = "find"])
SetRoles(p) == \E a \in actors, u \in User, w \in Wanted :
  Start(p, [RolesRequest(a, u, w) EXCEPT !.pc = IF a = u THEN "assign" ELSE "actor"])
ResetPassword(p) == \E a \in actors, u \in User :
  Start(p, [ResetRequest(a, u) EXCEPT !.pc = IF a = u THEN "write" ELSE "actor"])

-----------------------------------------------------------------------------
(* Where a request goes once its actor may manage its target. *)
Admitted(r) ==
  CASE r.op = "roles" -> "assign"
    [] r.op = "delete" -> "probe"
    [] r.op = "status" /\ r.val = 0 -> "probe"
    [] OTHER -> "write"

(* FindByID, and the checks made on the row it returns. *)
FindByID(p) ==
  /\ req[p].pc = "find"
  /\ LET r == req[p] IN
     IF ~Live(r.target) \/ (r.op = "status" /\ r.val = 0 /\ r.target \in System)
     THEN Refuse(p)
     ELSE /\ req' = [req EXCEPT ![p].seen = row[r.target],
                                ![p].pc = IF r.actor = r.target THEN Admitted(r) ELSE "actor"]
          /\ Reading
  /\ UNCHANGED <<role, ops, actors>>

(* ensureCanManage reads the roles of the actor, then those of the target. *)
ReadActor(p) ==
  /\ req[p].pc = "actor"
  /\ req' = [req EXCEPT ![p].mine = GetRoles(req[p].actor), ![p].pc = "target"]
  /\ Reading /\ UNCHANGED <<role, ops, actors>>
EnsureCanManage(p) ==
  /\ req[p].pc = "target"
  /\ LET r == req[p] IN
     IF /\ CanManageTarget(r.mine, GetRoles(r.target), Priority, Super)
        /\ ~(r.op = "delete" /\ r.target \in System)
     THEN Goto(p, Admitted(r)) /\ Reading
     ELSE Refuse(p)
  /\ UNCHANGED <<role, ops, actors>>

(* SetRoles and Create read the actor once more and then each role.        *)
AssignAllowed(p) ==
  /\ req[p].pc = "assign"
  /\ LET r == req[p] mine == GetRoles(r.actor) IN
     IF \A x \in r.want : role[x] # "deleted" /\ CanAssignRole(mine, x, Priority, Super)
     THEN /\ req' = [req EXCEPT ![p].mine = mine,
                                ![p].pc = IF r.op = "create" THEN "write" ELSE "probe"]
          /\ Reading
     ELSE Refuse(p)
  /\ UNCHANGED <<role, ops, actors>>

(* Only a request that takes superadmin from its holder is guarded.        *)
Guarded(r) == IsSuperadminUser(r.target) /\ (r.op = "roles" => Super \notin r.want)
Unlocked(r) == IF r.op = "status" THEN "write" ELSE "unbind"
Probe(p) ==
  /\ req[p].pc = "probe"
  /\ Goto(p, IF Guarded(req[p]) THEN "lock" ELSE Unlocked(req[p]))
  /\ Reading /\ UNCHANGED <<role, ops, actors>>
Acquire(p) == guard = Nobody /\ guard' = p /\ Goto(p, "count")
AcquireSuperadminGuard(p) ==
  /\ req[p].pc = "lock"
  /\ Acquire(p)
  /\ UNCHANGED <<row, bind, role, ops, actors, patched, escaped>>
LastOneOffByOne == Cardinality(ActiveSupers) < 1
LastOne == Cardinality(ActiveSupers) <= 1
CountActiveSuperadmins(p) ==
  /\ req[p].pc = "count"
  /\ IF LastOne THEN Refuse(p) ELSE Goto(p, Unlocked(req[p])) /\ Reading
  /\ UNCHANGED <<role, ops, actors>>

(* DELETE FROM user_roles, in SetRolesTx and in SoftDeleteTx. *)
DeleteUserRoles(p) ==
  /\ req[p].pc = "unbind"
  /\ req' = [req EXCEPT ![p].snap = bind[req[p].target], ![p].pc = "write"]
  /\ Reading /\ UNCHANGED <<role, ops, actors>>

Commit(p) == UNCHANGED <<role, ops, actors>> /\ Finish(p) /\ Audit(p)

(* The INSERT of each role takes no row if the role is deleted, and then   *)
(* the transaction rolls back.                                             *)
CommitRoles(p) ==
  /\ req[p].pc = "write" /\ req[p].op = "roles"
  /\ LET r == req[p] IN
     /\ \A x \in r.want : role[x] # "deleted"
     /\ bind' = [bind EXCEPT ![r.target] = (@ \ r.snap) \cup r.want]
  /\ UNCHANGED <<row, patched>> /\ Commit(p)
CommitDelete(p) ==
  /\ req[p].pc = "write" /\ req[p].op = "delete" /\ Live(req[p].target)
  /\ LET r == req[p] IN
     /\ bind' = [bind EXCEPT ![r.target] = @ \ r.snap]
     /\ row' = [row EXCEPT ![r.target].life = "deleted"]
  /\ UNCHANGED patched /\ Commit(p)
CommitStatus(p) ==
  /\ req[p].pc = "write" /\ req[p].op = "status" /\ Live(req[p].target)
  /\ row' = [row EXCEPT ![req[p].target].status = req[p].val]
  /\ UNCHANGED <<bind, patched>> /\ Commit(p)
CommitReset(p) ==
  /\ req[p].pc = "write" /\ req[p].op = "reset" /\ Live(req[p].target)
  /\ row' = [row EXCEPT ![req[p].target].must = TRUE]
  /\ UNCHANGED <<bind, patched>> /\ Commit(p)

(* UPDATE users ... WHERE version writes the row that FindByID returned,   *)
(* with the patched column replaced: status and must_change_password too.  *)
(* The version compared is the client's in Update and the one read in      *)
(* UpdateProfile.                                                          *)
VersionAny(r) == TRUE
VersionMatches(r) ==
  row[r.target].version = IF r.op = "update" THEN r.ver ELSE r.seen.version
Patched(r) ==
  [r.seen EXCEPT !.version = row[r.target].version + 1,
                 !.data = [@ EXCEPT ![r.field] = patched[r.target][r.field] + 1]]
CommitPatch(p) ==
  /\ req[p].pc = "write" /\ req[p].op \in {"update", "profile"}
  /\ Live(req[p].target) /\ VersionMatches(req[p])
  /\ LET r == req[p] IN
     /\ row' = [row EXCEPT ![r.target] = Patched(r)]
     /\ patched' = [patched EXCEPT ![r.target][r.field] = @ + 1]
  /\ UNCHANGED bind /\ Commit(p)
CommitCreate(p) ==
  /\ req[p].pc = "write" /\ req[p].op = "create" /\ row[req[p].target].life = "none"
  /\ LET r == req[p] IN
     /\ \A x \in r.want : role[x] # "deleted"
     /\ row' = [row EXCEPT ![r.target] = NewUser]
     /\ bind' = [bind EXCEPT ![r.target] = r.want]
  /\ UNCHANGED patched /\ Commit(p)
(* No row matches, a role is gone, a unique index refuses, or the          *)
(* connection fails: nothing is written.                                   *)
RollBack(p) == req[p].pc = "write" /\ Refuse(p) /\ UNCHANGED <<role, ops, actors>>

(* UpdateRole switches a role on or off, DeleteRole deletes it; both       *)
(* refuse system roles.  DeleteRole counts the users of the role before    *)
(* its transaction, so a binding can outlive the role.                     *)
RoleIsSystemIgnored(r) == FALSE
RoleIsSystem(r) == r = Super
RoleChange(r) ==
  /\ ops < MaxOps /\ ~RoleIsSystem(r) /\ role[r] # "deleted"
  /\ \E s \in {"on", "off", "deleted"} \ {role[r]} : role' = [role EXCEPT ![r] = s]
  /\ ops' = ops + 1
  /\ UNCHANGED <<row, bind, guard, req, actors, patched, escaped>>

Step(p) ==
  \/ FindByID(p) \/ ReadActor(p) \/ EnsureCanManage(p) \/ AssignAllowed(p)
  \/ Probe(p) \/ AcquireSuperadminGuard(p) \/ CountActiveSuperadmins(p)
  \/ DeleteUserRoles(p)
  \/ CommitRoles(p) \/ CommitDelete(p) \/ CommitStatus(p) \/ CommitReset(p)
  \/ CommitPatch(p) \/ CommitCreate(p) \/ RollBack(p)
Next ==
  \/ \E p \in Request :
       \/ Create(p) \/ Update(p) \/ UpdateProfile(p) \/ Delete(p) \/ UpdateStatus(p)
       \/ SetRoles(p) \/ ResetPassword(p)
       \/ Step(p)
  \/ \E r \in Role : RoleChange(r)

Spec == Init /\ [][Next]_vars

-----------------------------------------------------------------------------
(* Types, and that the guard is held only by a request between taking it   *)
(* and its end.                                                            *)
TypeOK ==
  /\ row \in [User -> UserRow]
  /\ bind \in [User -> SUBSET Role]
  /\ role \in [Role -> {"on", "off", "deleted"}]
  /\ guard \in Request \cup {Nobody}
  /\ guard # Nobody => req[guard].pc \in {"count", "unbind", "write"}
  /\ \A p \in Request : req[p].pc \in Pc /\ req[p].op \in Op
  /\ ops \in 0..MaxOps

(* The guard of Delete, UpdateStatus and SetRoles works: the last active   *)
(* superadmin can be lost only in a commit that ran outside the guard,     *)
(* because its request had not found the target to be a superadmin.        *)
SuperadminRemains == ActiveSupers = {} => escaped

(* What a group of actors can hand out is bounded by what they hold: no    *)
(* sequence of role assignments, to each other, to themselves or to new    *)
(* users, ends with a role stronger than the strongest they started with,  *)
(* or with superadmin if none of them was one.                             *)
Reachable ==
  {r \in Role : /\ r = Super => \E a \in actors : Super \in Seed[a]
                /\ \/ Priority[r] >= NoRolePriority
                   \/ \E a \in actors : \E s \in Seed[a] : Priority[r] >= Priority[s]}
NoEscalation == \A u \in User : bind[u] \subseteq Seed[u] \cup Reachable

(* The version check of users: a patch of one column never writes back a   *)
(* value of another column that a later patch replaced.                    *)
NoLostPatch == \A u \in User : row[u].data = patched[u]

(* A user that a non-superadmin finds in the list can be opened, and one   *)
(* that is hidden there is hidden in the details too.                      *)
ListMatchesGet ==
  \A a \in User, u \in User : Live(u) => (u \in List(a) <=> EnsureVisible(a, u))
=============================================================================
