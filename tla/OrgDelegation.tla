---------------------------- MODULE OrgDelegation ----------------------------
(***************************************************************************)
(* Delegation within one organization.  Power is recorded twice: in the    *)
(* list owner_user_ids of the organization and in org_member_role of the   *)
(* user_orgs rows; a row also holds the ticket_scope of its member.  A     *)
(* request is admitted by what it reads first, and carried out by a        *)
(* transaction later, under READ COMMITTED with row locks.  One step is    *)
(* the reading, one statement that may wait for a lock, or the statements  *)
(* after the last wait up to the commit.                                   *)
(*                                                                         *)
(* Where the organization hangs in the tree, its tickets and its children  *)
(* are another module.  Every user exists.                                 *)
(***************************************************************************)
EXTENDS Naturals, FiniteSets

CONSTANTS User,
          Admin,     \* users whose own roles make them global org administrators
          Seed,      \* users who may be owners at the start
          Virtual,   \* is_virtual, of the organization
          Request,   \* requests that can be in progress at once
          Nobody,    \* no request, no user
          Offered,   \* the operations clients ask for in this model
          MaxOps     \* bound on requests

Op == {"add", "remove", "owners", "role", "scope", "orgs", "delete", "bind", "unbind"}

ASSUME DelegationAssumption ==
  /\ Admin \subseteq User /\ Seed \subseteq User /\ Virtual \in BOOLEAN
  /\ Nobody \notin Request /\ Nobody \notin User
  /\ Offered \subseteq Op /\ MaxOps \in Nat

VARIABLES
  alive,    \* deleted_at IS NULL
  owners,   \* owner_user_ids
  role,     \* role[u] : org_member_role of the row of u, "none" without a row
  scope,    \* scope[u] : ticket_scope of that row
  bound,    \* a role with an org:* permission is bound to the organization
  orgLock,  \* orgLock[p] : "none", "share" or "update" on the row of the organization
  rowLock,  \* rowLock[u] : the transaction that has written the row of u, or Nobody
  req,      \* req[p] : the request in progress
  raced,    \* users made owners between the statements of a SetUserOrgs of theirs (auxiliary)
  appointed, \* users given a rank by a global administrator or by one who is appointed,
             \* and the owners of the start (auxiliary)
  opened,   \* users whom a global administrator let see all tickets (auxiliary)
  ops

rows == <<alive, owners, role, scope, bound>>
locks == <<orgLock, rowLock>>
history == <<raced, appointed, opened>>
vars == <<rows, locks, req, history, ops>>

IdleReq == [op |-> "add", pc |-> "idle", actor |-> Nobody, user |-> Nobody, rank |-> "",
            scope |-> "", list |-> {}, stay |-> FALSE, global |-> FALSE]

Init ==
  /\ alive = TRUE /\ owners \in SUBSET Seed /\ bound = FALSE
  /\ role = [u \in User |-> IF u \in owners THEN "owner" ELSE "none"]
  /\ scope = [u \in User |-> "assigned"]
  /\ orgLock = [p \in Request |-> "none"] /\ rowLock = [u \in User |-> Nobody]
  /\ req = [p \in Request |-> IdleReq]
  /\ raced = {} /\ appointed = owners /\ opened = {} /\ ops = 0

-----------------------------------------------------------------------------
(* Who may do what.                                                        *)

Member(u) == role[u] # "none"
OrgRoleOwnerPriority == 1
OrgRoleAdminPriority == 10
OrgRoleMemberPriority == 20
EffectiveOrgPriority(u) ==
  CASE u \in owners \/ role[u] = "owner" -> OrgRoleOwnerPriority
    [] u \notin owners /\ role[u] = "admin" -> OrgRoleAdminPriority
    [] OTHER -> OrgRoleMemberPriority
IsOrgAdminOrOwner(u) == u \in owners \/ role[u] \in {"admin", "owner"}
(* The role bound to the organization counts for each of its members. *)
HasOrgManagePermission(u) == bound /\ Member(u)
IsGlobalOrgAdmin(u) == u \in Admin \/ HasOrgManagePermission(u)
EnsureCanManageMember(actor, target) ==
  \/ IsGlobalOrgAdmin(actor)
  \/ EffectiveOrgPriority(actor) = OrgRoleOwnerPriority
  \/ /\ EffectiveOrgPriority(actor) = OrgRoleAdminPriority
     /\ target # Nobody /\ EffectiveOrgPriority(target) > OrgRoleAdminPriority

-----------------------------------------------------------------------------
(* Transactions.                                                           *)

At(p, pc) == req[p].pc = pc
CanUpdate(p) == \A q \in Request \ {p} : orgLock[q] = "none"
CanShare(p) == \A q \in Request \ {p} : orgLock[q] # "update"
CanWrite(p, u) == rowLock[u] \in {p, Nobody}
Begin(p, r) ==
  /\ At(p, "idle") /\ r.op \in Offered
  /\ ops < MaxOps /\ ops' = ops + 1
  /\ req' = [req EXCEPT ![p] = [r EXCEPT !.global = r.actor \in {a \in User : IsGlobalOrgAdmin(a)}]]
  /\ UNCHANGED <<rows, locks, history>>
EndTx(p) ==
  /\ orgLock' = [orgLock EXCEPT ![p] = "none"]
  /\ rowLock' = [u \in User |-> IF rowLock[u] = p THEN Nobody ELSE rowLock[u]]
  /\ req' = [req EXCEPT ![p] = IdleReq]
  /\ UNCHANGED ops
(* An error, a deadlock victim or a process that dies: nothing is written. *)
Rollback(p) == EndTx(p) /\ UNCHANGED <<rows, history>>
Abort(p) == ~At(p, "idle") /\ Rollback(p)
Goto(p, pc) == req' = [req EXCEPT ![p].pc = pc] /\ UNCHANGED <<rows, history, ops>>
(* What a grant leaves in the history.                                     *)
Note(p, given, sees) ==
  /\ appointed' = IF req[p].global \/ req[p].actor \in appointed THEN appointed \cup given
                  ELSE appointed
  /\ opened' = IF req[p].global /\ sees THEN opened \cup {req[p].user} ELSE opened

-----------------------------------------------------------------------------
(* AddMember.  The request names a rank, "member" or "admin", and perhaps  *)
(* a scope; only an owner appoints an admin, only a global administrator   *)
(* grants the scope "all".                                                 *)
MayGrantAny(a, s) == TRUE
MayGrant(a, s) == s = "all" => IsGlobalOrgAdmin(a)
AddMemberRequest(a, u, k, s) ==
  [IdleReq EXCEPT !.op = "add", !.actor = a, !.user = u, !.rank = k, !.scope = s]
AddMember(p, a, u, k, s) ==
  /\ alive
  /\ EnsureCanManageMember(a, u)
  /\ MayGrant(a, s)
  /\ k = "admin" =>
       IsGlobalOrgAdmin(a) \/ EffectiveOrgPriority(a) = OrgRoleOwnerPriority
  /\ Begin(p, [AddMemberRequest(a, u, k, s) EXCEPT !.pc = "share"])
(* lockAliveOrgForShareTx. *)
LockAliveOrgForShare(p) ==
  /\ At(p, "share") /\ CanShare(p)
  /\ IF alive
     THEN /\ orgLock' = [orgLock EXCEPT ![p] = IF @ = "update" THEN @ ELSE "share"]
          /\ Goto(p, "insert") /\ UNCHANGED rowLock
     ELSE Rollback(p)
(* AddMemberWithRole: on conflict the row keeps its rank, and takes the    *)
(* scope if the request names one.                                         *)
AddMemberWithRole(p) ==
  LET r == req[p]
      new == ~Member(r.user)
  IN
  /\ At(p, "insert") /\ r.op = "add" /\ CanWrite(p, r.user)
  /\ role' = IF new THEN [role EXCEPT ![r.user] = r.rank] ELSE role
  /\ scope' = [scope EXCEPT ![r.user] = IF r.scope # "" THEN r.scope
                                        ELSE IF new THEN "assigned" ELSE @]
  /\ Note(p, IF new /\ r.rank = "admin" THEN {r.user} ELSE {}, r.scope = "all")
  /\ EndTx(p) /\ UNCHANGED <<alive, owners, bound, raced>>

(* RemoveMember: the row is deleted, then the list updated.                *)
RemoveMemberRequest(a, u) == [IdleReq EXCEPT !.op = "remove", !.actor = a, !.user = u]
RemoveMember(p, a, u) ==
  /\ alive
  /\ EnsureCanManageMember(a, u)
  /\ Begin(p, [RemoveMemberRequest(a, u) EXCEPT !.pc = "row"])
DeleteRow(p) ==
  LET u == req[p].user IN
  /\ At(p, "row") /\ req[p].op = "remove" /\ CanWrite(p, u)
  /\ IF Member(u)
     THEN rowLock' = [rowLock EXCEPT ![u] = p] /\ Goto(p, "list") /\ UNCHANGED orgLock
     ELSE Rollback(p)
ArrayRemoveNot(u) == owners
ArrayRemove(u) == owners \ {u}
SyncOwners(p) ==
  LET u == req[p].user IN
  /\ At(p, "list") /\ req[p].op = "remove" /\ CanUpdate(p)
  /\ role' = [role EXCEPT ![u] = "none"]
  /\ scope' = [scope EXCEPT ![u] = "assigned"]
  /\ owners' = ArrayRemove(u)
  /\ opened' = opened \ {u}
  /\ EndTx(p) /\ UNCHANGED <<alive, bound, appointed>> /\ raced' = raced \ {u}

(* SetOwners: an owner may remove nobody else from the list.               *)
SetOwnersRequest(a, S) == [IdleReq EXCEPT !.op = "owners", !.actor = a, !.list = S]
SetOwners(p, a, S) ==
  /\ alive
  /\ \/ IsGlobalOrgAdmin(a)
     \/ EffectiveOrgPriority(a) = OrgRoleOwnerPriority /\ owners \subseteq S \cup {a}
  /\ Begin(p, [SetOwnersRequest(a, S) EXCEPT !.pc = "list"])
UpdateOwners(p) ==
  /\ At(p, "list") /\ req[p].op = "owners" /\ CanUpdate(p)
  /\ orgLock' = [orgLock EXCEPT ![p] = "update"]
  /\ Goto(p, "rows") /\ UNCHANGED rowLock
(* SetOwnersTx: a row with rank owner for everyone on the list, and no     *)
(* such rank for anyone else.                                              *)
Demoted(k) == IF k = "owner" THEN "member" ELSE k
UpsertOwners(p) ==
  LET S == req[p].list IN
  /\ At(p, "rows") /\ \A u \in User : (u \in S \/ role[u] = "owner") => CanWrite(p, u)
  /\ IF S # {} /\ ~alive THEN Rollback(p)
     ELSE /\ owners' = S
          /\ role' = [u \in User |-> IF u \in S THEN "owner" ELSE Demoted(role[u])]
          /\ Note(p, S, FALSE)
          /\ raced' = (raced \ S) \cup
                      {u \in S : \E q \in Request \ {p} : req[q].op = "orgs" /\ req[q].user = u
                                                          /\ At(q, "list")}
          /\ EndTx(p) /\ UNCHANGED <<alive, scope, bound>>

(* SetMemberRole: for owners only, and not on a listed owner.              *)
SetMemberRoleRequest(a, u, k) ==
  [IdleReq EXCEPT !.op = "role", !.actor = a, !.user = u, !.rank = k]
SetMemberRole(p, a, u, k) ==
  /\ alive
  /\ EnsureCanManageMember(a, Nobody)
  /\ u \notin owners
  /\ Begin(p, [SetMemberRoleRequest(a, u, k) EXCEPT !.pc = "row"])
SetMemberRoleTx(p) ==
  LET r == req[p] IN
  /\ At(p, "row") /\ r.op = "role" /\ CanWrite(p, r.user)
  /\ IF Member(r.user)
     THEN /\ role' = [role EXCEPT ![r.user] = r.rank]
          /\ Note(p, IF r.rank = "admin" THEN {r.user} ELSE {}, FALSE)
          /\ EndTx(p) /\ UNCHANGED <<alive, owners, scope, bound, raced>>
     ELSE Rollback(p)
SetMemberScopeRequest(a, u, s) ==
  [IdleReq EXCEPT !.op = "scope", !.actor = a, !.user = u, !.scope = s]
SetMemberScope(p, a, u, s) ==
  /\ alive
  /\ EnsureCanManageMember(a, u)
  /\ MayGrant(a, s)
  /\ Begin(p, [SetMemberScopeRequest(a, u, s) EXCEPT !.pc = "row"])
UpdateScope(p) ==
  LET r == req[p] IN
  /\ At(p, "row") /\ r.op = "scope" /\ CanWrite(p, r.user)
  /\ IF Member(r.user)
     THEN /\ scope' = [scope EXCEPT ![r.user] = r.scope]
          /\ Note(p, {}, r.scope = "all")
          /\ EndTx(p) /\ UNCHANGED <<alive, owners, role, bound, raced>>
     ELSE Rollback(p)

(* SetUserOrgs, by an administrator of users: the rows of u are deleted,   *)
(* u leaves the lists of the organizations not named, and gets new rows in *)
(* those named.  Here one organization is named or not.                    *)
SetUserOrgsRequest(u, stay) == [IdleReq EXCEPT !.op = "orgs", !.user = u, !.stay = stay]
SetUserOrgs(p, u, stay) ==
  /\ stay => alive
  /\ Begin(p, [SetUserOrgsRequest(u, stay) EXCEPT !.pc = "row"])
DeleteRows(p) ==
  LET u == req[p].user IN
  /\ At(p, "row") /\ req[p].op = "orgs" /\ CanWrite(p, u)
  /\ rowLock' = IF Member(u) THEN [rowLock EXCEPT ![u] = p] ELSE rowLock
  /\ Goto(p, IF req[p].stay THEN "share" ELSE "list") /\ UNCHANGED orgLock
(* The UPDATE sees the committed list, and waits only if u is on it.  A row *)
(* that was not there for the DELETE stays.                                *)
LeaveOrgs(p) ==
  LET u == req[p].user
      mine == rowLock[u] = p
  IN
  /\ At(p, "list") /\ req[p].op = "orgs"
  /\ u \in owners => CanUpdate(p)
  /\ owners' = ArrayRemove(u)
  /\ role' = IF mine THEN [role EXCEPT ![u] = "none"] ELSE role
  /\ scope' = IF mine THEN [scope EXCEPT ![u] = "assigned"] ELSE scope
  /\ opened' = IF mine THEN opened \ {u} ELSE opened
  /\ EndTx(p) /\ UNCHANGED <<alive, bound, appointed, raced>>
(* The INSERT fails on a row that somebody else has inserted meanwhile.    *)
InsertUserOrg(p) ==
  LET u == req[p].user IN
  /\ At(p, "insert") /\ req[p].op = "orgs" /\ CanWrite(p, u)
  /\ IF rowLock[u] = p \/ ~Member(u)
     THEN /\ role' = [role EXCEPT ![u] = "member"]
          /\ scope' = [scope EXCEPT ![u] = "assigned"]
          /\ opened' = opened \ {u} /\ raced' = raced \ {u}
          /\ EndTx(p) /\ UNCHANGED <<alive, owners, bound, appointed>>
     ELSE Rollback(p)

(* DeleteOrgDelegated: a virtual group may be deleted by its admins.  The  *)
(* rows of owners go first; a row that is left keeps the organization.     *)
DeleteRequest(a) == [IdleReq EXCEPT !.op = "delete", !.actor = a]
DeleteOrgDelegated(p, a) ==
  /\ alive
  /\ IsGlobalOrgAdmin(a) \/ (Virtual /\ IsOrgAdminOrOwner(a))
  /\ Begin(p, [DeleteRequest(a) EXCEPT !.pc = "lock"])
DeleteLock(p) ==
  /\ At(p, "lock") /\ CanUpdate(p)
  /\ IF alive
     THEN orgLock' = [orgLock EXCEPT ![p] = "update"] /\ Goto(p, "guard") /\ UNCHANGED rowLock
     ELSE Rollback(p)
DeleteVgWithOwnerCleanup(p) ==
  /\ At(p, "guard")
  /\ \A u \in User : role[u] = "owner" => CanWrite(p, u)
  /\ IF \E u \in User : role[u] \in {"member", "admin"} THEN Rollback(p)
     ELSE /\ alive' = FALSE
          /\ role' = [u \in User |-> "none"] /\ scope' = [u \in User |-> "assigned"]
          /\ opened' = {} /\ raced' = {}
          /\ EndTx(p) /\ UNCHANGED <<owners, bound, appointed>>

(* BindOrgRole and UnbindOrgRole, by a global administrator.               *)
BindRequest(a) == [IdleReq EXCEPT !.op = "bind", !.actor = a]
BindOrgRole(p, a) ==
  /\ alive /\ IsGlobalOrgAdmin(a)
  /\ Begin(p, [BindRequest(a) EXCEPT !.pc = "bind"])
InsertBinding(p) ==
  /\ At(p, "bind")
  /\ bound' = TRUE
  /\ EndTx(p) /\ UNCHANGED <<alive, owners, role, scope, history>>
UnbindRequest(a) == [IdleReq EXCEPT !.op = "unbind", !.actor = a]
UnbindOrgRole(p, a) ==
  /\ IsGlobalOrgAdmin(a)
  /\ Begin(p, [UnbindRequest(a) EXCEPT !.pc = "unbind"])
DeleteBinding(p) ==
  /\ At(p, "unbind")
  /\ bound' = FALSE
  /\ EndTx(p) /\ UNCHANGED <<alive, owners, role, scope, history>>

-----------------------------------------------------------------------------
Arrive(p) ==
  \/ \E a, u \in User :
       \/ \E k \in {"member", "admin"} :
            \/ \E s \in {"", "all"} : AddMember(p, a, u, k, s)
            \/ SetMemberRole(p, a, u, k)
       \/ \E s \in {"group", "all"} : SetMemberScope(p, a, u, s)
       \/ RemoveMember(p, a, u)
  \/ \E a \in User :
       \/ \E S \in SUBSET User : SetOwners(p, a, S)
       \/ DeleteOrgDelegated(p, a) \/ BindOrgRole(p, a) \/ UnbindOrgRole(p, a)
  \/ \E u \in User, stay \in BOOLEAN : SetUserOrgs(p, u, stay)
Step(p) ==
  \/ LockAliveOrgForShare(p) \/ AddMemberWithRole(p)
  \/ DeleteRow(p) \/ SyncOwners(p)
  \/ UpdateOwners(p) \/ UpsertOwners(p)
  \/ SetMemberRoleTx(p) \/ UpdateScope(p)
  \/ DeleteRows(p) \/ LeaveOrgs(p) \/ InsertUserOrg(p)
  \/ DeleteLock(p) \/ DeleteVgWithOwnerCleanup(p)
  \/ InsertBinding(p) \/ DeleteBinding(p)
  \/ Abort(p)
Next == \E p \in Request : Arrive(p) \/ Step(p)
Spec == Init /\ [][Next]_vars

-----------------------------------------------------------------------------
(* Types. *)
TypeOK ==
  /\ alive \in BOOLEAN /\ bound \in BOOLEAN /\ appointed \subseteq User
  /\ owners \subseteq User /\ raced \subseteq User /\ opened \subseteq User
  /\ role \in [User -> {"none", "member", "admin", "owner"}]
  /\ scope \in [User -> {"assigned", "group", "all"}]
  /\ orgLock \in [Request -> {"none", "share", "update"}]
  /\ rowLock \in [User -> Request \cup {Nobody}]
  /\ ops \in 0..MaxOps

(* The two records of ownership agree.  A row with rank owner belongs to a *)
(* listed owner, so that somebody taken off the list has no power left;    *)
(* and while the organization lives a listed owner has a row, so that      *)
(* somebody who was removed does not stay an effective owner.  The one     *)
(* exception is a user who was made owner between two statements of a      *)
(* SetUserOrgs that takes him out: the row stays and the list entry goes.  *)
OwnershipAgrees ==
  /\ \A u \in User : role[u] = "owner" => u \in owners \cup raced
  /\ alive => \A u \in owners : Member(u)

(* No power comes from nowhere, whatever owners and admins ask for and     *)
(* however their requests overlap.  An owner or admin of the organization  *)
(* was given a rank by a global administrator, by an owner of the start,   *)
(* or by somebody who was given one in this way.  Nobody sees all tickets  *)
(* whom no global administrator let since he became a member.  Who has     *)
(* lost a rank remains appointed: a request that he began before still     *)
(* counts as his, as it does in the code.                                  *)
PowerComesFromGlobal ==
  /\ \A u \in User : EffectiveOrgPriority(u) < OrgRoleMemberPriority => u \in appointed
  /\ \A u \in User : scope[u] = "all" => u \in opened
=============================================================================
