---------------------------- MODULE TicketAccess ----------------------------
(***************************************************************************)
(* Who may do what with a ticket.  A request is judged by several reads,   *)
(* one statement each under READ COMMITTED: the roles of the user, the     *)
(* ticket, the memberships with the organizations they resolve to, and the *)
(* two questions about delegation.  Memberships, owners, the tree and the  *)
(* ticket itself may change between any two of them.                       *)
(*                                                                         *)
(* Each change here is the commit of a request of another module           *)
(* (OrgTree, OrgDelegation, UserAdmin, TicketLifecycle), where its guards  *)
(* and its steps are.  A ticket row is read with the path of its           *)
(* organization: OrgTree shows that org_path is that path, and where it is *)
(* not.  Roles and permissions stay as they are, and no organization is    *)
(* created or deleted.  The request judged is one of many: they do not     *)
(* disturb each other except by those changes.  expires_at is never        *)
(* written by this program.                                                *)
(***************************************************************************)
EXTENDS Naturals, FiniteSets, SequencesExt

CONSTANTS Org, NoOrg,
          Virtual,    \* is_virtual organizations
          SeedPath,   \* SeedPath[o] : the path of o at the start
          User, Nobody,
          Admin,      \* users with the role admin or superadmin
          Manager,    \* users with an org:* permission
          Ticket,
          SeedTicket, \* tickets there at the start, open in any organization
          Offered,    \* what clients ask for in this model
          MaxChange   \* bound on changes

Action == {"read", "comment", "note", "update", "close", "assign", "delete"}
Verb == Action \cup {"comments", "relations", "list", "create"}

(* The paths of a forest: each ends with its organization, and what is     *)
(* before an organization in a path is its own path.                       *)
IsForest(P) ==
  \A o \in Org : /\ Len(P[o]) > 0 /\ P[o][Len(P[o])] = o
                 /\ \A i \in 1..Len(P[o]) : P[P[o][i]] = SubSeq(P[o], 1, i)

ASSUME AccessAssumption ==
  /\ NoOrg \notin Org /\ Nobody \notin User
  /\ Virtual \subseteq Org /\ SeedPath \in [Org -> Seq(Org)] /\ IsForest(SeedPath)
  /\ Admin \subseteq User /\ Manager \subseteq User
  /\ SeedTicket \subseteq Ticket
  /\ Offered \subseteq Verb /\ MaxChange \in Nat

VARIABLES
  path,    \* path[o] : its ltree path, the organizations from the root to o
  opaque,  \* entities whose ticket_visibility is project_isolated
  owners,  \* owners[o] : owner_user_ids
  row,     \* row[u][o] : the user_orgs row: org_member_role ("none" without a row), ticket_scope
  ticket,  \* ticket[k] : org (NoOrg if the ticket is not there), created_by, assigned_to
  req,     \* the request judged
  changes

tables == <<path, opaque, owners, row, ticket>>
accessVars == <<tables, req, changes>>

NoRow == [role |-> "none", scope |-> "assigned"]
NoTicket == [org |-> NoOrg, creator |-> Nobody, assignee |-> Nobody, path |-> <<>>]
NoScope == [anchors |-> {}, groups |-> {}, all |-> FALSE]

Above(a, b) == IsPrefix(a, b)   \* ltree: a @> b

Exists(k) == ticket[k].org # NoOrg
Row(k) == IF Exists(k) THEN [ticket[k] EXCEPT !.path = path[ticket[k].org]] ELSE ticket[k]

-----------------------------------------------------------------------------
(* The reads, each of the state at its moment.                             *)

(* resolve: a membership counts by the nearest entity above it; the join   *)
(* drops one that has none.                                                *)
Anchor(o) ==
  LET up == {a \in Org \ Virtual : Above(path[a], path[o])} IN
  IF up = {} THEN NoOrg ELSE CHOOSE a \in up : \A b \in up : Len(path[b]) <= Len(path[a])
Resolve(u) ==
  LET mine == {o \in Org : row[u][o].role # "none" /\ Anchor(o) # NoOrg} IN
     [anchors |-> {path[a] : a \in {Anchor(o) : o \in mine} \ opaque},
      groups |-> {path[o] : o \in {o \in mine : row[u][o].scope = "group"}},
      all |-> \E o \in mine : row[u][o].scope = "all"]
ReadPaths(s) == s.anchors \cup s.groups
PathInAnchors(p, anchors) == \E a \in anchors : Above(a, p)

IsOrgAdminOrOwner(u, o) == u \in owners[o] \/ row[u][o].role \in {"admin", "owner"}
IsAncestorOwner(u, o, p) ==
  \E a \in Org : Above(path[a], path[o]) /\ u \in owners[a] /\ Above(path[a], p)

(* GetFilter and its SQL, on the ticket rows of the moment.                *)
NoDelegatedVisibility(u, o) == FALSE
DelegatedVisibility(u, o) ==
  \/ u \in owners[o]
  \/ row[u][o].role \in {"admin", "owner"}
  \/ \E a \in Org : Above(path[a], path[o]) /\ u \in owners[a]
Filter(u, s, k) ==
  \/ s.all
  \/ u \in {Row(k).creator, Row(k).assignee}
  \/ PathInAnchors(Row(k).path, ReadPaths(s))
  \/ DelegatedVisibility(u, Row(k).org)
Matches(u, s) == {k \in Ticket : Exists(k) /\ Filter(u, s, k)}

(* IsInOrgBranch and isGlobalOrgAdmin. *)
IsInOrgBranch(u, o) ==
  \E m \in Org : /\ row[u][m].role # "none"
                 /\ Above(path[m], path[o]) \/ Above(path[o], path[m])
IsGlobalOrgAdmin(u) == u \in Admin \cup Manager

-----------------------------------------------------------------------------
(* What each action asks for, in one state: the rules that the steps below *)
(* are to implement.                                                       *)

Delegated(u, k) ==
  LET o == ticket[k].org IN IsOrgAdminOrOwner(u, o) \/ IsAncestorOwner(u, o, Row(k).path)
Rule(u, act, k) ==
  LET creator == ticket[k].creator = u
      assignee == ticket[k].assignee = u
      scope == Resolve(u)
      seen == creator \/ assignee \/ scope.all \/ PathInAnchors(Row(k).path, ReadPaths(scope))
  IN Exists(k) /\
     \/ u \in Admin
     \/ Delegated(u, k)
     \/ act \in {"read", "comment"} /\ seen
     \/ act \in {"note", "close"} /\ (creator \/ assignee)
     \/ act = "update" /\ creator
     \/ act = "assign" /\ (scope.all \/ PathInAnchors(Row(k).path, scope.groups))
MayCreate(u, o) == IsInOrgBranch(u, o) \/ IsGlobalOrgAdmin(u)

(* What a request r can be about, and whether its user may do it now.      *)
Asked(r) ==
  CASE r.act = "list" -> {"read"} \X Ticket
    [] r.act = "comments" -> {"read", "note"} \X {r.ticket}
    [] r.act = "relations" -> {"read"} \X {r.ticket}
    [] r.act = "create" -> {"create"} \X {r.org}
    [] OTHER -> {r.act, "read"} \X {r.ticket}
Allowed(u, w) == IF w[1] = "create" THEN MayCreate(u, w[2]) ELSE Rule(u, w[1], w[2])

-----------------------------------------------------------------------------
(* The request.  answer is "none" while it runs; then "ok", "forbidden"    *)
(* (403), "hidden" (404), "failed" (500) or "refused", which is the 403 of *)
(* a question that could not be answered; shown is what it returned.       *)

IdleReq == [act |-> "read", pc |-> "idle", step |-> "read", user |-> Nobody, ticket |-> Nobody,
            org |-> NoOrg, copy |-> NoTicket, scope |-> NoScope, phase |-> "see",
            during |-> 0, could |-> {}, answer |-> "none", shown |-> {}]
AccessInit ==
  /\ path = SeedPath /\ opaque = {}
  /\ owners = [o \in Org |-> {}]
  /\ row = [u \in User |-> [o \in Org |-> NoRow]]
  /\ \E at \in [SeedTicket -> Org], by \in [SeedTicket -> User] :
       ticket = [k \in Ticket |-> IF k \in SeedTicket
                                  THEN [NoTicket EXCEPT !.org = at[k], !.creator = by[k]]
                                  ELSE NoTicket]
  /\ req = IdleReq /\ changes = 0

At(pc) == req.pc = pc
To(r) == req' = r /\ UNCHANGED <<tables, changes>>
Answer(a, seen) ==
  req' = [IdleReq EXCEPT !.act = req.act, !.pc = "done", !.user = req.user, !.ticket = req.ticket,
                         !.org = req.org, !.during = req.during, !.could = req.could,
                         !.answer = a, !.shown = seen]
Reply(a, seen) == Answer(a, seen) /\ UNCHANGED <<tables, changes>>
(* The client has its answer.                                              *)
Finish == At("done") /\ To(IdleReq)
(* A statement fails: the error is passed on as such, except that          *)
(* isGlobalOrgAdmin takes it for a no.                                     *)
Fail ==
  /\ req.pc \notin {"idle", "done"}
  /\ Reply(IF req.pc \in {"global", "manage"} THEN "refused" ELSE "failed", {})

Begin(r) ==
  /\ At("idle") /\ r.act \in Offered
  /\ LET b == [r EXCEPT !.pc = "roles"] IN To([b EXCEPT !.could = {w \in Asked(b) : Allowed(b.user, w)}])
Ask(act, u, k) == Begin([IdleReq EXCEPT !.act = act, !.step = act, !.user = u, !.ticket = k])
Get(u, k) == Ask("read", u, k)
Update(u, k) == Ask("update", u, k)
Close(u, k) == Ask("close", u, k)
Assign(u, k) == Ask("assign", u, k)
Delete(u, k) == Ask("delete", u, k)
CreateComment(u, k) == Ask("comment", u, k)
CreateNote(u, k) == Ask("note", u, k)
ListComments(u, k) == Begin([IdleReq EXCEPT !.act = "comments", !.user = u, !.ticket = k])
ListRelations(u, k) == Begin([IdleReq EXCEPT !.act = "relations", !.user = u, !.ticket = k])
List(u) == Begin([IdleReq EXCEPT !.act = "list", !.user = u])
Create(u, k, o) ==
  /\ ~Exists(k)
  /\ Begin([IdleReq EXCEPT !.act = "create", !.user = u, !.ticket = k, !.org = o])

CommentsOf(internal) == {"public"} \cup IF internal THEN {"internal"} ELSE {}
(* The action asked for is allowed; ListComments asks for two.             *)
Passed(r) ==
  IF r.act = "comments"
  THEN IF r.step = "read"
       THEN To([r EXCEPT !.step = "note", !.pc = "roles"])
       ELSE Reply("ok", CommentsOf(TRUE))
  ELSE Reply("ok", {})
(* It is not: ListComments leaves the internal comments out then.          *)
RefusedUnlessHidden(a) ==
  IF req.act = "comments" /\ req.step = "note"
  THEN Reply("ok", CommentsOf(a = "hidden")) ELSE Reply(a, {})
Refused(a) ==
  IF req.act = "comments" /\ req.step = "note" THEN Reply("ok", CommentsOf(FALSE)) ELSE Reply(a, {})

(* authorize and registry.Authorize: the roles first.                      *)
GetRoles ==
  /\ At("roles") /\ req.act \notin {"list", "create"}
  /\ IF req.user \in Admin THEN Passed(req) ELSE To([req EXCEPT !.pc = "ticket"])
GetByID ==
  /\ At("ticket")
  /\ IF Exists(req.ticket)
     THEN To([req EXCEPT !.copy = Row(req.ticket), !.pc = "scope"])
     ELSE Refused("hidden")

IsOwner(u, c) == u \in {c.creator, c.assignee}
(* canOperate on what has been read; "ask" if only delegation can tell.    *)
CanOperate(r) ==
  CASE r.step \in {"read", "comment"} -> TRUE
    [] r.step \in {"note", "close"} -> IsOwner(r.user, r.copy)
    [] r.step = "update" -> r.copy.creator = r.user
    [] r.step = "assign" -> r.scope.all \/ PathInAnchors(r.copy.path, r.scope.groups)
    [] OTHER -> FALSE
Operate(r) ==
  IF CanOperate(r) THEN Passed(r) ELSE To([r EXCEPT !.phase = "operate", !.pc = "admin"])
ResolveScope ==
  /\ At("scope") /\ req.act # "list"
  /\ LET r == [req EXCEPT !.scope = Resolve(req.user)]
         visible == \/ IsOwner(req.user, req.copy)
                    \/ r.scope.all
                    \/ PathInAnchors(req.copy.path, ReadPaths(r.scope))
     IN IF visible THEN Operate(r) ELSE To([r EXCEPT !.phase = "see", !.pc = "admin"])
(* Delegation makes the ticket visible, or the action allowed.             *)
ByDelegation(yes, no) ==
  IF ~yes THEN no
  ELSE IF req.phase = "see" THEN Operate(req) ELSE Passed([req EXCEPT !.phase = "see"])
AskAdmin ==
  /\ At("admin")
  /\ ByDelegation(IsOrgAdminOrOwner(req.user, req.copy.org), To([req EXCEPT !.pc = "ancestor"]))
AskAncestor ==
  /\ At("ancestor")
  /\ ByDelegation(IsAncestorOwner(req.user, req.copy.org, req.copy.path),
                  Refused(IF req.phase = "see" THEN "hidden" ELSE "forbidden"))

(* List: the roles, the scope, and the query with the filter made of it.   *)
ListRoles ==
  /\ At("roles") /\ req.act = "list"
  /\ To([req EXCEPT !.pc = IF req.user \in Admin THEN "query" ELSE "scope",
                    !.scope.all = req.user \in Admin])
GetFilter ==
  /\ At("scope") /\ req.act = "list"
  /\ To([req EXCEPT !.scope = Resolve(req.user), !.pc = "query"])
Query == At("query") /\ Reply("ok", Matches(req.user, req.scope))

(* Create: the branch; if it is another, the roles and the permissions;    *)
(* and the insert, by a transaction that locks the organization.           *)
CheckBranch ==
  /\ At("roles") /\ req.act = "create"
  /\ To([req EXCEPT !.pc = IF IsInOrgBranch(req.user, req.org) THEN "insert" ELSE "global"])
CheckGlobal ==
  /\ At("global")
  /\ To([req EXCEPT !.pc = IF req.user \in Admin THEN "insert" ELSE "manage"])
HasOrgManagePermission ==
  /\ At("manage")
  /\ IF req.user \in Manager THEN To([req EXCEPT !.pc = "insert"]) ELSE Reply("forbidden", {})
Insert ==
  /\ At("insert")
  /\ IF Exists(req.ticket) THEN Reply("failed", {})
     ELSE /\ Answer("ok", {})
          /\ ticket' = [ticket EXCEPT ![req.ticket] =
                          [NoTicket EXCEPT !.org = req.org, !.creator = req.user]]
          /\ UNCHANGED <<path, opaque, owners, row, changes>>

-----------------------------------------------------------------------------
(* The changes.  They come last in an action: what the request could have  *)
(* been allowed is judged in the state after.  The rows of administrators  *)
(* are left alone, nothing depends on them.                                *)

Change ==
  /\ changes < MaxChange /\ changes' = changes + 1
  /\ req' = IF req.pc \in {"idle", "done"} THEN req
            ELSE [req EXCEPT !.during = @ + 1, !.could = @ \cup
                          {w \in Asked(req) : \E u \in {req.user} : Allowed(u, w)'}]

Move(o, par) ==
  LET new == IF par = NoOrg THEN <<o>> ELSE Append(path[par], o) IN
  /\ new # path[o]
  /\ par # NoOrg => ~Above(path[o], path[par]) /\ ~(o \in Virtual /\ par \in Virtual)
  /\ path' = [d \in Org |-> IF Above(path[o], path[d])
                            THEN new \o SubSeq(path[d], Len(path[o]) + 1, Len(path[d]))
                            ELSE path[d]]
  /\ UNCHANGED <<opaque, owners, row, ticket>> /\ Change
SetVisibility(o, v) == IF v THEN opaque \ {o} ELSE opaque \cup {o}
UpdateVisibility(o) ==
  /\ o \notin Virtual
  /\ opaque' = SetVisibility(o, o \in opaque)
  /\ UNCHANGED <<path, owners, row, ticket>> /\ Change
AddMember(u, o, k, s) ==
  /\ row[u][o].role = "none"
  /\ row' = [row EXCEPT ![u][o] = [role |-> k, scope |-> s]]
  /\ UNCHANGED <<path, opaque, owners, ticket>> /\ Change
SetMemberScope(u, o, s) ==
  /\ row[u][o].role # "none" /\ row[u][o].scope # s
  /\ row' = [row EXCEPT ![u][o].scope = s]
  /\ UNCHANGED <<path, opaque, owners, ticket>> /\ Change
SetMemberRole(u, o, k) ==
  /\ row[u][o].role \notin {"none", k}
  /\ row' = [row EXCEPT ![u][o].role = k]
  /\ UNCHANGED <<path, opaque, owners, ticket>> /\ Change
RemoveMember(u, o) ==
  /\ row[u][o].role # "none"
  /\ row' = [row EXCEPT ![u][o] = NoRow]
  /\ owners' = [owners EXCEPT ![o] = @ \ {u}]
  /\ UNCHANGED <<path, opaque, ticket>> /\ Change
SetOwners(o, S) ==
  /\ S # owners[o]
  /\ owners' = [owners EXCEPT ![o] = S]
  /\ row' = [u \in User |-> [row[u] EXCEPT ![o].role =
               IF u \in S THEN "owner" ELSE IF @ = "owner" THEN "member" ELSE @]]
  /\ UNCHANGED <<path, opaque, ticket>> /\ Change
(* All memberships of a user are written anew, by SetUserOrgs or by the    *)
(* deletion of the user, and with them the lists of owners.                *)
Overwrite(u, S) ==
  /\ row' = [row EXCEPT ![u] = [o \in Org |-> IF o \in S THEN [NoRow EXCEPT !.role = "member"] ELSE NoRow]]
  /\ owners' = [o \in Org |-> IF o \in S THEN owners[o] ELSE owners[o] \ {u}]
  /\ UNCHANGED <<path, opaque, ticket>> /\ Change
SetUserOrgs(u, S) == Overwrite(u, S)
DeleteUser(u) == Overwrite(u, {})
UpdateAssignedTo(k, u) == [ticket EXCEPT ![k].assignee = u]
AssignTo(k, u) ==
  /\ Exists(k) /\ ticket[k].assignee # u
  /\ ticket' = UpdateAssignedTo(k, u)
  /\ UNCHANGED <<path, opaque, owners, row>> /\ Change
DeleteTicket(k) ==
  /\ Exists(k)
  /\ ticket' = [ticket EXCEPT ![k] = NoTicket]
  /\ UNCHANGED <<path, opaque, owners, row>> /\ Change

-----------------------------------------------------------------------------
Arrive ==
  \E u \in User :
    \/ \E k \in Ticket :
         \/ Get(u, k) \/ Update(u, k) \/ Close(u, k) \/ Assign(u, k) \/ Delete(u, k)
         \/ CreateComment(u, k) \/ CreateNote(u, k) \/ ListComments(u, k) \/ ListRelations(u, k)
         \/ \E o \in Org : Create(u, k, o)
    \/ List(u)
Step ==
  \/ GetRoles \/ GetByID \/ ResolveScope \/ AskAdmin \/ AskAncestor
  \/ ListRoles \/ GetFilter \/ Query
  \/ CheckBranch \/ CheckGlobal \/ HasOrgManagePermission \/ Insert
  \/ Fail \/ Finish
Disturb ==
  \/ \E o \in Org : \/ \E par \in Org \cup {NoOrg} : Move(o, par)
                    \/ UpdateVisibility(o)
                    \/ \E S \in SUBSET (User \ Admin) : SetOwners(o, S)
                    \/ \E u \in User \ Admin :
                         \/ \E k \in {"member", "admin"}, s \in {"assigned", "group", "all"} :
                              AddMember(u, o, k, s)
                         \/ \E s \in {"assigned", "group", "all"} : SetMemberScope(u, o, s)
                         \/ \E k \in {"member", "admin"} : SetMemberRole(u, o, k)
                         \/ RemoveMember(u, o)
  \/ \E u \in User \ Admin : DeleteUser(u) \/ \E S \in SUBSET Org : SetUserOrgs(u, S)
  \/ \E k \in Ticket : DeleteTicket(k) \/ \E u \in User : AssignTo(k, u)
AccessNext == Arrive \/ Step \/ Disturb
AccessSpec == AccessInit /\ [][AccessNext]_accessVars

-----------------------------------------------------------------------------
(* Types. *)
AccessTypeOK ==
  /\ path \in [Org -> Seq(Org)] /\ opaque \subseteq Org
  /\ owners \in [Org -> SUBSET User]
  /\ \A k \in Ticket : ticket[k].org \in Org \cup {NoOrg}
  /\ req.act \in Verb /\ req.during \in 0..MaxChange
  /\ req.answer \in {"none", "ok", "forbidden", "hidden", "failed", "refused"}
  /\ changes \in 0..MaxChange

(* What an answer must have been allowed to be.                            *)
Granted == req.answer = "ok" /\ req.user \notin Admin
Shown ==
  CASE req.act = "list" -> {"read"} \X req.shown
    [] req.act = "comments" ->
         {<<"read", req.ticket>>} \cup (IF "internal" \in req.shown THEN {<<"note", req.ticket>>} ELSE {})
    [] req.act = "relations" -> {<<"read", req.ticket>>}
    [] req.act = "create" -> {<<"create", req.org>>}
    [] OTHER -> {<<req.act, req.ticket>>}

(* A request judged by reads of different moments is granted, and shows a  *)
(* ticket or an internal comment, only if the rules allowed just that at   *)
(* one moment of it: a single change that falls between the reads, a move  *)
(* of a subtree, a revoked membership, another assignee, never puts a      *)
(* right together from an old and a new state.                             *)
GrantedWasAllowed == Granted /\ req.during <= 1 => Shown \subseteq req.could

(* Undisturbed, and if no statement fails, the steps answer by the rules   *)
(* exactly: the list shows the tickets that reading would show, the 404 is *)
(* for what cannot be seen and the 403 for what can, and internal comments *)
(* are for those who may write them.                                       *)
UndisturbedIsExact ==
  At("done") /\ req.during = 0 /\ req.answer \notin {"failed", "refused"} /\ req.user \notin Admin =>
    CASE req.act = "list" -> Shown = req.could
      [] req.act = "comments" /\ req.answer = "ok" -> Shown = req.could
      [] req.act = "relations" -> (req.answer = "ok") = (req.could # {})
      [] req.act = "create" -> (req.answer = "ok") = (<<"create", req.org>> \in req.could)
      [] OTHER -> req.answer = IF <<req.act, req.ticket>> \in req.could THEN "ok"
                               ELSE IF <<"read", req.ticket>> \in req.could THEN "forbidden"
                               ELSE "hidden"

(* Violated.  The comment on ResolvedScope says that any membership with   *)
(* ticket_scope all shows every ticket; the join drops the membership when *)
(* no entity is above its organization.                                    *)
AllScopeSeesAll ==
  \A u \in User : (\E o \in Org : row[u][o].role # "none" /\ row[u][o].scope = "all")
    => Resolve(u).all
=============================================================================
