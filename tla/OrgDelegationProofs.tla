------------------------ MODULE OrgDelegationProofs ------------------------
(***************************************************************************)
(* Proofs about OrgDelegation, for any number of users and requests, any   *)
(* set of administrators and any sequence of operations.                   *)
(***************************************************************************)
EXTENDS OrgDelegation, TLAPS

Rank == {"none", "member", "admin", "owner"}
Pc == {"idle", "share", "insert", "row", "list", "rows", "lock", "guard", "bind", "unbind"}
ReqState == [op : Op, pc : Pc, actor : User \cup {Nobody}, user : User \cup {Nobody},
             rank : {"", "member", "admin"}, scope : {"", "group", "all"},
             list : SUBSET User, stay : BOOLEAN, global : BOOLEAN]

\* The part of the types the proofs need.
Typed ==
  /\ owners \subseteq User /\ alive \in BOOLEAN /\ appointed \subseteq User
  /\ role \in [User -> Rank]
  /\ scope \in [User -> {"", "assigned", "group", "all"}]
  /\ rowLock \in [User -> Request \cup {Nobody}]
  /\ req \in [Request -> ReqState]

\* Somebody is owner or admin of the organization.
Powerful(u) == u \in owners \/ role[u] \in {"admin", "owner"}

\* Where the power of a request in progress comes from: whoever may give a
\* rank without being a global administrator was given one, and whoever gives
\* the scope "all" is one.
Entitled(r) ==
  r.pc # "idle" =>
    /\ r.op \in {"add", "remove", "role", "scope", "orgs"} => r.user \in User
    /\ r.op \in {"add", "role"} => r.rank \in {"member", "admin"}
    /\ r.op \in {"add", "owners", "role"} => r.global \/ r.actor \in appointed
    /\ r.op \in {"add", "scope"} /\ r.scope = "all" => r.global
    /\ r.pc = "rows" => r.op = "owners"

\* A SetUserOrgs that is about to take its user off the list has locked the
\* row of the user, or there was none when it looked.
Leaving(p) == req[p].pc = "list" /\ req[p].op = "orgs"
Watched(p) ==
  Leaving(p) /\ rowLock[req[p].user] # p /\ role[req[p].user] = "owner"
    => req[p].user \in raced

IInv ==
  /\ Typed
  /\ OwnershipAgrees
  /\ \A u \in User : Powerful(u) => u \in appointed
  /\ \A u \in User : scope[u] = "all" => u \in opened
  /\ \A p \in Request : Entitled(req[p]) /\ Watched(p)

-----------------------------------------------------------------------------
\* Ranks and rights.

LEMMA PriorityIs ==
  ASSUME NEW u
  PROVE  /\ EffectiveOrgPriority(u) < OrgRoleMemberPriority <=> Powerful(u)
         /\ EffectiveOrgPriority(u) \in {OrgRoleOwnerPriority, OrgRoleAdminPriority} <=> Powerful(u)
  BY DEF EffectiveOrgPriority, OrgRoleOwnerPriority, OrgRoleAdminPriority,
         OrgRoleMemberPriority, Powerful

\* Whoever may manage a member and is no global administrator has a rank.
LEMMA ManagersHavePower ==
  ASSUME NEW a \in User, NEW t, EnsureCanManageMember(a, t), ~IsGlobalOrgAdmin(a)
  PROVE  Powerful(a)
  BY PriorityIs DEF EnsureCanManageMember

\* IInv says what PowerComesFromGlobal says.
LEMMA PowerIs ==
  IInv => PowerComesFromGlobal
  BY PriorityIs DEF IInv, PowerComesFromGlobal

-----------------------------------------------------------------------------
\* Requests and locks.

LEMMA IdleType == IdleReq \in ReqState /\ IdleReq.pc = "idle"
  BY DEF IdleReq, ReqState, Op, Pc

LEMMA BeginEffect ==
  ASSUME Typed, NEW p \in Request, NEW r \in ReqState, Begin(p, r)
  PROVE  \E g \in ReqState :
           /\ req' = [req EXCEPT ![p] = g]
           /\ g.op = r.op /\ g.pc = r.pc /\ g.actor = r.actor /\ g.user = r.user
           /\ g.rank = r.rank /\ g.scope = r.scope /\ g.list = r.list
           /\ g.global <=> r.actor \in User /\ IsGlobalOrgAdmin(r.actor)
<1> DEFINE b == r.actor \in {a \in User : IsGlobalOrgAdmin(a)}
           g == [r EXCEPT !.global = b]
<1>1. req' = [req EXCEPT ![p] = g]
  BY DEF Begin
<1>2. b \in BOOLEAN
  OBVIOUS
<1>3. g \in ReqState /\ g.op = r.op /\ g.pc = r.pc /\ g.actor = r.actor /\ g.user = r.user
      /\ g.rank = r.rank /\ g.scope = r.scope /\ g.list = r.list /\ g.global = b
  BY <1>2 DEF ReqState
<1>4. QED
  BY <1>1, <1>3

LEMMA GotoEffect ==
  ASSUME Typed, NEW p \in Request, NEW pc \in Pc, Goto(p, pc)
  PROVE  \E g \in ReqState :
           /\ req' = [req EXCEPT ![p] = g]
           /\ g.pc = pc /\ g.op = req[p].op /\ g.actor = req[p].actor /\ g.user = req[p].user
           /\ g.rank = req[p].rank /\ g.scope = req[p].scope /\ g.list = req[p].list /\ g.global = req[p].global
<1> DEFINE g == [req[p] EXCEPT !.pc = pc]
<1>1. req[p] \in ReqState
  BY DEF Typed
<1>2. req' = [req EXCEPT ![p] = g]
  BY <1>1 DEF Goto, Typed
<1>3. g \in ReqState /\ g.pc = pc /\ g.op = req[p].op /\ g.actor = req[p].actor
      /\ g.user = req[p].user
      /\ g.rank = req[p].rank /\ g.scope = req[p].scope /\ g.list = req[p].list
      /\ g.global = req[p].global
  BY <1>1 DEF ReqState
<1>4. QED
  BY <1>2, <1>3

\* The transaction of p touches the row locks that are free or its own.
OwnLocks(p) ==
  /\ rowLock' \in [User -> Request \cup {Nobody}]
  /\ \A u \in User : rowLock'[u] # rowLock[u] =>
       rowLock[u] \in {p, Nobody} /\ rowLock'[u] \in {p, Nobody}

\* A step that leaves rows and history alone.
LEMMA QuietStep ==
  ASSUME IInv, NEW p \in Request, UNCHANGED <<rows, history>>, OwnLocks(p),
         NEW g \in ReqState, req' = [req EXCEPT ![p] = g],
         Entitled(g), g.op = "orgs" /\ g.pc = "list" => rowLock'[g.user] = p \/ role[g.user] = "none"
  PROVE  IInv'
<1>1. UNCHANGED <<alive, owners, role, scope, bound, raced, appointed, opened>>
  BY DEF rows, history
<1>2. req'[p] = g /\ \A q \in Request \ {p} : req'[q] = req[q]
  BY DEF IInv, Typed
<1>3. Typed'
  BY <1>1 DEF IInv, Typed, OwnLocks
<1>4. OwnershipAgrees'
  BY <1>1 DEF IInv, OwnershipAgrees, Member
<1>5. \A u \in User : Powerful(u)' => u \in appointed'
  BY <1>1 DEF IInv, Powerful
<1>6. \A u \in User : scope'[u] = "all" => u \in opened'
  BY <1>1 DEF IInv
<1>7. Entitled(g)'
  BY <1>1 DEF Entitled
<1>8. ASSUME NEW q \in Request
      PROVE  Entitled(req[q])' /\ Watched(q)'
  <2>1. CASE q = p
    BY <1>1, <1>2, <1>7, <2>1 DEF Watched, Leaving, Entitled
  <2>2. CASE q # p
    <3>1. Entitled(req[q])'
      BY <1>1, <1>2, <2>2 DEF IInv, Entitled
    <3>2. Leaving(q) => req[q].user \in User
      BY DEF IInv, Entitled, Leaving
    <3>3. Leaving(q) /\ rowLock'[req[q].user] # q => rowLock[req[q].user] # q
      BY <2>2, <3>2, DelegationAssumption DEF OwnLocks
    <3>4. Watched(q)
      BY DEF IInv
    <3>5. Watched(q)'
      BY <1>1, <1>2, <2>2, <3>3, <3>4 DEF Watched, Leaving
    <3>6. QED
      BY <3>1, <3>5
  <2>3. QED
    BY <2>1, <2>2
<1>9. QED
  BY <1>3, <1>4, <1>5, <1>6, <1>8 DEF IInv

\* A commit that changes rows: what it has to respect.
LEMMA WriteStep ==
  ASSUME IInv, NEW p \in Request, EndTx(p),
         alive' \in BOOLEAN, owners' \subseteq User, role' \in [User -> Rank],
         scope' \in [User -> {"", "assigned", "group", "all"}], appointed' \subseteq User,
         appointed \subseteq appointed',
         \A u \in User : role'[u] = "owner" => u \in owners' \cup raced',
         alive' => \A u \in owners' : role'[u] # "none",
         \A u \in User : Powerful(u)' => u \in appointed',
         \A u \in User : scope'[u] = "all" => u \in opened',
         \A q \in Request \ {p} :
           Leaving(q) /\ rowLock[req[q].user] # q /\ role'[req[q].user] = "owner"
             => req[q].user \in raced'
  PROVE  IInv'
<1>1. req' = [req EXCEPT ![p] = IdleReq]
      /\ rowLock' = [u \in User |-> IF rowLock[u] = p THEN Nobody ELSE rowLock[u]]
  BY DEF EndTx
<1>2. req'[p] = IdleReq /\ \A q \in Request \ {p} : req'[q] = req[q]
  BY <1>1 DEF IInv, Typed
<1>3. Typed'
  BY <1>1, IdleType DEF IInv, Typed
<1>4. OwnershipAgrees'
  BY <1>3 DEF OwnershipAgrees, Member, Typed
<1>5. ASSUME NEW q \in Request
      PROVE  Entitled(req[q])' /\ Watched(q)'
  <2>1. CASE q = p
    BY <1>2, <2>1, IdleType DEF Entitled, Watched, Leaving
  <2>2. CASE q # p
    <3>1. Entitled(req[q])'
      BY <1>2, <2>2 DEF IInv, Entitled
    <3>2. Leaving(q) => req[q].user \in User
      BY DEF IInv, Entitled, Leaving
    <3>3. Leaving(q) /\ rowLock'[req[q].user] # q => rowLock[req[q].user] # q
      BY <1>1, <2>2, <3>2
    <3>4. Watched(q)'
      BY <1>2, <2>2, <3>3 DEF Watched, Leaving
    <3>5. QED
      BY <3>1, <3>4
  <2>3. QED
    BY <2>1, <2>2
<1>6. QED
  BY <1>3, <1>4, <1>5 DEF IInv

\* The releases at the end of a transaction are the transaction's own.
LEMMA EndLocks ==
  ASSUME Typed, NEW p \in Request, EndTx(p)
  PROVE  OwnLocks(p)
  BY DEF Typed, EndTx, OwnLocks

LEMMA SameLocks ==
  ASSUME Typed, NEW p \in Request, UNCHANGED rowLock
  PROVE  OwnLocks(p)
  BY DEF Typed, OwnLocks

LEMMA TakeLock ==
  ASSUME Typed, NEW p \in Request, NEW u \in User, CanWrite(p, u),
         rowLock' = [rowLock EXCEPT ![u] = p]
  PROVE  OwnLocks(p) /\ rowLock'[u] = p
  BY DEF Typed, OwnLocks, CanWrite

\* A request that ends without writing.
LEMMA RollbackStep ==
  ASSUME IInv, NEW p \in Request, Rollback(p)
  PROVE  IInv'
<1>1. EndTx(p) /\ UNCHANGED <<rows, history>> /\ req' = [req EXCEPT ![p] = IdleReq]
  BY DEF Rollback, EndTx
<1>2. OwnLocks(p)
  BY <1>1, EndLocks DEF IInv
<1>3. Entitled(IdleReq)
  BY IdleType DEF Entitled
<1>4. QED
  BY <1>1, <1>2, <1>3, IdleType, QuietStep

-----------------------------------------------------------------------------
\* Arrivals: the rights that were checked are recorded in the request.

LEMMA BeginStep ==
  ASSUME IInv, NEW p \in Request, NEW r \in ReqState, Begin(p, r),
         r.op \in {"add", "remove", "role", "scope", "orgs"} => r.user \in User,
         r.op \in {"add", "role"} => r.rank \in {"member", "admin"},
         r.op \in {"add", "owners", "role"} =>
           r.actor \in User /\ (r.actor \in appointed \/ IsGlobalOrgAdmin(r.actor)),
         r.op \in {"add", "scope"} /\ r.scope = "all" =>
           r.actor \in User /\ IsGlobalOrgAdmin(r.actor),
         r.pc # "rows", ~(r.op = "orgs" /\ r.pc = "list")
  PROVE  IInv'
<1>1. Typed
  BY DEF IInv
<1>2. PICK g \in ReqState :
        /\ req' = [req EXCEPT ![p] = g]
        /\ g.op = r.op /\ g.pc = r.pc /\ g.actor = r.actor /\ g.user = r.user
        /\ g.rank = r.rank /\ g.scope = r.scope /\ g.list = r.list
        /\ g.global <=> r.actor \in User /\ IsGlobalOrgAdmin(r.actor)
  BY <1>1, BeginEffect
<1>3. Entitled(g)
  BY <1>2 DEF Entitled
<1>4. UNCHANGED <<rows, history>> /\ OwnLocks(p)
  BY <1>1, SameLocks DEF Begin, locks
<1>5. QED
  BY <1>2, <1>3, <1>4, QuietStep

LEMMA ArriveStep ==
  ASSUME IInv, NEW p \in Request, Arrive(p)
  PROVE  IInv'
<1>1. \A a \in User : Powerful(a) => a \in appointed
  BY DEF IInv
<1>2. ASSUME NEW a \in User, NEW u \in User, NEW k \in {"member", "admin"},
             NEW s \in {"", "all"}, AddMember(p, a, u, k, s)
      PROVE  IInv'
  <2> DEFINE r == [AddMemberRequest(a, u, k, s) EXCEPT !.pc = "share"]
  <2>1. r \in ReqState /\ r.op = "add" /\ r.pc = "share" /\ r.actor = a /\ r.user = u
        /\ r.rank = k /\ r.scope = s
    BY DEF AddMemberRequest, IdleReq, ReqState, Op, Pc
  <2>2. Begin(p, r) /\ EnsureCanManageMember(a, u) /\ MayGrant(a, s)
    BY <1>2 DEF AddMember
  <2>3. a \in appointed \/ IsGlobalOrgAdmin(a)
    BY <1>1, <2>2, ManagersHavePower
  <2>4. s = "all" => IsGlobalOrgAdmin(a)
    BY <2>2 DEF MayGrant
  <2> HIDE DEF r
  <2>5. QED
    BY <2>1, <2>2, <2>3, <2>4, BeginStep
<1>3. ASSUME NEW a \in User, NEW u \in User, NEW k \in {"member", "admin"},
             SetMemberRole(p, a, u, k)
      PROVE  IInv'
  <2> DEFINE r == [SetMemberRoleRequest(a, u, k) EXCEPT !.pc = "row"]
  <2>1. r \in ReqState /\ r.op = "role" /\ r.pc = "row" /\ r.actor = a /\ r.user = u
        /\ r.rank = k
    BY DEF SetMemberRoleRequest, IdleReq, ReqState, Op, Pc
  <2>2. Begin(p, r) /\ EnsureCanManageMember(a, Nobody)
    BY <1>3 DEF SetMemberRole
  <2>3. a \in appointed \/ IsGlobalOrgAdmin(a)
    BY <1>1, <2>2, ManagersHavePower
  <2> HIDE DEF r
  <2>4. QED
    BY <2>1, <2>2, <2>3, BeginStep
<1>4. ASSUME NEW a \in User, NEW u \in User, NEW s \in {"group", "all"},
             SetMemberScope(p, a, u, s)
      PROVE  IInv'
  <2> DEFINE r == [SetMemberScopeRequest(a, u, s) EXCEPT !.pc = "row"]
  <2>1. r \in ReqState /\ r.op = "scope" /\ r.pc = "row" /\ r.actor = a /\ r.user = u
        /\ r.scope = s
    BY DEF SetMemberScopeRequest, IdleReq, ReqState, Op, Pc
  <2>2. Begin(p, r) /\ MayGrant(a, s)
    BY <1>4 DEF SetMemberScope
  <2>3. s = "all" => IsGlobalOrgAdmin(a)
    BY <2>2 DEF MayGrant
  <2> HIDE DEF r
  <2>4. QED
    BY <2>1, <2>2, <2>3, BeginStep
<1>5. ASSUME NEW a \in User, NEW u \in User, RemoveMember(p, a, u)
      PROVE  IInv'
  <2> DEFINE r == [RemoveMemberRequest(a, u) EXCEPT !.pc = "row"]
  <2>1. r \in ReqState /\ r.op = "remove" /\ r.pc = "row" /\ r.user = u
    BY DEF RemoveMemberRequest, IdleReq, ReqState, Op, Pc
  <2>2. Begin(p, r)
    BY <1>5 DEF RemoveMember
  <2> HIDE DEF r
  <2>3. QED
    BY <2>1, <2>2, BeginStep
<1>6. ASSUME NEW a \in User, NEW S \in SUBSET User, SetOwners(p, a, S)
      PROVE  IInv'
  <2> DEFINE r == [SetOwnersRequest(a, S) EXCEPT !.pc = "list"]
  <2>1. r \in ReqState /\ r.op = "owners" /\ r.pc = "list" /\ r.actor = a
    BY DEF SetOwnersRequest, IdleReq, ReqState, Op, Pc
  <2>2. Begin(p, r) /\ (IsGlobalOrgAdmin(a) \/ EffectiveOrgPriority(a) = OrgRoleOwnerPriority)
    BY <1>6 DEF SetOwners
  <2>3. a \in appointed \/ IsGlobalOrgAdmin(a)
    BY <1>1, <2>2, PriorityIs
  <2> HIDE DEF r
  <2>4. QED
    BY <2>1, <2>2, <2>3, BeginStep
<1>7. ASSUME NEW a \in User, DeleteOrgDelegated(p, a) \/ BindOrgRole(p, a) \/ UnbindOrgRole(p, a)
      PROVE  IInv'
  <2>1. PICK r \in {[DeleteRequest(a) EXCEPT !.pc = "lock"], [BindRequest(a) EXCEPT !.pc = "bind"],
                    [UnbindRequest(a) EXCEPT !.pc = "unbind"]} : Begin(p, r)
    BY <1>7 DEF DeleteOrgDelegated, BindOrgRole, UnbindOrgRole
  <2>2. r \in ReqState /\ r.op \in {"delete", "bind", "unbind"} /\ r.pc # "rows"
    BY DEF DeleteRequest, BindRequest, UnbindRequest, IdleReq, ReqState, Op, Pc
  <2>3. QED
    BY <2>1, <2>2, BeginStep
<1>8. ASSUME NEW u \in User, NEW stay \in BOOLEAN, SetUserOrgs(p, u, stay)
      PROVE  IInv'
  <2> DEFINE r == [SetUserOrgsRequest(u, stay) EXCEPT !.pc = "row"]
  <2>1. r \in ReqState /\ r.op = "orgs" /\ r.pc = "row" /\ r.user = u
    BY DEF SetUserOrgsRequest, IdleReq, ReqState, Op, Pc
  <2>2. Begin(p, r)
    BY <1>8 DEF SetUserOrgs
  <2> HIDE DEF r
  <2>3. QED
    BY <2>1, <2>2, BeginStep
<1>9. QED
  BY <1>2, <1>3, <1>4, <1>5, <1>6, <1>7, <1>8 DEF Arrive

-----------------------------------------------------------------------------
\* Steps of a request in progress.

\* One that takes a lock and goes on.
LEMMA GotoStep ==
  ASSUME IInv, NEW p \in Request, req[p].pc # "idle", NEW pc \in Pc, Goto(p, pc), OwnLocks(p),
         pc = "rows" => req[p].op = "owners",
         req[p].op = "orgs" /\ pc = "list" =>
           rowLock'[req[p].user] = p \/ role[req[p].user] = "none"
  PROVE  IInv'
<1>1. Typed /\ Entitled(req[p])
  BY DEF IInv
<1>2. PICK g \in ReqState :
        /\ req' = [req EXCEPT ![p] = g]
        /\ g.pc = pc /\ g.op = req[p].op /\ g.actor = req[p].actor /\ g.user = req[p].user
        /\ g.rank = req[p].rank /\ g.scope = req[p].scope /\ g.list = req[p].list /\ g.global = req[p].global
  BY <1>1, GotoEffect
<1>3. Entitled(g)
  BY <1>1, <1>2 DEF Entitled
<1>4. UNCHANGED <<rows, history>>
  BY DEF Goto
<1>5. QED
  BY <1>2, <1>3, <1>4, QuietStep

LEMMA LockSteps ==
  ASSUME IInv, NEW p \in Request,
         \/ LockAliveOrgForShare(p) \/ DeleteRow(p) \/ UpdateOwners(p)
         \/ DeleteRows(p) \/ DeleteLock(p)
  PROVE  IInv'
<1>1. Typed /\ Entitled(req[p])
  BY DEF IInv
<1>2. CASE Rollback(p)
  BY <1>2, RollbackStep
<1>3. CASE LockAliveOrgForShare(p) /\ ~Rollback(p)
  <2>1. Goto(p, "insert") /\ UNCHANGED rowLock /\ req[p].pc # "idle"
    BY <1>3 DEF LockAliveOrgForShare, At
  <2>2. OwnLocks(p)
    BY <1>1, <2>1, SameLocks
  <2>3. QED
    BY <2>1, <2>2, GotoStep DEF Pc
<1>4. CASE DeleteRow(p) /\ ~Rollback(p)
  <2>1. /\ Goto(p, "list") /\ req[p].pc = "row" /\ req[p].op = "remove"
        /\ rowLock' = [rowLock EXCEPT ![req[p].user] = p] /\ CanWrite(p, req[p].user)
    BY <1>4 DEF DeleteRow, At
  <2>2. req[p].user \in User
    BY <1>1, <2>1 DEF Entitled
  <2>3. OwnLocks(p)
    BY <1>1, <2>1, <2>2, TakeLock
  <2>4. QED
    BY <2>1, <2>3, GotoStep DEF Pc
<1>5. CASE UpdateOwners(p)
  <2>1. Goto(p, "rows") /\ UNCHANGED rowLock /\ req[p].pc = "list" /\ req[p].op = "owners"
    BY <1>5 DEF UpdateOwners, At
  <2>2. OwnLocks(p)
    BY <1>1, <2>1, SameLocks
  <2>3. QED
    BY <2>1, <2>2, GotoStep DEF Pc
<1>6. CASE DeleteRows(p)
  <2> DEFINE u == req[p].user
             pc == IF req[p].stay THEN "share" ELSE "list"
  <2>1. /\ Goto(p, pc) /\ req[p].pc = "row" /\ req[p].op = "orgs" /\ CanWrite(p, u)
        /\ rowLock' = IF Member(u) THEN [rowLock EXCEPT ![u] = p] ELSE rowLock
    BY <1>6 DEF DeleteRows, At
  <2>2. u \in User
    BY <1>1, <2>1 DEF Entitled
  <2>3. OwnLocks(p) /\ (rowLock'[u] = p \/ role[u] = "none")
    <3>1. CASE Member(u)
      BY <1>1, <2>1, <2>2, <3>1, TakeLock
    <3>2. CASE ~Member(u)
      BY <1>1, <2>1, <3>2, SameLocks DEF Member
    <3>3. QED
      BY <3>1, <3>2
  <2>4. pc \in Pc /\ pc # "rows"
    BY DEF Pc
  <2> HIDE DEF pc
  <2>5. QED
    BY <2>1, <2>3, <2>4, GotoStep
<1>7. CASE DeleteLock(p) /\ ~Rollback(p)
  <2>1. Goto(p, "guard") /\ UNCHANGED rowLock /\ req[p].pc # "idle"
    BY <1>7 DEF DeleteLock, At
  <2>2. OwnLocks(p)
    BY <1>1, <2>1, SameLocks
  <2>3. QED
    BY <2>1, <2>2, GotoStep DEF Pc
<1>8. QED
  BY <1>2, <1>3, <1>4, <1>5, <1>6, <1>7

\* What a commit relies on.
LEMMA Standing ==
  ASSUME IInv
  PROVE  /\ Typed /\ OwnershipAgrees
         /\ \A u \in User : role[u] = "owner" => u \in owners \cup raced
         /\ alive => \A u \in owners : role[u] # "none"
         /\ \A u \in User : Powerful(u) => u \in appointed
         /\ \A u \in User : scope[u] = "all" => u \in opened
         /\ \A q \in Request : Entitled(req[q]) /\ Watched(q)
         /\ \A q \in Request : Leaving(q) /\ rowLock[req[q].user] # q
                                /\ role[req[q].user] = "owner" => req[q].user \in raced
         /\ \A q \in Request : Leaving(q) => req[q].user \in User
<1>1. \A q \in Request : Leaving(q) => req[q].user \in User
  BY DEF IInv, Entitled, Leaving
<1>2. QED
  BY <1>1 DEF IInv, OwnershipAgrees, Member, Watched

LEMMA AddStep ==
  ASSUME IInv, NEW p \in Request, AddMemberWithRole(p)
  PROVE  IInv'
<1> DEFINE r == req[p]
           u == r.user
           new == ~Member(u)
<1>1. r.op = "add" /\ r.pc = "insert" /\ r \in ReqState
  BY DEF AddMemberWithRole, At, IInv, Typed
<1>2. u \in User /\ r.rank \in {"member", "admin"} /\ (r.global \/ r.actor \in appointed)
      /\ (r.scope = "all" => r.global) /\ r.global \in BOOLEAN
  BY <1>1 DEF IInv, Entitled, ReqState
<1>3. /\ role' = IF new THEN [role EXCEPT ![u] = r.rank] ELSE role
      /\ scope' = [scope EXCEPT ![u] = IF r.scope # "" THEN r.scope
                                       ELSE IF new THEN "assigned" ELSE @]
      /\ appointed' = appointed \cup (IF new /\ r.rank = "admin" THEN {u} ELSE {})
      /\ opened' = IF r.global /\ r.scope = "all" THEN opened \cup {u} ELSE opened
      /\ EndTx(p) /\ UNCHANGED <<alive, owners, bound, raced>>
  BY <1>2 DEF AddMemberWithRole, Note
<1>4. role' \in [User -> Rank] /\ (\A v \in User : role'[v] = role[v] \/ (v = u /\ role[u] = "none" /\ role'[u] = r.rank))
  BY <1>2, <1>3, Standing DEF Typed, Member, Rank
<1>5. scope' \in [User -> {"", "assigned", "group", "all"}]
      /\ \A v \in User : scope'[v] = "all" => scope[v] = "all" \/ (v = u /\ r.scope = "all")
  BY <1>1, <1>2, <1>3, Standing DEF Typed, ReqState
<1>6. appointed' \subseteq User /\ appointed \subseteq appointed'
  BY <1>2, <1>3, Standing DEF Typed
<1>7. \A v \in User : role'[v] = "owner" => role[v] = "owner"
  BY <1>2, <1>4
<1>8. \A v \in User : role'[v] = "owner" => v \in owners' \cup raced'
  BY <1>3, <1>7, Standing
<1>9. alive' => \A v \in owners' : role'[v] # "none"
  BY <1>2, <1>3, <1>4, Standing DEF Typed
<1>10. \A v \in User : Powerful(v)' => v \in appointed'
  <2>1. CASE new /\ r.rank = "admin"
    BY <1>3, <1>4, <1>6, <2>1, Standing DEF Powerful
  <2>2. CASE ~(new /\ r.rank = "admin")
    <3>1. \A v \in User : role'[v] \in {"admin", "owner"} => role[v] \in {"admin", "owner"}
      BY <1>2, <1>3, <1>4, <2>2 DEF Member
    <3>2. QED
      BY <1>3, <1>6, <3>1, Standing DEF Powerful
  <2>3. QED
    BY <2>1, <2>2
<1>11. \A v \in User : scope'[v] = "all" => v \in opened'
  BY <1>2, <1>3, <1>5, Standing
<1>12. \A q \in Request \ {p} :
         Leaving(q) /\ rowLock[req[q].user] # q /\ role'[req[q].user] = "owner"
           => req[q].user \in raced'
  BY <1>3, <1>7, Standing
<1>13. QED
  BY <1>3, <1>4, <1>5, <1>6, <1>8, <1>9, <1>10, <1>11, <1>12, Standing, WriteStep DEF Typed

\* A row is taken away, or loses its rank, and its user leaves the list.
LEMMA SyncStep ==
  ASSUME IInv, NEW p \in Request, SyncOwners(p)
  PROVE  IInv'
<1> DEFINE u == req[p].user
<1>1. /\ role' = [role EXCEPT ![u] = "none"] /\ scope' = [scope EXCEPT ![u] = "assigned"]
      /\ owners' = owners \ {u} /\ opened' = opened \ {u} /\ raced' = raced \ {u}
      /\ EndTx(p) /\ UNCHANGED <<alive, bound, appointed>>
      /\ u \in User
  BY DEF SyncOwners, ArrayRemove, At, IInv, Entitled
<1>2. role' \in [User -> Rank] /\ (\A v \in User : role'[v] = IF v = u THEN "none" ELSE role[v])
  BY <1>1, Standing DEF Typed, Rank
<1>3. scope' \in [User -> {"", "assigned", "group", "all"}]
      /\ \A v \in User : scope'[v] = IF v = u THEN "assigned" ELSE scope[v]
  BY <1>1, Standing DEF Typed
<1>4. \A v \in User : role'[v] = "owner" => v \in owners' \cup raced'
  BY <1>1, <1>2, Standing
<1>5. alive' => \A v \in owners' : role'[v] # "none"
  BY <1>1, <1>2, Standing DEF Typed
<1>6. \A v \in User : Powerful(v)' => v \in appointed'
  BY <1>1, <1>2, Standing DEF Powerful
<1>7. \A v \in User : scope'[v] = "all" => v \in opened'
  BY <1>1, <1>3, Standing
<1>8. \A q \in Request \ {p} :
        Leaving(q) /\ rowLock[req[q].user] # q /\ role'[req[q].user] = "owner"
          => req[q].user \in raced'
  BY <1>1, <1>2, Standing
<1>9. QED
  BY <1>1, <1>2, <1>3, <1>4, <1>5, <1>6, <1>7, <1>8, Standing, WriteStep DEF Typed

LEMMA UpsertStep ==
  ASSUME IInv, NEW p \in Request, UpsertOwners(p)
  PROVE  IInv'
<1> DEFINE S == req[p].list
<1>1. req[p].pc = "rows" /\ req[p].op = "owners" /\ S \subseteq User
      /\ req[p].global \in BOOLEAN /\ (req[p].global \/ req[p].actor \in appointed)
  BY DEF UpsertOwners, At, IInv, Typed, Entitled, ReqState
<1>2. CASE Rollback(p)
  BY <1>2, RollbackStep
<1>3. CASE ~Rollback(p)
  <2>1. /\ owners' = S /\ (S # {} => alive)
        /\ role' = [v \in User |-> IF v \in S THEN "owner" ELSE Demoted(role[v])]
        /\ appointed' = appointed \cup S
        /\ opened' = opened
        /\ raced' = (raced \ S) \cup
                     {v \in S : \E q \in Request \ {p} : req[q].op = "orgs" /\ req[q].user = v
                                                          /\ At(q, "list")}
        /\ EndTx(p) /\ UNCHANGED <<alive, scope, bound>>
    BY <1>1, <1>3 DEF UpsertOwners, Note
  <2>2. \A v \in User : Demoted(role[v]) \in Rank \ {"owner"}
                          /\ (Demoted(role[v]) = "none" <=> role[v] = "none")
                          /\ (Demoted(role[v]) = "admin" => role[v] = "admin")
    BY Standing DEF Typed, Demoted, Rank
  <2>3. role' \in [User -> Rank] /\ \A v \in User : role'[v] = "owner" <=> v \in S
    BY <2>1, <2>2 DEF Rank
  <2>4. \A v \in User : role'[v] = "owner" => v \in owners' \cup raced'
    BY <2>1, <2>3
  <2>5. alive' => \A v \in owners' : role'[v] # "none"
    BY <1>1, <2>1, <2>3
  <2>6. appointed' \subseteq User /\ appointed \subseteq appointed'
    BY <1>1, <2>1, Standing DEF Typed
  <2>7. \A v \in User : Powerful(v)' => v \in appointed'
    <3>1. \A v \in User : Powerful(v)' => v \in S \/ role[v] = "admin"
      BY <2>1, <2>2, <2>3 DEF Powerful
    <3>2. QED
      BY <2>1, <3>1, Standing DEF Powerful
  <2>8. \A v \in User : scope'[v] = "all" => v \in opened'
    BY <2>1, Standing
  <2>9. \A q \in Request \ {p} :
          Leaving(q) /\ rowLock[req[q].user] # q /\ role'[req[q].user] = "owner"
            => req[q].user \in raced'
    BY <2>1, <2>3, Standing DEF Leaving, At
  <2>10. QED
    BY <1>1, <2>1, <2>3, <2>4, <2>5, <2>6, <2>7, <2>8, <2>9, Standing, WriteStep DEF Typed
<1>4. QED
  BY <1>2, <1>3

\* A change of one row's rank to admin or member, of one row's scope, of a
\* binding: the lists stay.
LEMMA RankStep ==
  ASSUME IInv, NEW p \in Request, SetMemberRoleTx(p)
  PROVE  IInv'
<1> DEFINE r == req[p]
           u == r.user
<1>1. /\ r.op = "role" /\ r.pc = "row" /\ u \in User /\ r.rank \in {"member", "admin"}
      /\ r.global \in BOOLEAN /\ (r.global \/ r.actor \in appointed)
  BY DEF SetMemberRoleTx, At, IInv, Typed, Entitled, ReqState
<1>2. CASE Rollback(p)
  BY <1>2, RollbackStep
<1>3. CASE ~Rollback(p)
  <2>1. /\ role' = [role EXCEPT ![u] = r.rank]
        /\ appointed' = appointed \cup (IF r.rank = "admin" THEN {u} ELSE {}) /\ opened' = opened
        /\ EndTx(p) /\ UNCHANGED <<alive, owners, scope, bound, raced>>
    BY <1>1, <1>3 DEF SetMemberRoleTx, Note
  <2>2. role' \in [User -> Rank] /\ \A v \in User : role'[v] = IF v = u THEN r.rank ELSE role[v]
    BY <1>1, <2>1, Standing DEF Typed, Rank
  <2>3. appointed' \subseteq User /\ appointed \subseteq appointed'
    BY <1>1, <2>1, Standing DEF Typed
  <2>4. \A v \in User : role'[v] = "owner" => role[v] = "owner"
    BY <1>1, <2>2
  <2>5. \A v \in User : role'[v] = "owner" => v \in owners' \cup raced'
    BY <2>1, <2>4, Standing
  <2>6. alive' => \A v \in owners' : role'[v] # "none"
    BY <1>1, <2>1, <2>2, Standing DEF Typed
  <2>7. \A v \in User : Powerful(v)' => v \in appointed'
    <3>1. CASE r.rank = "admin"
      BY <2>1, <2>2, <3>1, Standing DEF Powerful
    <3>2. CASE r.rank = "member"
      BY <2>1, <2>2, <2>3, <3>2, Standing DEF Powerful
    <3>3. QED
      BY <1>1, <3>1, <3>2
  <2>8. \A v \in User : scope'[v] = "all" => v \in opened'
    BY <2>1, Standing
  <2>9. \A q \in Request \ {p} :
          Leaving(q) /\ rowLock[req[q].user] # q /\ role'[req[q].user] = "owner"
            => req[q].user \in raced'
    BY <2>1, <2>4, Standing
  <2>10. QED
    BY <2>1, <2>2, <2>3, <2>5, <2>6, <2>7, <2>8, <2>9, Standing, WriteStep DEF Typed
<1>4. QED
  BY <1>2, <1>3

LEMMA ScopeStep ==
  ASSUME IInv, NEW p \in Request, UpdateScope(p)
  PROVE  IInv'
<1> DEFINE r == req[p]
           u == r.user
<1>1. /\ r.op = "scope" /\ r.pc = "row" /\ u \in User /\ r.scope \in {"", "group", "all"}
      /\ r.global \in BOOLEAN /\ (r.scope = "all" => r.global)
  BY DEF UpdateScope, At, IInv, Typed, Entitled, ReqState
<1>2. CASE Rollback(p)
  BY <1>2, RollbackStep
<1>3. CASE ~Rollback(p)
  <2>1. /\ scope' = [scope EXCEPT ![u] = r.scope]
        /\ appointed' = appointed
        /\ opened' = IF r.global /\ r.scope = "all" THEN opened \cup {u} ELSE opened
        /\ EndTx(p) /\ UNCHANGED <<alive, owners, role, bound, raced>>
    BY <1>1, <1>3, Standing DEF UpdateScope, Note, Typed
  <2>2. scope' \in [User -> {"", "assigned", "group", "all"}]
        /\ \A v \in User : scope'[v] = IF v = u THEN r.scope ELSE scope[v]
    BY <1>1, <2>1, Standing DEF Typed
  <2>3. \A v \in User : scope'[v] = "all" => v \in opened'
    BY <1>1, <2>1, <2>2, Standing
  <2>4. \A v \in User : Powerful(v)' => v \in appointed'
    BY <2>1, Standing DEF Powerful
  <2>5. \A q \in Request \ {p} :
          Leaving(q) /\ rowLock[req[q].user] # q /\ role'[req[q].user] = "owner"
            => req[q].user \in raced'
    BY <2>1, Standing
  <2>6. \A v \in User : role'[v] = "owner" => v \in owners' \cup raced'
    BY <2>1, Standing
  <2>7. alive' => \A v \in owners' : role'[v] # "none"
    BY <2>1, Standing
  <2>8. QED
    BY <2>1, <2>2, <2>3, <2>4, <2>5, <2>6, <2>7, Standing, WriteStep DEF Typed
<1>4. QED
  BY <1>2, <1>3

LEMMA BindingStep ==
  ASSUME IInv, NEW p \in Request, InsertBinding(p) \/ DeleteBinding(p)
  PROVE  IInv'
<1>1. EndTx(p) /\ UNCHANGED <<alive, owners, role, scope, raced, appointed, opened>>
  BY DEF InsertBinding, DeleteBinding, history
<1>2. \A v \in User : Powerful(v)' => v \in appointed'
  BY <1>1, Standing DEF Powerful
<1>3. \A q \in Request \ {p} :
        Leaving(q) /\ rowLock[req[q].user] # q /\ role'[req[q].user] = "owner"
          => req[q].user \in raced'
  BY <1>1, Standing
<1>4. /\ \A v \in User : role'[v] = "owner" => v \in owners' \cup raced'
      /\ alive' => \A v \in owners' : role'[v] # "none"
      /\ \A v \in User : scope'[v] = "all" => v \in opened'
  BY <1>1, Standing
<1>5. QED
  BY <1>1, <1>2, <1>3, <1>4, Standing, WriteStep DEF Typed

\* SetUserOrgs.  A row that its DELETE did not see is an owner's only if the
\* user was made owner meanwhile.
LEMMA LeaveStep ==
  ASSUME IInv, NEW p \in Request, LeaveOrgs(p)
  PROVE  IInv'
<1> DEFINE u == req[p].user
           mine == rowLock[u] = p
<1>1. /\ owners' = owners \ {u}
      /\ role' = IF mine THEN [role EXCEPT ![u] = "none"] ELSE role
      /\ scope' = IF mine THEN [scope EXCEPT ![u] = "assigned"] ELSE scope
      /\ opened' = IF mine THEN opened \ {u} ELSE opened
      /\ EndTx(p) /\ UNCHANGED <<alive, bound, appointed, raced>>
      /\ Leaving(p) /\ u \in User
  BY Standing DEF LeaveOrgs, ArrayRemove, At, Leaving
<1>2. role' \in [User -> Rank]
      /\ \A v \in User : role'[v] = IF mine /\ v = u THEN "none" ELSE role[v]
  BY <1>1, Standing DEF Typed, Rank
<1>3. scope' \in [User -> {"", "assigned", "group", "all"}]
      /\ \A v \in User : scope'[v] = IF mine /\ v = u THEN "assigned" ELSE scope[v]
  BY <1>1, Standing DEF Typed
<1>4. ~mine /\ role[u] = "owner" => u \in raced
  BY <1>1, Standing
<1>5. \A v \in User : role'[v] = "owner" => v \in owners' \cup raced'
  BY <1>1, <1>2, <1>4, Standing
<1>6. alive' => \A v \in owners' : role'[v] # "none"
  BY <1>1, <1>2, Standing DEF Typed
<1>7. \A v \in User : Powerful(v)' => v \in appointed'
  BY <1>1, <1>2, Standing DEF Powerful
<1>8. \A v \in User : scope'[v] = "all" => v \in opened'
  BY <1>1, <1>3, Standing
<1>9. \A q \in Request \ {p} :
        Leaving(q) /\ rowLock[req[q].user] # q /\ role'[req[q].user] = "owner"
          => req[q].user \in raced'
  BY <1>1, <1>2, Standing
<1>10. QED
  BY <1>1, <1>2, <1>3, <1>5, <1>6, <1>7, <1>8, <1>9, Standing, WriteStep DEF Typed

LEMMA InsertStep ==
  ASSUME IInv, NEW p \in Request, InsertUserOrg(p)
  PROVE  IInv'
<1> DEFINE u == req[p].user
<1>1. CASE Rollback(p)
  BY <1>1, RollbackStep
<1>2. CASE ~Rollback(p)
  <2>1. /\ role' = [role EXCEPT ![u] = "member"] /\ scope' = [scope EXCEPT ![u] = "assigned"]
        /\ opened' = opened \ {u} /\ raced' = raced \ {u}
        /\ EndTx(p) /\ UNCHANGED <<alive, owners, bound, appointed>>
        /\ u \in User
    BY <1>2 DEF InsertUserOrg, At, IInv, Entitled
  <2>2. role' \in [User -> Rank] /\ \A v \in User : role'[v] = IF v = u THEN "member" ELSE role[v]
    BY <2>1, Standing DEF Typed, Rank
  <2>3. scope' \in [User -> {"", "assigned", "group", "all"}]
        /\ \A v \in User : scope'[v] = IF v = u THEN "assigned" ELSE scope[v]
    BY <2>1, Standing DEF Typed
  <2>4. \A v \in User : role'[v] = "owner" => v \in owners' \cup raced'
    BY <2>1, <2>2, Standing
  <2>5. alive' => \A v \in owners' : role'[v] # "none"
    BY <2>1, <2>2, Standing DEF Typed
  <2>6. \A v \in User : Powerful(v)' => v \in appointed'
    BY <2>1, <2>2, Standing DEF Powerful
  <2>7. \A v \in User : scope'[v] = "all" => v \in opened'
    BY <2>1, <2>3, Standing
  <2>8. \A q \in Request \ {p} :
          Leaving(q) /\ rowLock[req[q].user] # q /\ role'[req[q].user] = "owner"
            => req[q].user \in raced'
    BY <2>1, <2>2, Standing
  <2>9. QED
    BY <2>1, <2>2, <2>3, <2>4, <2>5, <2>6, <2>7, <2>8, Standing, WriteStep DEF Typed
<1>3. QED
  BY <1>1, <1>2

LEMMA DeleteStep ==
  ASSUME IInv, NEW p \in Request, DeleteVgWithOwnerCleanup(p)
  PROVE  IInv'
<1>1. CASE Rollback(p)
  BY <1>1, RollbackStep
<1>2. CASE ~Rollback(p)
  <2>1. /\ alive' = FALSE
        /\ role' = [u \in User |-> "none"] /\ scope' = [u \in User |-> "assigned"]
        /\ opened' = {} /\ raced' = {}
        /\ EndTx(p) /\ UNCHANGED <<owners, bound, appointed>>
    BY <1>2 DEF DeleteVgWithOwnerCleanup
  <2>2. \A v \in User : Powerful(v)' => v \in appointed'
    BY <2>1, Standing DEF Powerful
  <2>3. \A q \in Request \ {p} :
          Leaving(q) /\ rowLock[req[q].user] # q /\ role'[req[q].user] = "owner"
            => req[q].user \in raced'
    BY <2>1, Standing
  <2>4. QED
    BY <2>1, <2>2, <2>3, Standing, WriteStep DEF Typed, Rank
<1>3. QED
  BY <1>1, <1>2

-----------------------------------------------------------------------------
LEMMA Inductive == IInv /\ [Next]_vars => IInv'
<1> SUFFICES ASSUME IInv, [Next]_vars PROVE IInv'
  OBVIOUS
<1>1. CASE UNCHANGED vars
  BY <1>1 DEF vars, rows, locks, history, IInv, Typed, OwnershipAgrees, Member, Powerful,
              Entitled, Watched, Leaving
<1>2. ASSUME NEW p \in Request, Step(p)
      PROVE  IInv'
  <2>1. Abort(p) => Rollback(p)
    BY DEF Abort
  <2>2. QED
    BY <1>2, <2>1, RollbackStep, LockSteps, AddStep, SyncStep, UpsertStep, RankStep, ScopeStep,
       BindingStep, LeaveStep, InsertStep, DeleteStep DEF Step
<1>3. QED
  BY <1>1, <1>2, ArriveStep DEF Next

LEMMA Initially == Init => IInv
<1> SUFFICES ASSUME Init PROVE IInv
  OBVIOUS
<1>1. Typed
  BY IdleType, DelegationAssumption DEF Init, Typed, Rank
<1>2. OwnershipAgrees
  BY DelegationAssumption DEF Init, OwnershipAgrees, Member
<1>3. \A u \in User : Powerful(u) => u \in appointed
  BY DEF Init, Powerful
<1>4. \A u \in User : scope[u] = "all" => u \in opened
  BY DEF Init
<1>5. \A p \in Request : Entitled(req[p]) /\ Watched(p)
  BY IdleType DEF Init, Entitled, Watched, Leaving
<1>6. QED
  BY <1>1, <1>2, <1>3, <1>4, <1>5 DEF IInv

\* The two records of ownership agree, but for users made owners between two
\* statements of a SetUserOrgs that takes them out.
THEOREM OwnersAgree == Spec => []OwnershipAgrees
<1>1. IInv => OwnershipAgrees
  BY DEF IInv
<1>2. QED
  BY <1>1, Initially, Inductive, PTL DEF Spec

\* Every owner and admin was given a rank by a global administrator, by an
\* owner of the start, or by somebody who was given one in this way; every
\* scope "all" by a global administrator since its user became a member.
\* Whether the giver still had his right at the commit is another question:
\* it is checked before the transaction, and a rank that was lost meanwhile
\* counts.
THEOREM PowerIsGiven == Spec => []PowerComesFromGlobal
<1>1. QED
  BY PowerIs, Initially, Inductive, PTL DEF Spec
============================================================================
