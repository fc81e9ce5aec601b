-------------------------- MODULE UserAdminProofs --------------------------
(***************************************************************************)
(* Proofs about UserAdmin, for any number of users, roles and overlapping  *)
(* requests.                                                               *)
(***************************************************************************)
EXTENDS UserAdmin, FiniteSetTheorems, WellFoundedInduction, TLAPS

ReqState == [op : Op, pc : Pc, actor : User \cup {Nobody}, target : User \cup {Nobody},
             want : SUBSET Role, val : {0, 1}, ver : Nat, field : Field \cup {Nobody},
             mine : SUBSET Role, seen : UserRow, snap : SUBSET Role]

\* The part of the types the proofs need.
Typed ==
  /\ row \in [User -> UserRow]
  /\ bind \in [User -> SUBSET Role]
  /\ role \in [Role -> {"on", "off", "deleted"}] /\ role[Super] = "on"
  /\ req \in [Request -> ReqState]
  /\ patched \in [User -> [Field -> Nat]]
  /\ actors \subseteq User
  /\ escaped \in BOOLEAN

\* What a request knows at its step: whom it is about, that the roles it is
\* going to bind are within reach of its actor, and that the row it has read
\* is either outdated or still has the data of the user.
Informed(r) ==
  r.pc # "idle" =>
    /\ r.actor \in actors /\ r.target \in User
    /\ r.op \in {"update", "profile"} => r.pc \in {"find", "actor", "target", "write"}
    /\ r.op = "create" => r.pc \in {"assign", "write"}
    /\ r.op \in {"roles", "create"} /\ r.pc \in {"probe", "lock", "count", "unbind", "write"}
         => r.want \subseteq Reachable
    /\ r.op \in {"update", "profile"} =>
         /\ r.field \in Field
         /\ r.op = "update" => r.ver <= row[r.target].version
         /\ r.pc # "find" =>
              /\ r.seen.life = "live"
              /\ r.seen.version <= row[r.target].version
              /\ r.seen.version = row[r.target].version => r.seen.data = row[r.target].data
              /\ r.op = "update" => r.ver <= r.seen.version

\* The holder of the guard, once it has counted, finds another superadmin
\* beside its target until it ends.
Two == \E u, v \in ActiveSupers : u # v
Guards(p) ==
  guard = p =>
    /\ req[p].pc \in {"count", "unbind", "write"}
    /\ req[p].pc # "count" => Two \/ escaped

\* A user that is not there yet has the row it will be inserted with.
Vacant == \A u \in User : row[u].life = "none" => row[u] = NoRow

IInv ==
  /\ Typed
  /\ guard \in Request \cup {Nobody}
  /\ \A p \in Request : Informed(req[p]) /\ Guards(p)
  /\ Vacant
  /\ SuperadminRemains
  /\ NoEscalation
  /\ NoLostPatch

-----------------------------------------------------------------------------
\* Priorities.

\* A set of roles is as strong as one of its members.
LEMMA PriorityAttained ==
  ASSUME NEW R, NEW P, R # {}, \A r \in R : P[r] \in Nat
  PROVE  \E s \in R : EffectivePriority(R, P) = P[s]
<1> DEFINE T == {P[r] : r \in R}
<1>1. T \subseteq Nat /\ T # {}
  OBVIOUS
<1>2. PICK n \in T : \A m \in T : ~(<<m, n>> \in OpToRel(<, Nat))
  BY <1>1, NatLessThanWellFounded, WFMin
<1>3. \A m \in T : ~(m < n)
  BY <1>1, <1>2 DEF OpToRel
<1>4. ASSUME NEW r \in R
      PROVE  n <= P[r]
  <2>1. P[r] \in T /\ P[r] \in Nat /\ n \in Nat
    BY <1>1
  <2>2. ~(P[r] < n)
    BY <1>3, <2>1
  <2>3. QED
    BY <2>1, <2>2
<1>5. EffectivePriority(R, P) \in T
  BY <1>4 DEF EffectivePriority
<1>6. QED
  BY <1>5

\* Whoever holds only what is within reach can assign only what is.
LEMMA AssignsWithinReach ==
  ASSUME actors \subseteq User, NEW a \in actors, NEW M, M \subseteq Role,
         M \subseteq Seed[a] \cup Reachable, NEW x \in Role,
         CanAssignRole(M, x, Priority, Super)
  PROVE  x \in Reachable
<1>1. x = Super => \E b \in actors : Super \in Seed[b]
  BY UserAssumption DEF CanAssignRole, Reachable
<1>2. CASE M = {}
  BY <1>1, <1>2 DEF CanAssignRole, EffectivePriority, Reachable
<1>3. CASE M # {}
  <2>1. PICK s \in M : EffectivePriority(M, Priority) = Priority[s]
    BY <1>3, PriorityAttained, UserAssumption
  <2>2. Priority[x] >= Priority[s] /\ Priority[x] \in Nat /\ Priority[s] \in Nat
    BY <2>1, UserAssumption DEF CanAssignRole
  <2>3. CASE s \in Seed[a]
    BY <1>1, <2>2, <2>3 DEF Reachable
  <2>4. CASE s \in Reachable
    <3>1. CASE Priority[s] >= NoRolePriority
      BY <1>1, <2>2, <3>1 DEF Reachable, NoRolePriority
    <3>2. CASE \E b \in actors : \E t \in Seed[b] : Priority[s] >= Priority[t]
      <4>1. PICK b \in actors : \E t \in Seed[b] : Priority[s] >= Priority[t]
        BY <3>2
      <4>2. PICK t \in Seed[b] : Priority[s] >= Priority[t]
        BY <4>1
      <4>3. t \in Role /\ Priority[t] \in Nat
        BY <4>1, UserAssumption
      <4>4. Priority[x] >= Priority[t]
        BY <2>2, <4>2, <4>3
      <4>5. QED
        BY <1>1, <4>4 DEF Reachable
    <3>3. QED
      BY <2>4, <3>1, <3>2 DEF Reachable
  <2>5. QED
    BY <2>3, <2>4
<1>4. QED
  BY <1>2, <1>3

-----------------------------------------------------------------------------
\* Superadmins.

LEMMA CountedTwo ==
  ASSUME ~LastOne
  PROVE  Two
<1>1. SUFFICES ASSUME ~Two PROVE LastOne
  OBVIOUS
<1>2. CASE ActiveSupers = {}
  BY <1>2, FS_EmptySet DEF LastOne
<1>3. CASE ActiveSupers # {}
  <2>1. PICK u : u \in ActiveSupers
    BY <1>3
  <2>2. ActiveSupers = {u}
    BY <1>1, <2>1 DEF Two
  <2>3. QED
    BY <2>2, FS_Singleton DEF LastOne
<1>4. QED
  BY <1>2, <1>3

\* Superadmins depend on accounts and bindings, and on one role.
LEMMA SupersSame ==
  ASSUME UNCHANGED <<row, bind>>, role'[Super] = role[Super]
  PROVE  ActiveSupers' = ActiveSupers
  BY UserAssumption DEF ActiveSupers, Live, IsSuperadminUser, GetRoles

LEMMA SupersElsewhere ==
  ASSUME NEW t, role' = role,
         \A u \in User \ {t} : row'[u] = row[u] /\ bind'[u] = bind[u]
  PROVE  ActiveSupers \subseteq ActiveSupers' \cup {t}
  BY DEF ActiveSupers, Live, IsSuperadminUser, GetRoles

-----------------------------------------------------------------------------
\* Requests.

LEMMA Types ==
  /\ NewUser \in UserRow /\ NoRow \in UserRow
  /\ IdleReq \in ReqState /\ IdleReq.pc = "idle"
<1>1. NewUser \in UserRow
  BY DEF NewUser, UserRow
<1>2. NoRow \in UserRow
  BY DEF NewUser, NoRow, UserRow
<1>3. QED
  BY <1>1, <1>2 DEF IdleReq, ReqState, Op, Pc

LEMMA GotoEffect ==
  ASSUME Typed, NEW p \in Request, NEW pc \in Pc, Goto(p, pc)
  PROVE  \E g \in ReqState :
           /\ req' = [req EXCEPT ![p] = g]
           /\ g.pc = pc /\ g.op = req[p].op /\ g.actor = req[p].actor /\ g.target = req[p].target
           /\ g.want = req[p].want /\ g.field = req[p].field /\ g.ver = req[p].ver
           /\ g.seen = req[p].seen
<1> DEFINE g == [req[p] EXCEPT !.pc = pc]
<1>1. req[p] \in ReqState
  BY DEF Typed
<1>2. req' = [req EXCEPT ![p] = g]
  BY <1>1 DEF Goto, Typed
<1>3. /\ g \in ReqState /\ g.pc = pc /\ g.op = req[p].op /\ g.actor = req[p].actor
      /\ g.target = req[p].target /\ g.want = req[p].want /\ g.field = req[p].field
      /\ g.ver = req[p].ver /\ g.seen = req[p].seen
  BY <1>1 DEF ReqState
<1>4. QED
  BY <1>2, <1>3

-----------------------------------------------------------------------------
\* Kinds of steps.

\* A step of p that reads, or that takes or leaves the guard.
LEMMA QuietStep ==
  ASSUME IInv, NEW p \in Request, UNCHANGED <<row, bind, role, actors, patched, escaped>>,
         NEW g \in ReqState, req' = [req EXCEPT ![p] = g], Informed(g),
         guard' \in {guard, p, Nobody},
         guard' # guard => guard \in {p, Nobody},
         guard' = p => /\ g.pc \in {"count", "unbind", "write"}
                       /\ g.pc # "count" => Two \/ escaped
  PROVE  IInv'
<1>1. req'[p] = g /\ \A q \in Request \ {p} : req'[q] = req[q]
  BY DEF IInv, Typed
<1>2. Typed'
  BY DEF IInv, Typed
<1>3. ActiveSupers' = ActiveSupers
  BY SupersSame
<1>4. guard' \in Request \cup {Nobody}
  BY DEF IInv
<1>5. ASSUME NEW q \in Request
      PROVE  Informed(req[q])' /\ Guards(q)'
  <2>1. CASE q = p
    <3>1. Informed(req[q])'
      BY <1>1, <2>1 DEF Informed, Reachable
    <3>2. Guards(q)'
      BY <1>1, <1>3, <2>1 DEF Guards, Two
    <3>3. QED
      BY <3>1, <3>2
  <2>2. CASE q # p
    <3>1. Informed(req[q])'
      BY <1>1, <2>2 DEF IInv, Informed, Reachable
    <3>2. guard' = q => guard = q
      BY <2>2, UserAssumption
    <3>3. Guards(q)'
      BY <1>1, <1>3, <2>2, <3>2 DEF IInv, Guards, Two
    <3>4. QED
      BY <3>1, <3>3
  <2>3. QED
    BY <2>1, <2>2
<1>6. Vacant' /\ NoLostPatch'
  BY DEF IInv, Vacant, NoLostPatch
<1>7. SuperadminRemains' /\ NoEscalation'
  BY <1>3 DEF IInv, SuperadminRemains, NoEscalation, Reachable
<1>8. QED
  BY <1>2, <1>4, <1>5, <1>6, <1>7 DEF IInv

LEMMA RefuseStep ==
  ASSUME IInv, NEW p \in Request, Refuse(p), UNCHANGED <<role, ops, actors>>
  PROVE  IInv'
<1>1. Informed(IdleReq)
  BY Types DEF Informed
<1>2. /\ guard' \in {guard, Nobody} /\ (guard' # guard => guard = p)
      /\ guard' # p
  BY UserAssumption DEF Refuse, Finish, Release
<1>3. QED
  BY <1>1, <1>2, QuietStep, Types DEF Refuse, Finish

\* What a commit about t does to the tables: it writes no other user's rows,
\* binds what is within reach, and changes the data together with the version.
Writes(t) ==
  /\ row' \in [User -> UserRow] /\ bind' \in [User -> SUBSET Role]
  /\ patched' \in [User -> [Field -> Nat]]
  /\ \A u \in User \ {t} : row'[u] = row[u] /\ bind'[u] = bind[u] /\ patched'[u] = patched[u]
  /\ bind'[t] \subseteq bind[t] \cup Reachable
  /\ row'[t].data = patched'[t]
  /\ row'[t].version >= row[t].version
  /\ row'[t].version = row[t].version => row'[t].data = row[t].data
  /\ row'[t].life = "none" => row'[t] = NoRow

LEMMA CommitStep ==
  ASSUME IInv, NEW p \in Request, Commit(p), req[p].pc = "write",
         NEW t \in User, Writes(t)
  PROVE  IInv'
<1> USE DEF Writes
<1>1. UNCHANGED <<role, actors>> /\ req' = [req EXCEPT ![p] = IdleReq]
  BY DEF Commit, Finish
<1>2. req'[p] = IdleReq /\ \A q \in Request \ {p} : req'[q] = req[q]
  BY <1>1 DEF IInv, Typed
<1>3. escaped' = (escaped \/ (guard # p /\ ~(ActiveSupers \subseteq ActiveSupers')))
  BY DEF Commit, Audit
<1>4. guard' = IF guard = p THEN Nobody ELSE guard
  BY DEF Commit, Finish, Release
<1>5. Typed'
  BY <1>1, <1>3, Types DEF IInv, Typed
<1>6. ASSUME NEW q \in Request
      PROVE  Informed(req[q])' /\ Guards(q)'
  <2>1. CASE q = p
    BY <1>2, <1>4, <2>1, Types, UserAssumption DEF Informed, Guards
  <2>2. CASE q # p
    <3>1. Informed(req[q]) /\ Guards(q)
      BY DEF IInv
    <3>2. \A u \in User : /\ row'[u].version >= row[u].version
                          /\ row'[u].version = row[u].version => row'[u].data = row[u].data
                          /\ row[u].version \in Nat /\ row'[u].version \in Nat
      <4>1. \A u \in User : row[u].version \in Nat /\ row'[u].version \in Nat
        BY <1>5 DEF IInv, Typed, UserRow
      <4>2. TAKE u \in User
      <4>3. CASE u = t
        BY <4>1, <4>3
      <4>4. CASE u # t
        <5>1. row'[u] = row[u]
          BY <4>4
        <5>2. QED
          BY <4>1, <5>1
      <4>5. QED
        BY <4>3, <4>4
    <3>3. req[q] \in ReqState /\ req[q].ver \in Nat /\ req[q].seen.version \in Nat
      BY DEF IInv, Typed, ReqState, UserRow
    <3>4. Informed(req[q])'
      <4>1. SUFFICES ASSUME req[q].pc # "idle"
                     PROVE  Informed(req[q])'
        BY <1>2, <2>2 DEF Informed
      <4>2. req[q].target \in User
        BY <3>1, <4>1 DEF Informed
      <4>3. Reachable' = Reachable
        BY <1>1 DEF Reachable
      <4> DEFINE u == req[q].target
      <4>4. /\ row'[u].version >= row[u].version
            /\ row'[u].version = row[u].version => row'[u].data = row[u].data
            /\ row[u].version \in Nat /\ row'[u].version \in Nat
        BY <3>2, <4>2
      <4>5. req'[q] = req[q] /\ actors' = actors
        BY <1>1, <1>2, <2>2
      <4> HIDE DEF u
      <4>6. /\ req[q].op = "update" => req[q].ver <= row'[u].version
            /\ req[q].op \in {"update", "profile"} /\ req[q].pc # "find" =>
                 /\ req[q].seen.version <= row'[u].version
                 /\ req[q].seen.version = row'[u].version => req[q].seen.data = row'[u].data
        <5>1. /\ req[q].op = "update" => req[q].ver <= row[u].version
              /\ req[q].op \in {"update", "profile"} /\ req[q].pc # "find" =>
                   /\ req[q].seen.version <= row[u].version
                   /\ req[q].seen.version = row[u].version => req[q].seen.data = row[u].data
          BY <3>1, <4>1 DEF Informed, u
        <5> DEFINE v == row[u].version
                   w == row'[u].version
                   x == req[q].ver
                   y == req[q].seen.version
        <5>2. v \in Nat /\ w \in Nat /\ x \in Nat /\ y \in Nat /\ w >= v
          BY <3>3, <4>4
        <5> HIDE DEF v, w, x, y
        <5>3. /\ x <= v => x <= w
              /\ y <= v => y <= w /\ (y = w => v = w)
          BY <5>2
        <5>4. QED
          BY <4>4, <5>1, <5>3 DEF v, w, x, y
      <4>7. QED
        BY <3>1, <4>1, <4>3, <4>5, <4>6 DEF Informed, u
    <3>5. Guards(q)'
      <4>1. SUFFICES ASSUME guard' = q PROVE Guards(q)'
        BY DEF Guards
      <4>2. guard = q /\ guard # p
        BY <1>4, <2>2, <4>1, UserAssumption
      <4>3. ActiveSupers \subseteq ActiveSupers' \/ escaped'
        BY <1>3, <4>2
      <4>4. QED
        BY <1>2, <1>3, <2>2, <3>1, <4>2, <4>3 DEF Guards, Two
    <3>6. QED
      BY <3>4, <3>5
  <2>3. QED
    BY <2>1, <2>2
<1>7. guard' \in Request \cup {Nobody}
  BY <1>4 DEF IInv
<1>8. Vacant'
  BY DEF IInv, Vacant
<1>9. NoLostPatch'
  BY DEF IInv, NoLostPatch
<1>10. NoEscalation'
  <2>1. Reachable' = Reachable
    BY <1>1 DEF Reachable
  <2>2. QED
    BY <2>1 DEF IInv, NoEscalation
<1>11. SuperadminRemains'
  <2>1. CASE guard = p
    <3>1. Two \/ escaped
      BY <2>1 DEF IInv, Guards
    <3>2. ActiveSupers \subseteq ActiveSupers' \cup {t}
      BY <1>1, SupersElsewhere
    <3>3. QED
      BY <1>3, <3>1, <3>2 DEF SuperadminRemains, Two
  <2>2. CASE guard # p
    BY <1>3, <2>2 DEF IInv, SuperadminRemains
  <2>3. QED
    BY <2>1, <2>2
<1>12. QED
  BY <1>5, <1>6, <1>7, <1>8, <1>9, <1>10, <1>11 DEF IInv

\* A step that puts p at another place and reads nothing into its request.
LEMMA MoveStep ==
  ASSUME IInv, NEW p \in Request, req[p].pc # "idle", NEW pc \in Pc, Goto(p, pc),
         Reading, UNCHANGED <<role, ops, actors>>, guard # p \/ pc \in {"unbind", "write"},
         guard = p => Two \/ escaped,
         req[p].op \in {"roles", "create"} /\ pc \in {"probe", "lock", "count", "unbind", "write"}
           => req[p].pc \in {"probe", "lock", "count", "unbind"},
         req[p].op \in {"update", "profile"} => req[p].pc # "find" /\ pc = "write",
         req[p].op = "create" => pc = "write"
  PROVE  IInv'
<1>1. PICK g \in ReqState :
           /\ req' = [req EXCEPT ![p] = g]
           /\ g.pc = pc /\ g.op = req[p].op /\ g.actor = req[p].actor /\ g.target = req[p].target
           /\ g.want = req[p].want /\ g.field = req[p].field /\ g.ver = req[p].ver
           /\ g.seen = req[p].seen
  BY GotoEffect DEF IInv
<1>2. Informed(g)
  BY <1>1 DEF IInv, Informed
<1>3. QED
  BY <1>1, <1>2, QuietStep DEF Reading

\* A request that comes.
LEMMA StartStep ==
  ASSUME IInv, NEW p \in Request, NEW r \in ReqState, Start(p, r),
         r.actor \in actors, r.target \in User, r.pc \in {"find", "actor", "assign", "write"},
         r.pc = "write" => r.op = "reset",
         r.op = "create" => r.pc = "assign",
         r.op \in {"update", "profile"} => r.pc = "find" /\ r.field \in Field,
         r.op = "update" => r.ver = row[r.target].version
  PROVE  IInv'
<1>1. guard # p
  BY UserAssumption DEF Start, IInv, Guards
<1>2. row[r.target].version \in Nat
  BY DEF IInv, Typed, UserRow
<1>3. Informed(r)
  BY <1>2 DEF Informed
<1>4. QED
  BY <1>1, <1>3, QuietStep DEF Start, Reading

-----------------------------------------------------------------------------
\* The requests as they come.

LEMMA Arrivals ==
  ASSUME IInv, NEW p \in Request,
         \/ Create(p) \/ Update(p) \/ UpdateProfile(p) \/ Delete(p) \/ UpdateStatus(p)
         \/ SetRoles(p) \/ ResetPassword(p)
  PROVE  IInv'
<1>1. actors \subseteq User /\ Wanted \subseteq SUBSET Role
      /\ \A u \in User : row[u].version \in Nat
  BY UserAssumption DEF IInv, Typed, UserRow
<1> USE Types DEF ReqState, Op, Pc
<1>2. CASE Create(p)
  <2>1. PICK a \in actors, u \in User, w \in Wanted :
          Start(p, [CreateRequest(a, u, w) EXCEPT !.pc = "assign"])
    BY <1>2 DEF Create
  <2> DEFINE r == [CreateRequest(a, u, w) EXCEPT !.pc = "assign"]
  <2>2. r \in ReqState /\ r.actor = a /\ r.target = u /\ r.pc = "assign" /\ r.op = "create"
    BY <1>1 DEF CreateRequest, IdleReq
  <2> HIDE DEF r
  <2>3. QED
    BY <2>1, <2>2, StartStep DEF r
<1>3. CASE Update(p)
  <2>1. PICK a \in actors, u \in User, f \in Field :
          Start(p, [UpdateRequest(a, u, f) EXCEPT !.pc = "find"])
    BY <1>3 DEF Update
  <2> DEFINE r == [UpdateRequest(a, u, f) EXCEPT !.pc = "find"]
  <2>2. r \in ReqState /\ r.actor = a /\ r.target = u /\ r.pc = "find" /\ r.op = "update"
        /\ r.field = f /\ r.ver = row[u].version
    BY <1>1 DEF UpdateRequest, IdleReq
  <2> HIDE DEF r
  <2>3. QED
    BY <2>1, <2>2, StartStep DEF r
<1>4. CASE UpdateProfile(p)
  <2>1. PICK a \in actors, f \in Field : Start(p, [ProfileRequest(a, f) EXCEPT !.pc = "find"])
    BY <1>4 DEF UpdateProfile
  <2> DEFINE r == [ProfileRequest(a, f) EXCEPT !.pc = "find"]
  <2>2. r \in ReqState /\ r.actor = a /\ r.target = a /\ r.pc = "find" /\ r.op = "profile"
        /\ r.field = f
    BY <1>1 DEF ProfileRequest, IdleReq
  <2> HIDE DEF r
  <2>3. QED
    BY <1>1, <2>1, <2>2, StartStep DEF r
<1>5. CASE Delete(p)
  <2>1. PICK a \in actors, u \in User : Start(p, [DeleteRequest(a, u) EXCEPT !.pc = "find"])
    BY <1>5 DEF Delete
  <2> DEFINE r == [DeleteRequest(a, u) EXCEPT !.pc = "find"]
  <2>2. r \in ReqState /\ r.actor = a /\ r.target = u /\ r.pc = "find" /\ r.op = "delete"
    BY <1>1 DEF DeleteRequest, IdleReq
  <2> HIDE DEF r
  <2>3. QED
    BY <2>1, <2>2, StartStep DEF r
<1>6. CASE UpdateStatus(p)
  <2>1. PICK a \in actors, u \in User, v \in {0, 1} :
          Start(p, [StatusRequest(a, u, v) EXCEPT !.pc = "find"])
    BY <1>6 DEF UpdateStatus
  <2> DEFINE r == [StatusRequest(a, u, v) EXCEPT !.pc = "find"]
  <2>2. r \in ReqState /\ r.actor = a /\ r.target = u /\ r.pc = "find" /\ r.op = "status"
    BY <1>1 DEF StatusRequest, IdleReq
  <2> HIDE DEF r
  <2>3. QED
    BY <2>1, <2>2, StartStep DEF r
<1>7. CASE SetRoles(p)
  <2>1. PICK a \in actors, u \in User, w \in Wanted :
          Start(p, [RolesRequest(a, u, w) EXCEPT !.pc = IF a = u THEN "assign" ELSE "actor"])
    BY <1>7 DEF SetRoles
  <2> DEFINE r == [RolesRequest(a, u, w) EXCEPT !.pc = IF a = u THEN "assign" ELSE "actor"]
  <2>2. r \in ReqState /\ r.actor = a /\ r.target = u /\ r.pc \in {"assign", "actor"}
        /\ r.op = "roles"
    BY <1>1 DEF RolesRequest, IdleReq
  <2> HIDE DEF r
  <2>3. QED
    BY <2>1, <2>2, StartStep DEF r
<1>8. CASE ResetPassword(p)
  <2>1. PICK a \in actors, u \in User :
          Start(p, [ResetRequest(a, u) EXCEPT !.pc = IF a = u THEN "write" ELSE "actor"])
    BY <1>8 DEF ResetPassword
  <2> DEFINE r == [ResetRequest(a, u) EXCEPT !.pc = IF a = u THEN "write" ELSE "actor"]
  <2>2. r \in ReqState /\ r.actor = a /\ r.target = u /\ r.pc \in {"write", "actor"}
        /\ r.op = "reset"
    BY <1>1 DEF ResetRequest, IdleReq
  <2> HIDE DEF r
  <2>3. QED
    BY <2>1, <2>2, StartStep DEF r
<1>9. QED
  BY <1>2, <1>3, <1>4, <1>5, <1>6, <1>7, <1>8

-----------------------------------------------------------------------------
\* The steps of a request before it writes.

LEMMA Reads ==
  ASSUME IInv, NEW p \in Request,
         \/ FindByID(p) \/ ReadActor(p) \/ EnsureCanManage(p) \/ AssignAllowed(p)
         \/ Probe(p) \/ AcquireSuperadminGuard(p) \/ CountActiveSuperadmins(p)
         \/ DeleteUserRoles(p)
  PROVE  IInv'
<1>1. /\ req[p] \in ReqState /\ Informed(req[p]) /\ Guards(p)
      /\ Typed
  BY DEF IInv, Typed
<1>2. CASE FindByID(p)
  <2>1. req[p].pc = "find" /\ guard # p /\ req[p].op # "create"
    BY <1>1, <1>2 DEF FindByID, Guards, Informed
  <2>2. CASE Refuse(p)
    BY <1>2, <2>2, RefuseStep DEF FindByID
  <2>3. CASE ~Refuse(p)
    <3> DEFINE r == req[p]
               s == row[r.target]
               c == IF r.actor = r.target THEN Admitted(r) ELSE "actor"
               g == [r EXCEPT !.seen = s, !.pc = c]
    <3>1. req' = [req EXCEPT ![p].seen = s, ![p].pc = c] /\ Live(r.target)
          /\ Reading /\ UNCHANGED <<role, ops, actors>>
      BY <1>2, <2>3 DEF FindByID
    <3>2. req' = [req EXCEPT ![p] = g]
      BY <1>1, <3>1 DEF Typed
    <3>3. r.target \in User /\ s \in UserRow /\ s.life = "live" /\ s.version \in Nat
      BY <1>1, <2>1, <3>1 DEF Informed, Typed, Live, UserRow
    <3>4. /\ c \in {"assign", "probe", "write", "actor"}
          /\ r.op \in {"update", "profile"} => c \in {"write", "actor"}
          /\ r.op = "roles" => c \in {"assign", "actor"}
      BY DEF Admitted
    <3>5. /\ g \in ReqState /\ g.pc = c /\ g.seen = s /\ g.op = r.op /\ g.actor = r.actor
          /\ g.target = r.target /\ g.want = r.want /\ g.field = r.field /\ g.ver = r.ver
      BY <1>1, <3>3, <3>4 DEF ReqState, Pc
    <3>6. Informed(g)
      <4> HIDE DEF g
      <4>1. QED
        BY <1>1, <2>1, <3>3, <3>4, <3>5 DEF Informed
    <3> HIDE DEF g
    <3>7. QED
      BY <2>1, <3>1, <3>2, <3>5, <3>6, QuietStep DEF Reading
  <2>4. QED
    BY <2>2, <2>3
<1>3. CASE ReadActor(p)
  <2>1. req[p].pc = "actor" /\ guard # p
    BY <1>1, <1>3 DEF ReadActor, Guards
  <2> DEFINE r == req[p]
             g == [r EXCEPT !.mine = GetRoles(r.actor), !.pc = "target"]
  <2>2. r.actor \in User
    BY <1>1, <2>1 DEF Informed, Typed
  <2>3. GetRoles(r.actor) \subseteq Role
    BY <1>1, <2>2 DEF GetRoles, Typed
  <2>4. /\ g \in ReqState /\ g.pc = "target" /\ g.seen = r.seen /\ g.op = r.op /\ g.actor = r.actor
        /\ g.target = r.target /\ g.want = r.want /\ g.field = r.field /\ g.ver = r.ver
    BY <1>1, <2>3 DEF ReqState, Pc
  <2>5. req' = [req EXCEPT ![p] = g]
    BY <1>1, <1>3 DEF ReadActor, Typed
  <2> HIDE DEF g
  <2>6. Informed(g)
    BY <1>1, <2>1, <2>4 DEF Informed
  <2>7. QED
    BY <1>3, <2>1, <2>4, <2>5, <2>6, QuietStep DEF ReadActor, Reading
<1>4. CASE EnsureCanManage(p)
  <2>1. req[p].pc = "target" /\ guard # p
    BY <1>1, <1>4 DEF EnsureCanManage, Guards
  <2>2. CASE Refuse(p)
    BY <1>4, <2>2, RefuseStep DEF EnsureCanManage
  <2>3. CASE ~Refuse(p)
    <3>1. Goto(p, Admitted(req[p])) /\ Reading /\ UNCHANGED <<role, ops, actors>>
      BY <1>4, <2>3 DEF EnsureCanManage
    <3>2. /\ Admitted(req[p]) \in {"assign", "probe", "write"}
          /\ req[p].op \in {"update", "profile"} => Admitted(req[p]) = "write"
          /\ req[p].op = "roles" => Admitted(req[p]) = "assign"
          /\ req[p].op # "create"
      BY <1>1, <2>1 DEF Admitted, Informed
    <3>3. Admitted(req[p]) \in Pc
      BY <3>2 DEF Pc
    <3>4. QED
      BY <2>1, <3>1, <3>2, <3>3, MoveStep
  <2>4. QED
    BY <2>2, <2>3
<1>5. CASE AssignAllowed(p)
  <2>1. req[p].pc = "assign" /\ guard # p /\ req[p].op \notin {"update", "profile"}
    BY <1>1, <1>5 DEF AssignAllowed, Guards, Informed
  <2>2. CASE Refuse(p)
    BY <1>5, <2>2, RefuseStep DEF AssignAllowed
  <2>3. CASE ~Refuse(p)
    <3> DEFINE r == req[p]
               m == GetRoles(r.actor)
               c == IF r.op = "create" THEN "write" ELSE "probe"
               g == [r EXCEPT !.mine = m, !.pc = c]
    <3>1. /\ req' = [req EXCEPT ![p].mine = m, ![p].pc = c]
          /\ \A x \in r.want : CanAssignRole(m, x, Priority, Super)
          /\ Reading /\ UNCHANGED <<role, ops, actors>>
      BY <1>5, <2>3 DEF AssignAllowed
    <3>2. r.actor \in actors /\ r.actor \in User /\ r.want \subseteq Role
      BY <1>1, <2>1 DEF Informed, Typed, ReqState
    <3>3. m \subseteq Role /\ m \subseteq Seed[r.actor] \cup Reachable
      BY <1>1, <3>2 DEF GetRoles, Typed, IInv, NoEscalation
    <3>4. r.want \subseteq Reachable
      BY <1>1, <3>1, <3>2, <3>3, AssignsWithinReach DEF Typed
    <3>5. /\ g \in ReqState /\ g.pc = c /\ g.seen = r.seen /\ g.op = r.op /\ g.actor = r.actor
          /\ g.target = r.target /\ g.want = r.want /\ g.field = r.field /\ g.ver = r.ver
      BY <1>1, <3>3 DEF ReqState, Pc
    <3>6. req' = [req EXCEPT ![p] = g]
      BY <1>1, <3>1 DEF Typed
    <3> HIDE DEF g
    <3>7. Informed(g)
      BY <1>1, <2>1, <3>4, <3>5 DEF Informed
    <3>8. QED
      BY <2>1, <3>1, <3>5, <3>6, <3>7, QuietStep DEF Reading
  <2>4. QED
    BY <2>2, <2>3
<1>6. CASE Probe(p)
  <2>1. /\ req[p].pc = "probe" /\ guard # p
        /\ req[p].op \notin {"update", "profile", "create"}
    BY <1>1, <1>6 DEF Probe, Guards, Informed
  <2> DEFINE c == IF Guarded(req[p]) THEN "lock" ELSE Unlocked(req[p])
  <2>2. c \in Pc
    BY DEF Unlocked, Pc
  <2>3. Goto(p, c) /\ Reading /\ UNCHANGED <<role, ops, actors>>
    BY <1>6 DEF Probe
  <2>4. QED
    BY <2>1, <2>2, <2>3, MoveStep
<1>7. CASE AcquireSuperadminGuard(p)
  <2>1. /\ req[p].pc = "lock" /\ guard = Nobody /\ guard' = p /\ Goto(p, "count")
        /\ UNCHANGED <<row, bind, role, ops, actors, patched, escaped>>
    BY <1>7 DEF AcquireSuperadminGuard, Acquire
  <2>2. "count" \in Pc
    BY DEF Pc
  <2>3. PICK g \in ReqState :
           /\ req' = [req EXCEPT ![p] = g]
           /\ g.pc = "count" /\ g.op = req[p].op /\ g.actor = req[p].actor
           /\ g.target = req[p].target /\ g.want = req[p].want /\ g.field = req[p].field
           /\ g.ver = req[p].ver /\ g.seen = req[p].seen
    BY <1>1, <2>1, <2>2, GotoEffect
  <2>4. Informed(g)
    BY <1>1, <2>1, <2>3 DEF Informed
  <2>5. QED
    BY <2>1, <2>3, <2>4, QuietStep
<1>8. CASE CountActiveSuperadmins(p)
  <2>1. req[p].pc = "count" /\ req[p].op \notin {"update", "profile", "create"}
    BY <1>1, <1>8 DEF CountActiveSuperadmins, Informed
  <2>2. CASE Refuse(p)
    BY <1>8, <2>2, RefuseStep DEF CountActiveSuperadmins
  <2>3. CASE ~Refuse(p)
    <3>1. /\ Two /\ Goto(p, Unlocked(req[p])) /\ Reading /\ UNCHANGED <<role, ops, actors>>
      BY <1>8, <2>3, CountedTwo DEF CountActiveSuperadmins
    <3>2. Unlocked(req[p]) \in {"unbind", "write"} /\ Unlocked(req[p]) \in Pc
      BY DEF Unlocked, Pc
    <3>3. QED
      BY <2>1, <3>1, <3>2, MoveStep
  <2>4. QED
    BY <2>2, <2>3
<1>9. CASE DeleteUserRoles(p)
  <2>1. req[p].pc = "unbind"
    BY <1>9 DEF DeleteUserRoles
  <2> DEFINE r == req[p]
             b == bind[r.target]
             g == [r EXCEPT !.snap = b, !.pc = "write"]
  <2>2. r.target \in User /\ b \subseteq Role
    BY <1>1, <2>1 DEF Informed, Typed
  <2>3. /\ g \in ReqState /\ g.pc = "write" /\ g.seen = r.seen /\ g.op = r.op /\ g.actor = r.actor
        /\ g.target = r.target /\ g.want = r.want /\ g.field = r.field /\ g.ver = r.ver
    BY <1>1, <2>2 DEF ReqState, Pc
  <2>4. req' = [req EXCEPT ![p] = g]
    BY <1>1, <1>9 DEF DeleteUserRoles, Typed
  <2> HIDE DEF g
  <2>5. Informed(g)
    BY <1>1, <2>1, <2>3 DEF Informed
  <2>6. guard = p => Two \/ escaped
    BY <1>1, <2>1 DEF Guards
  <2>7. QED
    BY <1>9, <2>3, <2>4, <2>5, <2>6, QuietStep DEF DeleteUserRoles, Reading
<1>10. QED
  BY <1>2, <1>3, <1>4, <1>5, <1>6, <1>7, <1>8, <1>9

-----------------------------------------------------------------------------
\* The commits.

LEMMA Commits ==
  ASSUME IInv, NEW p \in Request,
         \/ CommitRoles(p) \/ CommitDelete(p) \/ CommitStatus(p) \/ CommitReset(p)
         \/ CommitPatch(p) \/ CommitCreate(p)
  PROVE  IInv'
<1> DEFINE r == req[p]
<1>1. r.pc = "write" /\ Commit(p)
  BY DEF CommitRoles, CommitDelete, CommitStatus, CommitReset, CommitPatch, CommitCreate
<1>2. r.target \in User /\ r \in ReqState /\ Informed(r)
  BY <1>1 DEF IInv, Typed, Informed
<1>13. PICK t \in User : t = r.target
  BY <1>2
<1>3. /\ row[t] \in UserRow /\ row[t].version \in Nat /\ bind[t] \in SUBSET Role
      /\ patched[t] \in [Field -> Nat] /\ row[t].data = patched[t]
      /\ Typed
  BY <1>2 DEF IInv, Typed, NoLostPatch, UserRow
<1>5. row[t].life = "none" => row[t] = NoRow
  BY <1>2 DEF IInv, Vacant
<1>4. /\ row \in [User -> UserRow] /\ bind \in [User -> SUBSET Role]
      /\ patched \in [User -> [Field -> Nat]]
  BY <1>3 DEF Typed
<1>6. CASE CommitRoles(p)
  <2> DEFINE b == (bind[t] \ r.snap) \cup r.want
  <2>1. r.want \subseteq Reachable /\ r.want \subseteq Role
    BY <1>1, <1>2, <1>6 DEF CommitRoles, Informed, ReqState
  <2>2. bind' = [bind EXCEPT ![t] = b] /\ row' = row /\ patched' = patched
    BY <1>13, <1>6 DEF CommitRoles
  <2>3. b \in SUBSET Role /\ b \subseteq bind[t] \cup Reachable
    BY <1>3, <2>1
  <2> HIDE DEF b
  <2>4. Writes(t)
    BY <1>13, <1>3, <1>4, <1>5, <2>2, <2>3 DEF Writes
  <2>5. QED
    BY <1>1, <2>4, CommitStep
<1>7. CASE CommitDelete(p)
  <2> DEFINE b == bind[t] \ r.snap
             w == [row[t] EXCEPT !.life = "deleted"]
  <2>1. bind' = [bind EXCEPT ![t] = b] /\ patched' = patched
    BY <1>13, <1>7 DEF CommitDelete
  <2>2. row' = [row EXCEPT ![t] = w]
    BY <1>13, <1>3, <1>7 DEF CommitDelete
  <2>3. b \in SUBSET Role /\ b \subseteq bind[t] \cup Reachable
    BY <1>3
  <2>4. w \in UserRow /\ w.data = row[t].data /\ w.version = row[t].version /\ w.life = "deleted"
    BY <1>3 DEF UserRow
  <2> HIDE DEF b, w
  <2>5. Writes(t)
    BY <1>13, <1>3, <1>4, <2>1, <2>2, <2>3, <2>4 DEF Writes
  <2>6. QED
    BY <1>1, <2>5, CommitStep
<1>8. CASE CommitStatus(p)
  <2> DEFINE w == [row[t] EXCEPT !.status = r.val]
  <2>1. bind' = bind /\ patched' = patched /\ row[t].life = "live"
    BY <1>13, <1>8 DEF CommitStatus, Live
  <2>2. row' = [row EXCEPT ![t] = w]
    BY <1>13, <1>3, <1>8 DEF CommitStatus
  <2>3. w \in UserRow /\ w.data = row[t].data /\ w.version = row[t].version /\ w.life = "live"
    BY <1>2, <1>3, <2>1 DEF UserRow, ReqState
  <2> HIDE DEF w
  <2>4. Writes(t)
    BY <1>13, <1>3, <1>4, <2>1, <2>2, <2>3 DEF Writes
  <2>5. QED
    BY <1>1, <2>4, CommitStep
<1>9. CASE CommitReset(p)
  <2> DEFINE w == [row[t] EXCEPT !.must = TRUE]
  <2>1. bind' = bind /\ patched' = patched /\ row[t].life = "live"
    BY <1>13, <1>9 DEF CommitReset, Live
  <2>2. row' = [row EXCEPT ![t] = w]
    BY <1>13, <1>3, <1>9 DEF CommitReset
  <2>3. w \in UserRow /\ w.data = row[t].data /\ w.version = row[t].version /\ w.life = "live"
    BY <1>2, <1>3, <2>1 DEF UserRow
  <2> HIDE DEF w
  <2>4. Writes(t)
    BY <1>13, <1>3, <1>4, <2>1, <2>2, <2>3 DEF Writes
  <2>5. QED
    BY <1>1, <2>4, CommitStep
<1>10. CASE CommitPatch(p)
  <2> DEFINE f == r.field
             d == [patched[t] EXCEPT ![f] = @ + 1]
             w == Patched(r)
  <2>1. /\ row' = [row EXCEPT ![t] = w] /\ bind' = bind /\ VersionMatches(r)
        /\ r.op \in {"update", "profile"} /\ r.pc # "find"
    BY <1>13, <1>1, <1>10 DEF CommitPatch
  <2>2. patched' = [patched EXCEPT ![t] = d]
    BY <1>13, <1>3, <1>10 DEF CommitPatch
  <2>3. /\ f \in Field /\ r.seen.life = "live" /\ r.seen \in UserRow /\ r.seen.version \in Nat
        /\ r.ver \in Nat
        /\ r.seen.version <= row[t].version
        /\ r.seen.version = row[t].version => r.seen.data = row[t].data
        /\ r.op = "update" => r.ver <= r.seen.version
    BY <1>13, <1>1, <1>2, <2>1 DEF Informed, ReqState, UserRow
  <2>4. r.seen.version = row[t].version
    BY <1>13, <1>3, <2>1, <2>3 DEF VersionMatches
  <2>5. r.seen.data = patched[t]
    BY <1>3, <2>3, <2>4
  <2>6. d \in [Field -> Nat]
    BY <1>3, <2>3
  <2>7. /\ w = [r.seen EXCEPT !.version = row[t].version + 1,
                             !.data = [r.seen.data EXCEPT ![f] = patched[t][f] + 1]]
    BY <1>13, <2>3 DEF Patched, UserRow
  <2>8. [r.seen.data EXCEPT ![f] = patched[t][f] + 1] = d
    BY <1>3, <2>3, <2>5
  <2>9. /\ w \in UserRow /\ w.data = d /\ w.version = row[t].version + 1 /\ w.life = "live"
    <3>1. w = [r.seen EXCEPT !.version = row[t].version + 1, !.data = d]
      BY <2>7, <2>8
    <3>2. row[t].version + 1 \in Nat
      BY <1>3
    <3> HIDE DEF d, w
    <3>3. QED
      BY <2>3, <2>6, <3>1, <3>2 DEF UserRow
  <2>10. w.version >= row[t].version /\ w.version # row[t].version
    BY <1>3, <2>9
  <2> HIDE DEF d, w
  <2>11. /\ row'[t] = w /\ patched'[t] = d
         /\ \A u \in User \ {t} : row'[u] = row[u] /\ patched'[u] = patched[u]
         /\ row' \in [User -> UserRow] /\ patched' \in [User -> [Field -> Nat]]
    BY <1>4, <2>1, <2>2, <2>6, <2>9
  <2>12. Writes(t)
    BY <1>4, <2>1, <2>9, <2>10, <2>11 DEF Writes
  <2>13. QED
    BY <1>1, <2>12, CommitStep
<1>11. CASE CommitCreate(p)
  <2>1. /\ row' = [row EXCEPT ![t] = NewUser] /\ bind' = [bind EXCEPT ![t] = r.want]
        /\ patched' = patched /\ row[t].life = "none" /\ r.op = "create"
    BY <1>13, <1>11 DEF CommitCreate
  <2>2. r.want \subseteq Reachable /\ r.want \in SUBSET Role
    BY <1>1, <1>2, <2>1 DEF Informed, ReqState
  <2>3. /\ NewUser.data = row[t].data /\ NewUser.version = row[t].version
        /\ NewUser.life = "live" /\ NewUser \in UserRow
    BY <1>5, <2>1, Types DEF NoRow, NewUser
  <2>4. Writes(t)
    BY <1>13, <1>3, <1>4, <2>1, <2>2, <2>3 DEF Writes
  <2>5. QED
    BY <1>1, <2>4, CommitStep
<1>12. QED
  BY <1>6, <1>7, <1>8, <1>9, <1>10, <1>11

\* Roles other than superadmin change, and with them the ranks of users.
LEMMA RoleStep ==
  ASSUME IInv, NEW r \in Role, RoleChange(r)
  PROVE  IInv'
<1>1. /\ UNCHANGED <<row, bind, guard, req, actors, patched, escaped>> /\ r # Super
      /\ \E s \in {"on", "off", "deleted"} : role' = [role EXCEPT ![r] = s]
  BY DEF RoleChange, RoleIsSystem
<1>2. role' \in [Role -> {"on", "off", "deleted"}] /\ role'[Super] = role[Super]
  BY <1>1, UserAssumption DEF IInv, Typed
<1>3. ActiveSupers' = ActiveSupers
  BY <1>1, <1>2, SupersSame
<1>4. Typed' /\ guard' \in Request \cup {Nobody} /\ Vacant' /\ NoLostPatch'
  BY <1>1, <1>2 DEF IInv, Typed, Vacant, NoLostPatch
<1>5. ASSUME NEW p \in Request
      PROVE  Informed(req[p])' /\ Guards(p)'
  BY <1>1, <1>3 DEF IInv, Informed, Reachable, Guards, Two
<1>6. SuperadminRemains' /\ NoEscalation'
  BY <1>1, <1>3 DEF IInv, SuperadminRemains, NoEscalation, Reachable
<1>7. QED
  BY <1>4, <1>5, <1>6 DEF IInv

-----------------------------------------------------------------------------
\* The invariant.

LEMMA Initially == Init => IInv
<1>1. SUFFICES ASSUME Init PROVE IInv
  OBVIOUS
<1>2. Typed /\ guard = Nobody
  BY <1>1, Types, UserAssumption DEF Init, Typed
<1>3. \A p \in Request : Informed(req[p]) /\ Guards(p)
  BY <1>1, Types, UserAssumption DEF Init, Informed, Guards
<1>4. Vacant
  BY <1>1 DEF Init, Vacant, NewUser, NoRow
<1>5. SuperadminRemains
  <2>1. PICK u \in User \ Fresh : Super \in Seed[u]
    BY UserAssumption
  <2>2. row[u] = NewUser /\ bind[u] = Seed[u] /\ role[Super] = "on"
    BY <1>1, <1>2 DEF Init, Typed
  <2>3. u \in ActiveSupers
    BY <2>1, <2>2, UserAssumption DEF ActiveSupers, Live, IsSuperadminUser, GetRoles, NewUser
  <2>4. QED
    BY <2>3 DEF SuperadminRemains
<1>6. NoEscalation
  BY <1>1 DEF Init, NoEscalation
<1>7. NoLostPatch
  BY <1>1 DEF Init, NoLostPatch, NewUser, NoRow
<1>8. QED
  BY <1>2, <1>3, <1>4, <1>5, <1>6, <1>7 DEF IInv

LEMMA Inductive == IInv /\ [Next]_vars => IInv'
<1>1. SUFFICES ASSUME IInv, [Next]_vars PROVE IInv'
  OBVIOUS
<1>2. CASE UNCHANGED vars
  <2>1. UNCHANGED <<row, bind, role, guard, req, actors, patched, escaped>>
    BY <1>2 DEF vars
  <2>2. ActiveSupers' = ActiveSupers
    BY <2>1, SupersSame
  <2>3. QED
    BY <1>1, <2>1, <2>2 DEF IInv, Typed, Informed, Guards, Two, Vacant, SuperadminRemains,
                            NoEscalation, NoLostPatch, Reachable
<1>3. ASSUME NEW p \in Request,
             \/ Create(p) \/ Update(p) \/ UpdateProfile(p) \/ Delete(p) \/ UpdateStatus(p)
             \/ SetRoles(p) \/ ResetPassword(p)
      PROVE  IInv'
  BY <1>1, <1>3, Arrivals
<1>4. ASSUME NEW p \in Request, Step(p) PROVE IInv'
  <2>1. CASE RollBack(p)
    BY <1>1, <2>1, RefuseStep DEF RollBack
  <2>2. CASE \/ CommitRoles(p) \/ CommitDelete(p) \/ CommitStatus(p) \/ CommitReset(p)
             \/ CommitPatch(p) \/ CommitCreate(p)
    BY <1>1, <2>2, Commits
  <2>3. CASE \/ FindByID(p) \/ ReadActor(p) \/ EnsureCanManage(p) \/ AssignAllowed(p)
             \/ Probe(p) \/ AcquireSuperadminGuard(p) \/ CountActiveSuperadmins(p)
             \/ DeleteUserRoles(p)
    BY <1>1, <2>3, Reads
  <2>4. QED
    BY <1>4, <2>1, <2>2, <2>3 DEF Step
<1>5. ASSUME NEW r \in Role, RoleChange(r) PROVE IInv'
  BY <1>1, <1>5, RoleStep
<1>6. QED
  BY <1>1, <1>2, <1>3, <1>4, <1>5 DEF Next

THEOREM Invariance == Spec => []IInv
  BY Initially, Inductive, PTL DEF Spec

Counted == ops \in 0..MaxOps

LEMMA OpsStep == Counted /\ [Next]_vars => Counted'
<1>1. SUFFICES ASSUME Counted, [Next]_vars
               PROVE  ops' = ops \/ (ops < MaxOps /\ ops' = ops + 1)
  BY UserAssumption DEF Counted
<1>2. CASE UNCHANGED vars
  BY <1>2 DEF vars
<1>3. ASSUME NEW p \in Request,
             \/ Create(p) \/ Update(p) \/ UpdateProfile(p) \/ Delete(p) \/ UpdateStatus(p)
             \/ SetRoles(p) \/ ResetPassword(p)
      PROVE  ops < MaxOps /\ ops' = ops + 1
  BY <1>3 DEF Create, Update, UpdateProfile, Delete, UpdateStatus, SetRoles, ResetPassword, Start
<1>4. ASSUME NEW p \in Request, Step(p) PROVE ops' = ops
  BY <1>4 DEF Step, FindByID, ReadActor, EnsureCanManage, AssignAllowed, Probe,
              AcquireSuperadminGuard, CountActiveSuperadmins, DeleteUserRoles, CommitRoles,
              CommitDelete, CommitStatus, CommitReset, CommitPatch, CommitCreate, Commit, RollBack
<1>5. ASSUME NEW r \in Role, RoleChange(r) PROVE ops < MaxOps /\ ops' = ops + 1
  BY <1>5 DEF RoleChange
<1>6. QED
  BY <1>1, <1>2, <1>3, <1>4, <1>5 DEF Next

\* Accounts, bindings and requests keep their types, and only a request that
\* is about to take superadmin away holds the guard.
THEOREM TypeCorrect == Spec => []TypeOK
<1>1. Init => Counted
  BY UserAssumption DEF Init, Counted
<1>2. Spec => []Counted
  BY <1>1, OpsStep, PTL DEF Spec
<1>3. IInv /\ Counted => TypeOK
  <2>1. SUFFICES ASSUME IInv PROVE \A p \in Request : req[p].pc \in Pc /\ req[p].op \in Op
    BY DEF IInv, Typed, Guards, TypeOK, Counted
  <2>2. QED
    BY <2>1 DEF IInv, Typed, ReqState
<1>4. QED
  BY Invariance, <1>2, <1>3, PTL

\* A superadmin remains whatever administrators do at the same time, unless
\* one was lost in a commit that had not found its target to be one
\* (assertNotLastActiveSuperadmin and its advisory lock).
THEOREM GuardKeepsSuperadmin == Spec => []SuperadminRemains
<1>1. IInv => SuperadminRemains
  BY DEF IInv
<1>2. QED
  BY Invariance, <1>1, PTL

\* No sequence of role assignments leads beyond what the actors started with
\* (AssertCanAssignRole and AssertCanManageTarget).
THEOREM RanksStayWithin == Spec => []NoEscalation
<1>1. IInv => NoEscalation
  BY DEF IInv
<1>2. QED
  BY Invariance, <1>1, PTL

\* Patches of different columns do not undo each other (the version in the
\* UPDATE of UserRepo.Update).
THEOREM PatchesAreKept == Spec => []NoLostPatch
<1>1. IInv => NoLostPatch
  BY DEF IInv
<1>2. QED
  BY Invariance, <1>1, PTL

\* The list and the details hide the same users (List and ensureVisible).
THEOREM ListingAgrees == Spec => []ListMatchesGet
<1>1. IInv => ListMatchesGet
  BY UserAssumption DEF IInv, Typed, ListMatchesGet, List, ListHides, EnsureVisible,
                        IsSuperadminUser, GetRoles, Live
<1>2. QED
  BY Invariance, <1>1, PTL
=============================================================================
