-------------------------- MODULE PolicyJobsProofs --------------------------
(***************************************************************************)
(* Proofs about the administration and what runs in the background.  First *)
(* RolePolicy, for any roles, menus, users and requests; then AuditArchive *)
(* ("The archive"), for any number of replicas, rows, failures, stops and  *)
(* callbacks, and any batch size; then JobsCallback ("The callbacks"), for *)
(* any number of tasks, callbacks and actions, any lease and any stretch   *)
(* of time.  The three share no variable.                                  *)
(***************************************************************************)
EXTENDS RolePolicy, AuditArchive, JobsCallback, FiniteSetTheorems, SequenceTheorems, TLAPS

-----------------------------------------------------------------------------
(***************************************************************************)
(* Roles and policies: the inductive invariant.                            *)
(*                                                                         *)
(* The types of the tables and of a request, by the step it is at.         *)
(***************************************************************************)
RoleType == [life : {"none", "live", "deleted"}, prio : Nat, on : BOOLEAN,
             parent : Role \cup {NoRole}, version : Nat]
Editing == {"rank", "children", "parent", "walk", "write"}
Walking == {"walk", "write"}
Replacing == {"delMenus", "lockMenus"} \cup Writing
Snapped == {"lockMenus"} \cup Writing
Cleared == {"lockRules", "insRules", "commit"}
Inserted == {"delRules"} \cup Cleared
Waiting == {"idle", "find", "reload", "install"}
Steps == Waiting \cup {"manage", "users"} \cup Editing \cup Replacing
RequestType ==
  [op : Op, pc : Steps, actor : User \cup {Nobody}, r : Role \cup {NoRole}, prio : Nat,
   parent : Role \cup {NoRole}, on : BOOLEAN, ver : Nat, cur : Role \cup {NoRole},
   visited : SUBSET Role, seen : Nat, want : SUBSET Menu,
   snapM : SUBSET Menu, put : SUBSET Menu, met : SUBSET Menu,
   snapC : SUBSET Api, putC : SUBSET Api, metC : SUBSET Api,
   tries : 0..1, loaded : [Code -> SUBSET Api], late : BOOLEAN]
StepsFit(q) ==
  /\ q.pc \notin {"idle", "reload", "install"} => q.r \in Role
  /\ q.pc \in {"find", "manage"} => q.op # "create"
  /\ q.pc \in Editing => q.op \in {"create", "update"}
  /\ q.pc = "children" => q.op = "update"
  /\ q.pc \in {"parent", "walk"} => q.parent # NoRole
  /\ q.pc = "walk" => q.cur # NoRole
  /\ q.pc = "users" => q.op = "delete"
  /\ q.pc \in Replacing => q.op \in {"delete", "assign"}
  /\ q.op = "delete" => q.want = {}
  /\ q.put \subseteq q.want /\ q.met \subseteq q.want /\ q.putC \subseteq ApisOf(q.want)
  /\ q.pc \notin Writing => q.put = {} /\ q.met = {}
  /\ q.pc \in Inserted => q.want \subseteq q.put \cup q.met
  /\ q.pc \notin Cleared \/ q.r \in Bypass => q.snapC = {} /\ q.putC = {}
  /\ q.pc \in {"delRules", "lockRules", "insRules"} => q.r \notin Bypass
PolicyTypeInv ==
  /\ role \in [Role -> RoleType]
  /\ menus \in [Role -> SUBSET Menu]
  /\ rules \in [Code -> SUBSET Api] /\ mem \in [Code -> SUBSET Api]
  /\ req \in [Request -> RequestType]
  /\ \A p \in Request : StepsFit(req[p])
  /\ actors \subseteq User
  /\ overlapped \in BOOLEAN /\ behind \in BOOLEAN

(* Two transactions never write one row of role_menus, and what one of     *)
(* them has found in place stays in place, unless the code has slipped.    *)
Separate ==
  \A p \in Request, q \in Request : p # q => MenuRows(req[p]) \cap MenuRows(req[q]) = {}
Relied ==
  \A p \in Request :
    req[p].pc \in Writing /\ CodeOf[req[p].r] \notin slipped =>
      /\ req[p].met \subseteq menus[req[p].r] \ req[p].snapM
      /\ \A q \in Request :
           q # p /\ req[q].pc \in Writing /\ req[q].r = req[p].r =>
             req[p].met \cap req[q].snapM = {}

(* Every rule has a menu behind it, whose role has the code of the rule,   *)
(* such that whoever has deleted this menu has deleted the rule as well.   *)
Stands(x, m, i) ==
  \A p \in Request :
    req[p].pc \in Cleared /\ req[p].r = x /\ m \in req[p].snapM => i \in req[p].snapC
RuleBehind(x, m, c, i) == CodeOf[x] = c /\ m \in menus[x] /\ i \in Apis[m] /\ Stands(x, m, i)
Covered ==
  \A c \in Code, i \in Api :
    c \notin {CodeOf[b] : b \in Bypass} \cup slipped /\ i \in rules[c] =>
      \E x \in Role, m \in Menu : RuleBehind(x, m, c, i)

(* What a reload has read are the rules, or a commit has come since.       *)
Read == \A p \in Request : req[p].pc = "install" /\ ~req[p].late => req[p].loaded = rules

(* Codes are unique among the roles that are there, and a role that is the *)
(* parent of another has been created.                                     *)
Known ==
  /\ \A r \in Role, s \in Role : Live(r) /\ Live(s) /\ CodeOf[r] = CodeOf[s] => r = s
  /\ \A r \in Role : role[r].parent # NoRole => role[role[r].parent].life # "none"
  /\ \A p \in Request :
       req[p].pc \in Walking /\ req[p].parent # NoRole => role[req[p].parent].life # "none"

(* What a request has read still holds, as long as no requests overlapped. *)
StillThere(q) ==
  /\ q.op # "create" /\ q.pc \notin Waiting => Live(q.r)
  /\ q.op = "delete" /\ q.pc \in Snapped => q.snapM = menus[q.r]
StillRanked(q) ==
  /\ q.op = "update" /\ q.pc \in {"parent", "walk", "write"} => ChildrenAllow(q.r, q.prio)
  /\ q.pc \in Walking /\ q.parent # NoRole =>
       q.parent # q.r /\ q.prio <= role[q.parent].prio
Way(q) == q.visited \ {q.r}
StillClimbing(q) ==
  q.pc \in Walking /\ q.parent # NoRole =>
    /\ q.r \in q.visited /\ (q.pc = "write" => q.cur = NoRole)
    /\ q.parent \in Way(q) \cup {q.cur}
    /\ \A x \in Way(q) : role[x].parent \in Way(q) \cup {q.cur, NoRole}
Serial ==
  ~overlapped =>
    /\ \A x \in Role : ~Live(x) => menus[x] = {}
    /\ \A p \in Request :
         StillThere(req[p]) /\ StillRanked(req[p]) /\ StillClimbing(req[p])

PolicyInv ==
  /\ PolicyTypeInv /\ Separate /\ Relied /\ Covered /\ Read /\ Known /\ Serial
  /\ SerialEditsKeepHierarchy

-----------------------------------------------------------------------------
(* What can be reached.                                                    *)

LEMMA ReachIsIn == ASSUME NEW N, NEW S, NEW E PROVE Reach(N, S, E) \subseteq N
BY DEF Reach

LEMMA ReachHas == ASSUME NEW N, NEW S, NEW E PROVE S \cap N \subseteq Reach(N, S, E)
BY DEF Reach

LEMMA ReachIsClosed ==
  ASSUME NEW N, NEW S, NEW E, NEW x \in Reach(N, S, E), NEW y \in N, <<x, y>> \in E
  PROVE  y \in Reach(N, S, E)
<1>1. ASSUME NEW T \in SUBSET N, S \subseteq T, \A e \in E : e[1] \in T => e[2] \in T
      PROVE  y \in T
  <2>1. x \in T
    BY <1>1 DEF Reach
  <2>2. <<x, y>>[1] \in T => <<x, y>>[2] \in T
    BY <1>1
  <2>3. QED
    BY <2>1, <2>2
<1>2. QED
  BY <1>1 DEF Reach

LEMMA ReachIsLeast ==
  ASSUME NEW N, NEW S, NEW E, NEW T, S \subseteq T, T \subseteq N,
         \A e \in E : e[1] \in T => e[2] \in T
  PROVE  Reach(N, S, E) \subseteq T
BY DEF Reach

(* More edges, and more nodes to start from, reach more. *)
LEMMA ReachGrows ==
  ASSUME NEW N, NEW S, NEW E, NEW D, D \subseteq E, S \subseteq N, E \subseteq N \X N
  PROVE  Reach(N, S, D) \subseteq Reach(N, S, E)
<1>1. S \subseteq Reach(N, S, E) /\ Reach(N, S, E) \subseteq N
  BY ReachHas, ReachIsIn
<1>2. ASSUME NEW e \in D, e[1] \in Reach(N, S, E)
      PROVE  e[2] \in Reach(N, S, E)
  <2>1. e \in E /\ e \in N \X N
    OBVIOUS
  <2>2. e = <<e[1], e[2]>> /\ e[2] \in N
    BY <2>1
  <2>3. QED
    BY <1>2, <2>1, <2>2, ReachIsClosed
<1>3. QED
  BY <1>1, <1>2, ReachIsLeast

(* The ancestors of a role along the parents P. *)
LEMMA AncestorsAreClosed ==
  ASSUME NEW P \in [Role -> Role \cup {NoRole}], NEW s \in Role
  PROVE  /\ AncestorsIn(P, s) \subseteq Role
         /\ P[s] # NoRole => P[s] \in AncestorsIn(P, s)
         /\ \A x \in AncestorsIn(P, s) : P[x] # NoRole => P[x] \in AncestorsIn(P, s)
<1>1. AncestorsIn(P, s) \subseteq Role
  BY ReachIsIn DEF AncestorsIn
<1>2. P[s] # NoRole => P[s] \in AncestorsIn(P, s)
  <2>1. ({P[s]} \ {NoRole}) \cap Role \subseteq AncestorsIn(P, s)
    BY ReachHas DEF AncestorsIn
  <2>2. QED
    BY <2>1
<1>3. ASSUME NEW x \in AncestorsIn(P, s), P[x] # NoRole
      PROVE  P[x] \in AncestorsIn(P, s)
  <2>1. x \in Role /\ P[x] \in Role
    BY <1>1, <1>3
  <2>2. <<x, P[x]>> \in UpLinks(P)
    BY <2>1, <1>3 DEF UpLinks
  <2>3. QED
    BY <2>1, <2>2, ReachIsClosed DEF AncestorsIn
<1>4. QED
  BY <1>1, <1>2, <1>3

LEMMA AncestorsAreLeast ==
  ASSUME NEW P \in [Role -> Role \cup {NoRole}], NEW s \in Role, NEW T, T \subseteq Role,
         P[s] \in T \cup {NoRole}, \A x \in T : P[x] \in T \cup {NoRole}
  PROVE  AncestorsIn(P, s) \subseteq T
<1>1. {P[s]} \ {NoRole} \subseteq T
  OBVIOUS
<1>2. ASSUME NEW e \in UpLinks(P), e[1] \in T
      PROVE  e[2] \in T
  <2>1. PICK x \in Role : P[x] # NoRole /\ e = <<x, P[x]>>
    BY DEF UpLinks
  <2>2. e[1] = x /\ e[2] = P[x]
    BY <2>1
  <2>3. QED
    BY <1>2, <2>1, <2>2
<1>3. QED
  BY <1>1, <1>2, ReachIsLeast DEF AncestorsIn

(* A role r that gets a parent n whose chain W does not lead to r closes   *)
(* no cycle.                                                               *)
LEMMA NoNewCycle ==
  ASSUME NEW P \in [Role -> Role \cup {NoRole}], NEW r \in Role, NEW n \in Role \cup {NoRole},
         NEW W \in SUBSET Role, r \notin W, n \in W \cup {NoRole},
         \A x \in W : P[x] \in W \cup {NoRole},
         \A s \in Role : s \notin AncestorsIn(P, s),
         NEW Q \in [Role -> Role \cup {NoRole}], Q = [P EXCEPT ![r] = n]
  PROVE  \A s \in Role : s \notin AncestorsIn(Q, s)
<1> TAKE s \in Role
<1>1. Q[r] = n /\ \A x \in Role \ {r} : Q[x] = P[x]
  OBVIOUS
<1>2. CASE s \in W
  <2>1. AncestorsIn(P, s) \subseteq W
    BY <1>2, AncestorsAreLeast
  <2>2. AncestorsIn(Q, s) \subseteq AncestorsIn(P, s)
    <3>1. s # r /\ r \notin AncestorsIn(P, s)
      BY <1>2, <2>1
    <3>2. Q[s] \in AncestorsIn(P, s) \cup {NoRole}
      BY <1>1, <3>1, AncestorsAreClosed
    <3>3. \A x \in AncestorsIn(P, s) : Q[x] \in AncestorsIn(P, s) \cup {NoRole}
      BY <1>1, <3>1, AncestorsAreClosed
    <3>4. QED
      BY <3>2, <3>3, AncestorsAreClosed, AncestorsAreLeast
  <2>3. QED
    BY <2>2
<1>3. CASE s \notin W
  <2> DEFINE T == AncestorsIn(P, s) \cup W
  <2>1. T \subseteq Role
    BY AncestorsAreClosed
  <2>2. Q[s] \in T \cup {NoRole}
    BY <1>1, AncestorsAreClosed
  <2>3. \A x \in T : Q[x] \in T \cup {NoRole}
    BY <1>1, <2>1, AncestorsAreClosed
  <2>4. AncestorsIn(Q, s) \subseteq T
    <3> HIDE DEF T
    <3> QED
      BY <2>1, <2>2, <2>3, AncestorsAreLeast
  <2>5. QED
    BY <1>3, <2>4
<1>4. QED
  BY <1>2, <1>3

(* Every node of a set of menus M hangs below a root of it. *)
LEMMA TreeIsWhole ==
  ASSUME NEW M \in SUBSET Menu
  PROVE  BuildMenuTree(M) = M
<1> DEFINE T == BuildMenuTree(M)
           E == {<<MenuParent[m], m>> : m \in M}
<1>1. T \subseteq M /\ Roots(M) \subseteq T
  BY ReachIsIn, ReachHas DEF BuildMenuTree, Roots
<1>2. ASSUME NEW m \in M, MenuParent[m] \in T
      PROVE  m \in T
  BY <1>2, ReachIsClosed DEF BuildMenuTree
<1>3. M \ T = {}
  <2>1. SUFFICES ASSUME M \ T # {} PROVE FALSE
    OBVIOUS
  <2>2. M \ T \in (SUBSET Menu) \ {{}}
    BY <2>1
  <2>3. PICK m \in M \ T : MenuParent[m] \notin M \ T
    <3> HIDE DEF T
    <3> QED
      BY <2>2, PolicyAssumption
  <2>4. MenuParent[m] \notin M
    BY <1>2, <2>3
  <2>5. m \in Roots(M)
    BY <2>3, <2>4 DEF Roots
  <2>6. QED
    BY <1>1, <2>3, <2>5
<1>4. QED
  BY <1>1, <1>3

-----------------------------------------------------------------------------
(* The steps by their kind: a request reads and goes on, is refused,       *)
(* deletes or inserts menus, edits a role, commits or reloads.             *)
SameGoal(q, s) ==
  s.op = q.op /\ s.r = q.r /\ s.prio = q.prio /\ s.parent = q.parent /\ s.want = q.want
SameMenus(q, s) == SameGoal(q, s) /\ s.snapM = q.snapM /\ s.put = q.put /\ s.met = q.met
SameDemand(q, s) == SameMenus(q, s) /\ s.snapC = q.snapC /\ s.putC = q.putC
Reads(p, s) == req' = [req EXCEPT ![p] = s] /\ UNCHANGED Tables
Comes(q, s) ==
  /\ q.pc = "idle" /\ s.pc \in {"find", "rank"}
  /\ s.pc = "rank" => s.op = "create"
IsFound(q, s) == q.pc = "find" /\ s.pc = "manage" /\ Live(q.r) /\ SameDemand(q, s)
IsManaged(q, s) == q.pc = "manage" /\ s.pc \in {"rank", "users", "delMenus"} /\ SameDemand(q, s)
IsRanked(q, s) ==
  /\ q.pc = "rank" /\ SameDemand(q, s)
  /\ q.op = "update" => s.pc = "children"
  /\ q.op # "update" => s.pc = IF q.parent = NoRole THEN "write" ELSE "parent"
HasWeaker(q, s) ==
  /\ q.pc = "children" /\ SameDemand(q, s) /\ ChildrenAllow(q.r, q.prio)
  /\ s.pc = IF q.parent = NoRole THEN "write" ELSE "parent"
HasParent(q, s) ==
  /\ q.pc = "parent" /\ SameDemand(q, s) /\ ParentAllowed(q)
  /\ s.pc = "walk" /\ s.cur = q.parent /\ s.visited = {q.r}
Climbs(q, s) ==
  /\ q.pc = "walk" /\ SameDemand(q, s) /\ ~ClosesCycle(q) /\ Live(q.cur)
  /\ s.visited = q.visited \cup {q.cur} /\ s.cur = role[q.cur].parent
  /\ s.pc = IF role[q.cur].parent = NoRole THEN "write" ELSE "walk"
IsCounted(q, s) == q.pc = "users" /\ s.pc = "delMenus" /\ SameDemand(q, s)
DropsMenus(q, s) ==
  q.pc = "delMenus" /\ s.pc = "lockMenus" /\ SameGoal(q, s) /\ s.snapM = menus[q.r]
DropsRules(q, s) ==
  /\ q.pc = "delRules" /\ s.pc = "lockRules" /\ SameMenus(q, s)
  /\ s.snapC = rules[CodeOf[q.r]]
PutsRules(q, s) ==
  /\ q.pc \in {"lockRules", "insRules"} /\ s.pc \in {"insRules", "commit"} /\ SameMenus(q, s)
  /\ s.snapC = q.snapC
Onward(q, s) ==
  \/ Comes(q, s) \/ IsFound(q, s) \/ IsManaged(q, s) \/ IsRanked(q, s) \/ HasWeaker(q, s)
  \/ HasParent(q, s) \/ Climbs(q, s) \/ IsCounted(q, s) \/ DropsMenus(q, s) \/ DropsRules(q, s)
  \/ PutsRules(q, s)
Moves(p) == \E s \in RequestType : Reads(p, s) /\ StepsFit(s) /\ Onward(req[p], s)
Refused(p) == Refuse(p) /\ req[p].pc \notin {"idle", "reload", "install"}

Blank(q) == q.put = {} /\ q.met = {} /\ q.snapC = {} /\ q.putC = {}

LEMMA IdleIsBlank == Blank(IdleReq)
BY DEF Blank, IdleReq

LEMMA IdleReqIsTyped == PolicyTypeInv => IdleReq \in RequestType /\ StepsFit(IdleReq)
BY DEF IdleReq, RequestType, StepsFit, Op, Steps, Waiting, Editing, Replacing, Writing, Inserted,
   Cleared

LEMMA ReloadIsTyped ==
  ASSUME PolicyTypeInv, NEW s, s = [IdleReq EXCEPT !.pc = "reload"]
  PROVE  s \in RequestType /\ StepsFit(s) /\ s.pc = "reload"
<1>1. s \in RequestType /\ s.pc = "reload" /\ Blank(s)
  BY IdleReqIsTyped, IdleIsBlank DEF RequestType, Steps, Waiting, Blank
<1>2. s.op = "assign"
  BY IdleReqIsTyped DEF RequestType, IdleReq
<1>3. QED
  BY <1>1, <1>2 DEF StepsFit, Blank, Editing, Replacing, Writing, Inserted, Cleared

LEMMA RequestIsTyped ==
  ASSUME PolicyTypeInv, NEW p \in Request
  PROVE  req[p] \in RequestType /\ StepsFit(req[p])
BY DEF PolicyTypeInv

LEMMA CodesAndRoles ==
  ASSUME PolicyTypeInv
  PROVE  /\ \A r \in Role : CodeOf[r] \in Code /\ role[r] \in RoleType /\ menus[r] \in SUBSET Menu
         /\ \A r \in Role : rules[CodeOf[r]] \in SUBSET Api /\ role[r].prio \in Nat
                            /\ role[r].parent \in Role \cup {NoRole} /\ role[r].version \in Nat
BY PolicyAssumption DEF PolicyTypeInv, Code, RoleType

LEMMA CheckedStep ==
  ASSUME NEW p \in Request, NEW ok, NEW pc, Check(p, ok, pc),
         req[p].pc \notin {"idle", "reload", "install"}
  PROVE  \/ ok /\ req' = [req EXCEPT ![p] = [req[p] EXCEPT !.pc = pc]] /\ UNCHANGED Tables
         \/ Refused(p)
BY DEF Check, Goto, Refused

LEMMA StartStep ==
  ASSUME PolicyTypeInv, NEW p \in Request,
         CreateRole(p) \/ UpdateRole(p) \/ DeleteRole(p) \/ AssignMenus(p)
  PROVE  Moves(p)
<1>1. IdleReq \in RequestType /\ IdleReq.want = {} /\ Blank(IdleReq)
  BY IdleReqIsTyped, IdleIsBlank DEF IdleReq
<1>2. actors \subseteq User /\ Target \subseteq Role /\ Prio \subseteq Nat
      /\ Parents \subseteq Role \cup {NoRole} /\ MenuLists \subseteq SUBSET Menu
  BY PolicyAssumption DEF PolicyTypeInv
<1>3. PICK s : /\ Start(p, s) /\ s \in RequestType /\ StepsFit(s) /\ s.pc \in {"find", "rank"}
               /\ s.pc = "rank" => s.op = "create"
  <2>1. CASE CreateRole(p)
    <3>1. PICK a \in actors, r \in Target, n \in Prio, q \in Parents :
            Start(p, CreateRequest(a, r, n, q))
      BY <2>1 DEF CreateRole
    <3>2. a \in User /\ r \in Role /\ n \in Nat /\ q \in Role \cup {NoRole}
      BY <1>2
    <3>3. PICK s : s = CreateRequest(a, r, n, q)
      OBVIOUS
    <3>4. s \in RequestType /\ s.pc = "rank" /\ s.op = "create" /\ s.r = r /\ Blank(s)
      BY <3>2, <3>3, <1>1 DEF CreateRequest, RequestType, Blank, Op, Steps, Editing
    <3>5. StepsFit(s)
      BY <3>2, <3>4 DEF StepsFit, Blank, Editing, Replacing, Writing, Inserted, Cleared
    <3>6. QED
      BY <3>1, <3>3, <3>4, <3>5
  <2>2. CASE UpdateRole(p)
    <3>1. PICK a \in actors, r \in Target, n \in Prio, q \in Parents, o \in BOOLEAN :
            Start(p, UpdateRequest(a, r, n, q, o))
      BY <2>2 DEF UpdateRole
    <3>2. a \in User /\ r \in Role /\ n \in Nat /\ q \in Role \cup {NoRole} /\ role[r].version \in Nat
      BY <1>2, CodesAndRoles
    <3>3. PICK s : s = UpdateRequest(a, r, n, q, o)
      OBVIOUS
    <3>4. s \in RequestType /\ s.pc = "find" /\ s.op = "update" /\ s.r = r /\ Blank(s)
      BY <3>2, <3>3, <1>1 DEF UpdateRequest, RequestType, Blank, Op, Steps, Waiting
    <3>5. StepsFit(s)
      BY <3>2, <3>4 DEF StepsFit, Blank, Editing, Replacing, Writing, Inserted, Cleared
    <3>6. QED
      BY <3>1, <3>3, <3>4, <3>5
  <2>3. CASE DeleteRole(p)
    <3>1. PICK a \in actors, r \in Target : Start(p, DeleteRequest(a, r))
      BY <2>3 DEF DeleteRole
    <3>2. a \in User /\ r \in Role
      BY <1>2
    <3>3. PICK s : s = DeleteRequest(a, r)
      OBVIOUS
    <3>4. s \in RequestType /\ s.pc = "find" /\ s.op = "delete" /\ s.r = r /\ s.want = {} /\ Blank(s)
      BY <3>2, <3>3, <1>1 DEF DeleteRequest, RequestType, Blank, Op, Steps, Waiting
    <3>5. StepsFit(s)
      BY <3>2, <3>4 DEF StepsFit, Blank, Editing, Replacing, Writing, Inserted, Cleared
    <3>6. QED
      BY <3>1, <3>3, <3>4, <3>5
  <2>4. CASE AssignMenus(p)
    <3>1. PICK a \in actors, r \in Target, w \in MenuLists : Start(p, AssignMenusRequest(a, r, w))
      BY <2>4 DEF AssignMenus
    <3>2. a \in User /\ r \in Role /\ w \in SUBSET Menu
      BY <1>2
    <3>3. PICK s : s = AssignMenusRequest(a, r, w)
      OBVIOUS
    <3>4. s \in RequestType /\ s.pc = "find" /\ s.op = "assign" /\ s.r = r /\ Blank(s)
      BY <3>2, <3>3, <1>1 DEF AssignMenusRequest, RequestType, Blank, Op, Steps, Waiting
    <3>5. StepsFit(s)
      BY <3>2, <3>4 DEF StepsFit, Blank, Editing, Replacing, Writing, Inserted, Cleared
    <3>6. QED
      BY <3>1, <3>3, <3>4, <3>5
  <2>5. QED
    BY <2>1, <2>2, <2>3, <2>4
<1>4. req[p].pc = "idle" /\ req' = [req EXCEPT ![p] = s] /\ UNCHANGED Tables
  BY <1>3 DEF Start
<1>5. QED
  BY <1>3, <1>4 DEF Moves, Reads, Onward, Comes

LEMMA FindStep ==
  ASSUME PolicyTypeInv, NEW p \in Request, FindByID(p)
  PROVE  Moves(p) \/ Refused(p)
<1>1. PICK q \in RequestType : q = req[p] /\ StepsFit(q)
  BY RequestIsTyped
<1>2. q.pc = "find" /\ q.r \in Role
  BY <1>1 DEF FindByID, StepsFit
<1>3. CASE Live(q.r) /\ (q.r \in SystemRole => q.op = "assign")
  <2>1. PICK s : s = [q EXCEPT !.pc = "manage", !.seen = role[q.r].prio]
    OBVIOUS
  <2>2. Reads(p, s)
    BY <1>1, <1>3, <2>1 DEF FindByID, Reads, PolicyTypeInv
  <2>3. s \in RequestType /\ IsFound(q, s)
    BY <1>2, <1>3, <2>1, CodesAndRoles DEF RequestType, Steps, Waiting, IsFound, SameDemand,
       SameMenus, SameGoal
  <2>4. StepsFit(s)
    BY <1>1, <1>2, <2>3 DEF StepsFit, IsFound, SameDemand, SameMenus, SameGoal, Editing,
       Replacing, Writing, Inserted, Cleared
  <2>5. QED
    BY <1>1, <2>2, <2>3, <2>4 DEF Moves, Onward
<1>4. CASE ~(Live(q.r) /\ (q.r \in SystemRole => q.op = "assign"))
  BY <1>1, <1>2, <1>4 DEF FindByID, Refused
<1>5. QED
  BY <1>3, <1>4

LEMMA ManageStep ==
  ASSUME PolicyTypeInv, NEW p \in Request, EnsureCanManageRole(p)
  PROVE  Moves(p) \/ Refused(p)
<1>1. PICK q \in RequestType : q = req[p] /\ StepsFit(q)
  BY RequestIsTyped
<1>2. q.pc = "manage" /\ q.r \in Role /\ q.op \in {"update", "delete", "assign"}
  BY <1>1 DEF EnsureCanManageRole, StepsFit, RequestType, Op
<1>3. PICK to : /\ to = CASE q.op = "update" -> "rank"
                          [] q.op = "delete" -> "users"
                          [] q.op = "assign" -> "delMenus"
                /\ \E ok : Check(p, ok, to)
  BY <1>1 DEF EnsureCanManageRole
<1>4. /\ q.op = "update" => to = "rank"
      /\ q.op = "delete" => to = "users"
      /\ q.op = "assign" => to = "delMenus"
  BY <1>3
<1>5. SUFFICES ASSUME req' = [req EXCEPT ![p] = [q EXCEPT !.pc = to]], UNCHANGED Tables
               PROVE  Moves(p)
  BY <1>1, <1>2, <1>3, CheckedStep
<1>6. PICK s : s = [q EXCEPT !.pc = to]
  OBVIOUS
<1>7. s \in RequestType /\ IsManaged(q, s) /\ s.pc = to
  BY <1>2, <1>4, <1>6 DEF RequestType, Steps, Editing, Replacing, Writing, Inserted, Cleared,
     IsManaged, SameDemand, SameMenus, SameGoal
<1>8. StepsFit(s)
  BY <1>1, <1>2, <1>4, <1>7 DEF StepsFit, IsManaged, SameDemand, SameMenus, SameGoal, Editing,
     Replacing, Writing, Inserted, Cleared
<1>9. QED
  BY <1>1, <1>5, <1>6, <1>7, <1>8 DEF Moves, Onward, Reads

LEMMA RankStep ==
  ASSUME PolicyTypeInv, NEW p \in Request, EnsureRolePriorityAllowed(p)
  PROVE  Moves(p) \/ Refused(p)
<1>1. PICK q \in RequestType : q = req[p] /\ StepsFit(q)
  BY RequestIsTyped
<1>2. q.pc = "rank" /\ q.r \in Role /\ q.op \in {"create", "update"}
  BY <1>1 DEF EnsureRolePriorityAllowed, StepsFit, Editing
<1>3. PICK to : /\ to = IF q.op = "update" THEN "children"
                        ELSE IF q.parent = NoRole THEN "write" ELSE "parent"
                /\ \E ok : Check(p, ok, to)
  BY <1>1 DEF EnsureRolePriorityAllowed
<1>4. /\ q.op = "update" => to = "children"
      /\ q.op # "update" => to = IF q.parent = NoRole THEN "write" ELSE "parent"
  BY <1>3
<1>5. SUFFICES ASSUME req' = [req EXCEPT ![p] = [q EXCEPT !.pc = to]], UNCHANGED Tables
               PROVE  Moves(p)
  BY <1>1, <1>2, <1>3, CheckedStep
<1>6. PICK s : s = [q EXCEPT !.pc = to]
  OBVIOUS
<1>7. s \in RequestType /\ IsRanked(q, s) /\ s.pc = to
  BY <1>2, <1>4, <1>6 DEF RequestType, Steps, Editing, IsRanked, SameDemand, SameMenus, SameGoal
<1>8. StepsFit(s)
  BY <1>1, <1>2, <1>4, <1>7 DEF StepsFit, IsRanked, SameDemand, SameMenus, SameGoal, Editing,
     Replacing, Writing, Inserted, Cleared
<1>9. QED
  BY <1>1, <1>5, <1>6, <1>7, <1>8 DEF Moves, Onward, Reads

LEMMA ChildrenStep ==
  ASSUME PolicyTypeInv, NEW p \in Request, EnsureChildrenPriorityAllowed(p)
  PROVE  Moves(p) \/ Refused(p)
<1>1. PICK q \in RequestType : q = req[p] /\ StepsFit(q)
  BY RequestIsTyped
<1>2. q.pc = "children" /\ q.r \in Role /\ q.op = "update"
  BY <1>1 DEF EnsureChildrenPriorityAllowed, StepsFit, Editing
<1>3. PICK to : /\ to = IF q.parent = NoRole THEN "write" ELSE "parent"
                /\ Check(p, ChildrenAllow(q.r, q.prio), to)
  BY <1>1 DEF EnsureChildrenPriorityAllowed
<1>4. SUFFICES ASSUME req' = [req EXCEPT ![p] = [q EXCEPT !.pc = to]], UNCHANGED Tables,
                      ChildrenAllow(q.r, q.prio)
               PROVE  Moves(p)
  BY <1>1, <1>2, <1>3, CheckedStep
<1>5. PICK s : s = [q EXCEPT !.pc = to]
  OBVIOUS
<1>6. s \in RequestType /\ HasWeaker(q, s)
  BY <1>2, <1>3, <1>4, <1>5 DEF RequestType, Steps, Editing, HasWeaker, SameDemand, SameMenus,
     SameGoal
<1>7. StepsFit(s)
  BY <1>1, <1>2, <1>6 DEF StepsFit, HasWeaker, SameDemand, SameMenus, SameGoal, Editing,
     Replacing, Writing, Inserted, Cleared
<1>8. QED
  BY <1>1, <1>4, <1>5, <1>6, <1>7 DEF Moves, Onward, Reads

LEMMA ParentStep ==
  ASSUME PolicyTypeInv, NEW p \in Request, ValidateParent(p)
  PROVE  Moves(p) \/ Refused(p)
<1>1. PICK q \in RequestType : q = req[p] /\ StepsFit(q)
  BY RequestIsTyped
<1>2. q.pc = "parent" /\ q.r \in Role /\ q.op \in {"create", "update"} /\ q.parent # NoRole
  BY <1>1 DEF ValidateParent, StepsFit, Editing
<1>3. CASE ParentAllowed(q)
  <2>1. PICK s : s = [q EXCEPT !.pc = "walk", !.cur = q.parent, !.visited = {q.r}]
    OBVIOUS
  <2>2. Reads(p, s)
    BY <1>1, <1>3, <2>1 DEF ValidateParent, Reads, PolicyTypeInv
  <2>3. s \in RequestType /\ HasParent(q, s)
    BY <1>2, <1>3, <2>1 DEF RequestType, Steps, Editing, HasParent, SameDemand, SameMenus, SameGoal
  <2>4. StepsFit(s)
    BY <1>1, <1>2, <2>3 DEF StepsFit, HasParent, SameDemand, SameMenus, SameGoal, Editing,
       Replacing, Writing, Inserted, Cleared
  <2>5. QED
    BY <1>1, <2>2, <2>3, <2>4 DEF Moves, Onward
<1>4. CASE ~ParentAllowed(q)
  BY <1>1, <1>2, <1>4 DEF ValidateParent, Refused
<1>5. QED
  BY <1>3, <1>4

LEMMA WalkStep ==
  ASSUME PolicyTypeInv, NEW p \in Request, WalkChain(p)
  PROVE  Moves(p) \/ Refused(p)
<1>1. PICK q \in RequestType : q = req[p] /\ StepsFit(q)
  BY RequestIsTyped
<1>2. q.pc = "walk" /\ q.r \in Role /\ q.op \in {"create", "update"} /\ q.parent # NoRole
      /\ q.cur # NoRole
  BY <1>1 DEF WalkChain, StepsFit, Editing
<1>3. CASE ~(ClosesCycle(q) \/ ~Live(q.cur))
  <2>1. q.cur \in Role
    BY <1>2, <1>3 DEF RequestType
  <2>2. PICK s : s = [q EXCEPT !.visited = @ \cup {q.cur}, !.cur = role[q.cur].parent,
                               !.pc = IF role[q.cur].parent = NoRole THEN "write" ELSE "walk"]
    OBVIOUS
  <2>3. Reads(p, s)
    BY <1>1, <1>3, <2>2 DEF WalkChain, Reads, PolicyTypeInv
  <2>4. s \in RequestType /\ Climbs(q, s)
    BY <1>2, <1>3, <2>1, <2>2, CodesAndRoles DEF RequestType, Steps, Editing, Climbs, SameDemand,
       SameMenus, SameGoal
  <2>5. StepsFit(s)
    BY <1>1, <1>2, <2>4 DEF StepsFit, Climbs, SameDemand, SameMenus, SameGoal, Editing,
       Replacing, Writing, Inserted, Cleared
  <2>6. QED
    BY <1>1, <2>3, <2>4, <2>5 DEF Moves, Onward
<1>4. CASE ClosesCycle(q) \/ ~Live(q.cur)
  BY <1>1, <1>2, <1>4 DEF WalkChain, Refused
<1>5. QED
  BY <1>3, <1>4

LEMMA CountStep ==
  ASSUME PolicyTypeInv, NEW p \in Request, CountUsersByRoleID(p)
  PROVE  Moves(p) \/ Refused(p)
<1>1. PICK q \in RequestType : q = req[p] /\ StepsFit(q)
  BY RequestIsTyped
<1>2. q.pc = "users" /\ q.r \in Role /\ q.op = "delete" /\ \E ok : Check(p, ok, "delMenus")
  BY <1>1 DEF CountUsersByRoleID, StepsFit
<1>3. SUFFICES ASSUME req' = [req EXCEPT ![p] = [q EXCEPT !.pc = "delMenus"]], UNCHANGED Tables
               PROVE  Moves(p)
  BY <1>1, <1>2, CheckedStep
<1>4. PICK s : s = [q EXCEPT !.pc = "delMenus"]
  OBVIOUS
<1>5. s \in RequestType /\ IsCounted(q, s)
  BY <1>2, <1>4 DEF RequestType, Steps, Replacing, Writing, Inserted, Cleared, IsCounted,
     SameDemand, SameMenus, SameGoal
<1>6. StepsFit(s)
  BY <1>1, <1>2, <1>5 DEF StepsFit, IsCounted, SameDemand, SameMenus, SameGoal, Editing,
     Replacing, Writing, Inserted, Cleared
<1>7. QED
  BY <1>1, <1>3, <1>4, <1>5, <1>6 DEF Moves, Onward, Reads

LEMMA DropStep ==
  ASSUME PolicyTypeInv, NEW p \in Request, DeleteRoleMenus(p) \/ DeleteCasbinRules(p)
  PROVE  Moves(p)
<1>1. PICK q \in RequestType : q = req[p] /\ StepsFit(q)
  BY RequestIsTyped
<1>2. q.pc \in {"delMenus", "delRules"} /\ q.r \in Role /\ q.op \in {"delete", "assign"}
  BY <1>1 DEF DeleteRoleMenus, DeleteCasbinRules, StepsFit, Replacing, Writing, Inserted, Cleared
<1>3. CASE DeleteRoleMenus(p)
  <2>1. PICK s : s = [q EXCEPT !.snapM = menus[q.r], !.pc = "lockMenus"]
    OBVIOUS
  <2>2. Reads(p, s) /\ q.pc = "delMenus"
    BY <1>1, <1>3, <2>1 DEF DeleteRoleMenus, Reads, PolicyTypeInv
  <2>3. s \in RequestType /\ DropsMenus(q, s) /\ s.put = q.put /\ s.met = q.met
        /\ s.snapC = q.snapC /\ s.putC = q.putC
    BY <1>2, <2>1, <2>2, CodesAndRoles DEF RequestType, Steps, Replacing, Writing, Inserted,
       Cleared, DropsMenus, SameGoal
  <2>4. StepsFit(s)
    BY <1>1, <1>2, <2>3 DEF StepsFit, DropsMenus, SameGoal, Editing, Replacing, Writing,
       Inserted, Cleared
  <2>5. QED
    BY <1>1, <2>2, <2>3, <2>4 DEF Moves, Onward
<1>4. CASE DeleteCasbinRules(p)
  <2>1. PICK s : s = [q EXCEPT !.snapC = rules[CodeOf[q.r]], !.pc = "lockRules"]
    OBVIOUS
  <2>2. Reads(p, s) /\ q.pc = "delRules"
    BY <1>1, <1>4, <2>1 DEF DeleteCasbinRules, Reads, PolicyTypeInv
  <2>3. s \in RequestType /\ DropsRules(q, s) /\ s.putC = q.putC
    BY <1>2, <2>1, <2>2, CodesAndRoles DEF RequestType, Steps, Replacing, Writing, Inserted,
       Cleared, DropsRules,
       SameDemand, SameMenus, SameGoal
  <2>4. StepsFit(s)
    BY <1>1, <1>2, <2>2, <2>3 DEF StepsFit, DropsRules, SameDemand, SameMenus, SameGoal, Editing,
       Replacing, Writing, Inserted, Cleared
  <2>5. QED
    BY <1>1, <2>2, <2>3, <2>4 DEF Moves, Onward
<1>5. QED
  BY <1>3, <1>4

LEMMA RuleStep ==
  ASSUME PolicyTypeInv, NEW p \in Request, LockCasbinRules(p) \/ InsertCasbinRule(p)
  PROVE  Moves(p)
<1>1. PICK q \in RequestType : q = req[p] /\ StepsFit(q)
  BY RequestIsTyped
<1>2. /\ q.pc \in {"lockRules", "insRules"} /\ q.r \in Role \ Bypass /\ q.op \in {"delete", "assign"}
      /\ q.want \subseteq q.put \cup q.met
  BY <1>1 DEF LockCasbinRules, InsertCasbinRule, StepsFit, Replacing, Writing, Inserted, Cleared
<1>3. PICK s : /\ Reads(p, s) /\ s \in RequestType /\ PutsRules(q, s)
               /\ s.putC \subseteq ApisOf(q.want)
  <2>1. CASE LockCasbinRules(p)
    <3>1. PICK to : to = RulesNext(q) /\ to \in {"insRules", "commit"}
      BY DEF RulesNext
    <3>2. PICK s : s = [q EXCEPT !.pc = to]
      OBVIOUS
    <3>3. Reads(p, s) /\ q.pc = "lockRules"
      BY <1>1, <2>1, <3>1, <3>2 DEF LockCasbinRules, Goto, Reads, PolicyTypeInv
    <3>4. s \in RequestType /\ PutsRules(q, s) /\ s.putC = q.putC
      BY <3>1, <3>2, <3>3 DEF RequestType, Steps, Replacing, Writing, Inserted, Cleared,
         PutsRules, SameDemand, SameMenus, SameGoal
    <3>5. QED
      BY <1>1, <3>3, <3>4 DEF StepsFit
  <2>2. CASE InsertCasbinRule(p)
    <3>1. PICK i \in ApisOf(q.want) : \E t :
            /\ t = [q EXCEPT !.metC = @ \cup {i}] \/ t = [q EXCEPT !.putC = @ \cup {i}]
            /\ req' = [req EXCEPT ![p] = [t EXCEPT !.pc = RulesNext(t)]]
      BY <1>1, <2>2 DEF InsertCasbinRule
    <3>2. PICK t : /\ t = [q EXCEPT !.metC = @ \cup {i}] \/ t = [q EXCEPT !.putC = @ \cup {i}]
                   /\ req' = [req EXCEPT ![p] = [t EXCEPT !.pc = RulesNext(t)]]
      BY <3>1
    <3>3. i \in Api
      BY <3>2, PolicyAssumption DEF ApisOf, RequestType
    <3>4. t \in RequestType /\ SameMenus(q, t) /\ t.snapC = q.snapC
          /\ (t.putC = q.putC \/ t.putC = q.putC \cup {i})
      BY <3>2, <3>3 DEF RequestType, SameDemand, SameMenus, SameGoal
    <3>5. PICK to : to = RulesNext(t) /\ to \in {"insRules", "commit"}
      BY DEF RulesNext
    <3>6. PICK s : s = [t EXCEPT !.pc = to]
      OBVIOUS
    <3>7. Reads(p, s) /\ q.pc = "insRules"
      BY <1>1, <2>2, <3>2, <3>5, <3>6 DEF InsertCasbinRule, Reads
    <3>8. s \in RequestType /\ PutsRules(q, s) /\ s.putC = t.putC
      BY <3>4, <3>5, <3>6, <3>7 DEF RequestType, Steps, Replacing, Writing, Inserted, Cleared,
         PutsRules, SameDemand, SameMenus, SameGoal
    <3>9. QED
      BY <1>1, <3>2, <3>4, <3>7, <3>8 DEF StepsFit
  <2>3. QED
    BY <2>1, <2>2
<1>4. StepsFit(s)
  BY <1>1, <1>2, <1>3 DEF StepsFit, PutsRules, SameDemand, SameMenus, SameGoal, Editing,
     Replacing, Writing, Inserted, Cleared
<1>5. QED
  BY <1>1, <1>3, <1>4 DEF Moves, Onward

(* A transaction deletes its menus, or inserts one of those it wants.      *)
Locks(p, s) ==
  LET q == req[p] IN
  /\ q.pc = "lockMenus" /\ s.put = {} /\ s.met = {} /\ Free(p, q.snapM)
  /\ slipped \subseteq slipped'
  /\ \A x \in Request \ {p} :
       req[x].pc \in Writing /\ req[x].r = q.r /\ req[x].met \cap q.snapM # {} =>
         CodeOf[q.r] \in slipped'
Puts(p, s) ==
  LET q == req[p] IN
  /\ q.pc = "insMenus" /\ slipped' = slipped
  /\ \E m \in q.want :
       /\ Free(p, {m})
       /\ \/ m \in menus[q.r] \ q.snapM /\ s.met = q.met \cup {m} /\ s.put = q.put
          \/ s.met = q.met /\ s.put = q.put \cup {m}
Takes(p) ==
  \E s \in RequestType :
    /\ req' = [req EXCEPT ![p] = s] /\ StepsFit(s) /\ SameGoal(req[p], s) /\ s.snapM = req[p].snapM
    /\ \/ s.pc \in {"insMenus", "delRules"}
       \/ s.pc = "commit" /\ s.r \in Bypass
    /\ UNCHANGED <<role, menus, rules, mem, actors, overlapped, behind>>
    /\ Locks(p, s) \/ Puts(p, s)

LEMMA TakeStep ==
  ASSUME PolicyTypeInv, NEW p \in Request, LockRoleMenus(p) \/ InsertRoleMenu(p)
  PROVE  Takes(p)
<1>1. PICK q \in RequestType : q = req[p] /\ StepsFit(q)
  BY RequestIsTyped
<1>2. /\ q.pc \in {"lockMenus", "insMenus"} /\ q.r \in Role /\ q.op \in {"delete", "assign"}
      /\ q.snapC = {} /\ q.putC = {}
  BY <1>1 DEF LockRoleMenus, InsertRoleMenu, StepsFit, Replacing, Writing, Inserted, Cleared,
     Cleared
<1>3. ASSUME NEW t \in RequestType, SameGoal(q, t), t.snapM = q.snapM, t.snapC = {}, t.putC = {},
             t.put \subseteq q.want, t.met \subseteq q.want, NEW s, s = [t EXCEPT !.pc = MenusNext(t)]
      PROVE  /\ s \in RequestType /\ StepsFit(s) /\ SameGoal(q, s) /\ s.snapM = q.snapM
             /\ s.put = t.put /\ s.met = t.met
             /\ \/ s.pc \in {"insMenus", "delRules"}
                \/ s.pc = "commit" /\ s.r \in Bypass
  <2>1. PICK to : /\ to = MenusNext(t) /\ to \in {"insMenus", "delRules", "commit"}
                  /\ to \in {"delRules", "commit"} => t.want \subseteq t.put \cup t.met
                  /\ to = "commit" => t.r \in Bypass
                  /\ to = "delRules" => t.r \notin Bypass
    BY DEF MenusNext
  <2>2. s = [t EXCEPT !.pc = to]
    BY <1>3, <2>1
  <2>3. /\ s \in RequestType /\ SameGoal(q, s) /\ s.snapM = q.snapM /\ s.pc = to
        /\ s.put = t.put /\ s.met = t.met /\ s.snapC = {} /\ s.putC = {}
    BY <1>3, <2>1, <2>2 DEF RequestType, Steps, Replacing, Writing, Inserted, Cleared, SameGoal
  <2>4. StepsFit(s)
    BY <1>1, <1>2, <1>3, <2>1, <2>3 DEF StepsFit, SameGoal, Editing, Replacing, Writing,
       Inserted, Cleared
  <2>5. QED
    BY <1>3, <2>1, <2>3, <2>4 DEF SameGoal
<1>4. CASE LockRoleMenus(p)
  <2>1. PICK s : s = [q EXCEPT !.pc = MenusNext(q)]
    OBVIOUS
  <2>2. /\ req' = [req EXCEPT ![p] = s] /\ q.pc = "lockMenus" /\ Free(p, q.snapM)
        /\ UNCHANGED <<role, menus, rules, mem, actors, overlapped, behind>>
    BY <1>1, <1>4, <2>1 DEF LockRoleMenus, Goto, PolicyTypeInv
  <2>3. q.put = {} /\ q.met = {} /\ SameGoal(q, q)
    BY <1>1, <2>2 DEF StepsFit, Writing, SameGoal
  <2>4. /\ slipped \subseteq slipped'
        /\ \A x \in Request \ {p} :
             req[x].pc \in Writing /\ req[x].r = q.r /\ req[x].met \cap q.snapM # {} =>
               CodeOf[q.r] \in slipped'
    BY <1>1, <1>4 DEF LockRoleMenus
  <2>5. q.put \subseteq q.want /\ q.met \subseteq q.want
    BY <2>3
  <2>6. /\ s \in RequestType /\ StepsFit(s) /\ SameGoal(q, s) /\ s.snapM = q.snapM
        /\ s.put = {} /\ s.met = {}
        /\ \/ s.pc \in {"insMenus", "delRules"}
           \/ s.pc = "commit" /\ s.r \in Bypass
    BY <1>2, <1>3, <2>1, <2>3, <2>5
  <2>7. Locks(p, s)
    BY <1>1, <2>2, <2>4, <2>6 DEF Locks
  <2>8. QED
    BY <1>1, <2>2, <2>6, <2>7 DEF Takes
<1>5. CASE InsertRoleMenu(p)
  <2>1. PICK m \in q.want : Free(p, {m}) /\ \E t :
          /\ \/ t = [q EXCEPT !.met = @ \cup {m}] /\ m \in menus[q.r] \ q.snapM
             \/ t = [q EXCEPT !.put = @ \cup {m}]
          /\ req' = [req EXCEPT ![p] = [t EXCEPT !.pc = MenusNext(t)]]
    BY <1>1, <1>5 DEF InsertRoleMenu
  <2>2. PICK t :
          /\ \/ t = [q EXCEPT !.met = @ \cup {m}] /\ m \in menus[q.r] \ q.snapM
             \/ t = [q EXCEPT !.put = @ \cup {m}]
          /\ req' = [req EXCEPT ![p] = [t EXCEPT !.pc = MenusNext(t)]]
    BY <2>1
  <2>3. m \in Menu /\ q.put \subseteq q.want /\ q.met \subseteq q.want
    BY <1>1, <2>2 DEF RequestType, StepsFit
  <2>4. /\ t \in RequestType /\ SameGoal(q, t) /\ t.snapM = q.snapM /\ t.snapC = {} /\ t.putC = {}
        /\ \/ m \in menus[q.r] \ q.snapM /\ t.met = q.met \cup {m} /\ t.put = q.put
           \/ t.met = q.met /\ t.put = q.put \cup {m}
    BY <1>2, <2>2, <2>3 DEF RequestType, SameGoal
  <2>5. PICK s : s = [t EXCEPT !.pc = MenusNext(t)]
    OBVIOUS
  <2>6. /\ req' = [req EXCEPT ![p] = s] /\ q.pc = "insMenus"
        /\ UNCHANGED <<role, menus, rules, mem, actors, overlapped, behind>> /\ slipped' = slipped
    BY <1>1, <1>5, <2>2, <2>5 DEF InsertRoleMenu, Tables
  <2>7. t.put \subseteq q.want /\ t.met \subseteq q.want
    BY <2>2, <2>3, <2>4
  <2>8. /\ s \in RequestType /\ StepsFit(s) /\ SameGoal(q, s) /\ s.snapM = q.snapM
        /\ s.put = t.put /\ s.met = t.met
        /\ \/ s.pc \in {"insMenus", "delRules"}
           \/ s.pc = "commit" /\ s.r \in Bypass
    BY <1>3, <2>4, <2>5, <2>7
  <2>9. Puts(p, s)
    BY <1>1, <2>1, <2>4, <2>6, <2>8 DEF Puts
  <2>10. QED
    BY <1>1, <2>6, <2>8, <2>9 DEF Takes
<1>6. QED
  BY <1>4, <1>5

(* A role is created or updated. *)
Edits(p) ==
  LET q == req[p] IN
  /\ q.pc = "write" /\ Overlap(p) /\ req' = [req EXCEPT ![p] = IdleReq]
  /\ UNCHANGED <<menus, rules, mem, actors, slipped, behind>>
  /\ role' \in [Role -> RoleType]
  /\ role'[q.r].prio = q.prio /\ role'[q.r].parent = q.parent /\ role'[q.r].life = "live"
  /\ \A x \in Role \ {q.r} : role'[x] = role[x]
  /\ \/ q.op = "create" /\ role[q.r].life = "none" /\ \A s \in Role : Live(s) => CodeOf[s] # CodeOf[q.r]
     \/ q.op = "update" /\ Live(q.r)

LEMMA EditStep ==
  ASSUME PolicyTypeInv, NEW p \in Request, Insert(p) \/ UpdateRow(p)
  PROVE  Edits(p)
<1>1. PICK q \in RequestType : q = req[p] /\ StepsFit(q)
  BY RequestIsTyped
<1>2. q.pc = "write" /\ q.r \in Role
  BY <1>1 DEF Insert, UpdateRow, StepsFit
<1>3. PICK t \in RoleType : t = role[q.r]
  BY <1>2 DEF PolicyTypeInv
<1>q. q.prio \in Nat /\ q.parent \in Role \cup {NoRole} /\ q.on \in BOOLEAN
  BY <1>1 DEF RequestType
<1>4. PICK s : /\ role' = [role EXCEPT ![q.r] = s] /\ s \in RoleType
               /\ s.prio = q.prio /\ s.parent = q.parent /\ s.life = "live"
  <2>1. CASE Insert(p)
    <3>1. PICK s : s = [t EXCEPT !.life = "live", !.prio = q.prio, !.parent = q.parent, !.on = q.on]
      OBVIOUS
    <3>2. role' = [role EXCEPT ![q.r] = s]
      BY <1>1, <1>2, <1>3, <2>1, <3>1 DEF Insert, PolicyTypeInv
    <3>3. s \in RoleType
      BY <1>q, <3>1 DEF RoleType
    <3>4. s.prio = q.prio /\ s.parent = q.parent /\ s.life = "live"
      BY <3>1 DEF RoleType
    <3>5. QED
      BY <3>2, <3>3, <3>4
  <2>2. CASE UpdateRow(p)
    <3>1. PICK s : s = [t EXCEPT !.prio = q.prio, !.parent = q.parent, !.on = q.on,
                                 !.version = t.version + 1]
      OBVIOUS
    <3>2. role' = [role EXCEPT ![q.r] = s]
      BY <1>1, <1>2, <1>3, <2>2, <3>1 DEF UpdateRow, PolicyTypeInv
    <3>3. t.life = "live" /\ t.version + 1 \in Nat
      BY <1>1, <1>3, <2>2 DEF UpdateRow, Live, RoleType
    <3>4. s \in RoleType
      BY <1>q, <3>1, <3>3 DEF RoleType
    <3>5. s.prio = q.prio /\ s.parent = q.parent /\ s.life = "live"
      BY <3>1, <3>3 DEF RoleType
    <3>6. QED
      BY <3>2, <3>4, <3>5
  <2>3. QED
    BY <2>1, <2>2
<1>5. role' \in [Role -> RoleType] /\ role'[q.r] = s /\ \A x \in Role \ {q.r} : role'[x] = role[x]
  BY <1>2, <1>4 DEF PolicyTypeInv
<1>6. /\ Overlap(p) /\ req' = [req EXCEPT ![p] = IdleReq]
      /\ UNCHANGED <<menus, rules, mem, actors, slipped, behind>>
      /\ \/ q.op = "create" /\ role[q.r].life = "none" /\ \A x \in Role : Live(x) => CodeOf[x] # CodeOf[q.r]
         \/ q.op = "update" /\ Live(q.r)
  BY <1>1 DEF Insert, UpdateRow
<1>7. QED
  BY <1>1, <1>2, <1>4, <1>5, <1>6 DEF Edits

(* A transaction on menus and rules commits.  The others keep what they    *)
(* ask for and what they have written.                                     *)
Ages(x, y) ==
  /\ y.pc = x.pc /\ SameGoal(x, y) /\ y.put = x.put /\ y.met = x.met /\ y.putC = x.putC
  /\ y.cur = x.cur /\ y.visited = x.visited /\ y.loaded = x.loaded
  /\ y.snapM \subseteq x.snapM /\ (x.pc # "lockMenus" => y.snapM = x.snapM)
  /\ y.snapC \subseteq x.snapC
OthersAge(p) == \A x \in Request : x # p => Ages(req[x], req'[x])
Ends(p) ==
  LET q == req[p] IN
  /\ q.pc = "commit" /\ q.r \in Role /\ Overlap(p)
  /\ \E s \in RequestType :
       /\ StepsFit(s) /\ req'[p] = s /\ s.pc \in {"idle", "reload"}
       /\ q.r \notin Bypass => s.pc = "reload"
  /\ req' \in [Request -> RequestType] /\ \A x \in Request : StepsFit(req'[x])
  /\ OthersAge(p)
  /\ \A x \in Request : x # p =>
       /\ req'[x].late = (req[x].late \/ (req[x].pc = "install" /\ q.r \notin Bypass))
       /\ \A i \in req[x].snapC \ req'[x].snapC :
            CodeOf[req[x].r] = CodeOf[q.r] /\ i \in q.snapC
  /\ UNCHANGED <<mem, actors, slipped, behind>>
  /\ menus' = [menus EXCEPT ![q.r] = (@ \ q.snapM) \cup q.put]
  /\ rules' = [rules EXCEPT ![CodeOf[q.r]] = (@ \ q.snapC) \cup q.putC]
  /\ \/ q.op = "assign" /\ role' = role
     \/ q.op = "delete" /\ Live(q.r) /\ role' = [role EXCEPT ![q.r].life = "deleted"]

LEMMA OutdatedIsTyped ==
  ASSUME NEW x \in RequestType, StepsFit(x), NEW q \in RequestType, NEW y, y = Outdated(x, q)
  PROVE  /\ y \in RequestType /\ StepsFit(y) /\ Ages(x, y)
         /\ y.late = (x.late \/ (x.pc = "install" /\ q.r \notin Bypass))
         /\ \A i \in x.snapC \ y.snapC : CodeOf[x.r] = CodeOf[q.r] /\ i \in q.snapC
<1>1. PICK M \in SUBSET Menu : M = IF x.pc = "lockMenus" /\ x.r = q.r THEN x.snapM \ q.snapM ELSE x.snapM
  BY DEF RequestType
<1>2. PICK C \in SUBSET Api :
        C = IF x.pc = "lockRules" /\ CodeOf[x.r] = CodeOf[q.r] THEN x.snapC \ q.snapC ELSE x.snapC
  BY DEF RequestType
<1>3. PICK b \in BOOLEAN : b = (x.late \/ (x.pc = "install" /\ q.r \notin Bypass))
  OBVIOUS
<1>4. y = [x EXCEPT !.snapM = M, !.snapC = C, !.late = b]
  BY <1>1, <1>2, <1>3 DEF Outdated
<1>5. /\ y \in RequestType /\ y.snapM = M /\ y.snapC = C /\ y.late = b
      /\ y.pc = x.pc /\ SameGoal(x, y) /\ y.put = x.put /\ y.met = x.met /\ y.putC = x.putC
      /\ y.cur = x.cur /\ y.visited = x.visited /\ y.loaded = x.loaded
  <2>1. y \in RequestType
    BY <1>4 DEF RequestType
  <2>2. y.snapM = M /\ y.snapC = C /\ y.late = b
    BY <1>4 DEF RequestType
  <2>3. /\ y.pc = x.pc /\ y.put = x.put /\ y.met = x.met /\ y.putC = x.putC
        /\ y.cur = x.cur /\ y.visited = x.visited /\ y.loaded = x.loaded
    BY <1>4
  <2>4. SameGoal(x, y)
    BY <1>4 DEF SameGoal
  <2>5. QED
    BY <2>1, <2>2, <2>3, <2>4
<1>6. M \subseteq x.snapM /\ C \subseteq x.snapC /\ (x.pc # "lockMenus" => M = x.snapM)
  BY <1>1, <1>2
<1>7. StepsFit(y)
  BY <1>5, <1>6 DEF StepsFit, SameGoal
<1>8. \A i \in x.snapC \ C : CodeOf[x.r] = CodeOf[q.r] /\ i \in q.snapC
  BY <1>2
<1>9. QED
  BY <1>3, <1>5, <1>6, <1>7, <1>8 DEF Ages

LEMMA EndStep ==
  ASSUME PolicyTypeInv, NEW p \in Request, CommitMenus(p) \/ CommitDelete(p)
  PROVE  Ends(p)
<1>1. PICK q \in RequestType : q = req[p] /\ StepsFit(q)
  BY RequestIsTyped
<1>2. q.pc = "commit" /\ q.r \in Role
  BY <1>1 DEF CommitMenus, CommitDelete, StepsFit
<1>3. PICK s : /\ s = IF q.r \in Bypass THEN IdleReq ELSE [IdleReq EXCEPT !.pc = "reload"]
               /\ req' = [x \in Request |-> IF x = p THEN s ELSE Outdated(req[x], q)]
  BY <1>1 DEF CommitMenus, CommitDelete, Ended, AfterCommit
<1>4. s \in RequestType /\ StepsFit(s) /\ s.pc \in {"idle", "reload"} /\ (q.r \notin Bypass => s.pc = "reload")
  <2>1. IdleReq.pc = "idle"
    BY DEF IdleReq
  <2>2. QED
    BY <1>3, <2>1, IdleReqIsTyped, ReloadIsTyped
<1>5. req'[p] = s
  BY <1>3
<1>6. ASSUME NEW x \in Request, x # p
      PROVE  /\ req'[x] \in RequestType /\ StepsFit(req'[x]) /\ Ages(req[x], req'[x])
             /\ req'[x].late = (req[x].late \/ (req[x].pc = "install" /\ q.r \notin Bypass))
             /\ \A i \in req[x].snapC \ req'[x].snapC :
                  CodeOf[req[x].r] = CodeOf[q.r] /\ i \in q.snapC
  <2>1. PICK y : y = req'[x] /\ y = Outdated(req[x], q)
    BY <1>3, <1>6
  <2>2. PICK z \in RequestType : z = req[x] /\ StepsFit(z)
    BY RequestIsTyped
  <2>3. y = Outdated(z, q)
    BY <2>1, <2>2
  <2>4. /\ y \in RequestType /\ StepsFit(y) /\ Ages(z, y)
        /\ y.late = (z.late \/ (z.pc = "install" /\ q.r \notin Bypass))
        /\ \A i \in z.snapC \ y.snapC : CodeOf[z.r] = CodeOf[q.r] /\ i \in q.snapC
    BY <1>1, <2>2, <2>3, OutdatedIsTyped
  <2>5. QED
    BY <2>1, <2>2, <2>4
<1>7. req' \in [Request -> RequestType] /\ \A x \in Request : StepsFit(req'[x])
  <2>1. \A x \in Request : req'[x] \in RequestType /\ StepsFit(req'[x])
    BY <1>4, <1>5, <1>6
  <2>2. req' = [x \in Request |-> req'[x]]
    BY <1>3
  <2>3. QED
    BY <2>1, <2>2
<1>8. /\ menus' = [menus EXCEPT ![q.r] = (menus[q.r] \ q.snapM) \cup q.put]
      /\ rules' = [rules EXCEPT ![CodeOf[q.r]] = (rules[CodeOf[q.r]] \ q.snapC) \cup q.putC]
      /\ Overlap(p) /\ UNCHANGED <<mem, actors, slipped, behind>>
      /\ \/ q.op = "assign" /\ role' = role
         \/ q.op = "delete" /\ Live(q.r) /\ role' = [role EXCEPT ![q.r].life = "deleted"]
  BY <1>1 DEF CommitMenus, CommitDelete, NewMenus, NewRules
<1>9. QED
  BY <1>1, <1>2, <1>4, <1>5, <1>6, <1>7, <1>8 DEF Ends, OthersAge

(* A reload reads, fails or installs. *)
Loads(p) ==
  /\ req[p].pc \in {"reload", "install"}
  /\ UNCHANGED <<role, menus, rules, actors, overlapped, slipped>>
  /\ \E s \in RequestType :
       /\ StepsFit(s) /\ s.pc \in {"idle", "reload", "install"} /\ req' = [req EXCEPT ![p] = s]
       /\ s.pc = "install" => s.loaded = rules
       /\ \/ mem' = mem /\ behind' = behind /\ s.pc # "idle"
          \/ mem' = mem /\ behind' = TRUE
          \/ req[p].pc = "install" /\ mem' = req[p].loaded /\ behind' = req[p].late

LEMMA LoadStep ==
  ASSUME PolicyTypeInv, NEW p \in Request, ReadPolicy(p) \/ InstallPolicy(p) \/ ReadPolicyFails(p)
  PROVE  Loads(p)
<1>1. PICK q \in RequestType : q = req[p] /\ StepsFit(q)
  BY RequestIsTyped
<1>2. IdleReq \in RequestType /\ StepsFit(IdleReq) /\ IdleReq.pc = "idle"
  BY IdleReqIsTyped DEF IdleReq
<1>3. CASE ReadPolicy(p)
  <2>1. PICK s : s = [q EXCEPT !.pc = "install", !.loaded = rules]
    OBVIOUS
  <2>2. q.pc = "reload" /\ req' = [req EXCEPT ![p] = s] /\ UNCHANGED Tables
    BY <1>1, <1>3, <2>1 DEF ReadPolicy, PolicyTypeInv
  <2>3. s \in RequestType /\ SameDemand(q, s) /\ s.pc = "install" /\ s.loaded = rules
    BY <2>1 DEF RequestType, Steps, Waiting, SameDemand, SameMenus, SameGoal, PolicyTypeInv
  <2>4. StepsFit(s)
    BY <1>1, <2>2, <2>3 DEF StepsFit, SameDemand, SameMenus, SameGoal, Editing, Replacing, Writing,
       Inserted, Cleared
  <2>5. QED
    BY <1>1, <2>2, <2>3, <2>4 DEF Loads, Tables
<1>4. CASE InstallPolicy(p)
  BY <1>2, <1>1, <1>4 DEF InstallPolicy, Loads
<1>5. CASE ReadPolicyFails(p) /\ q.tries = 1
  <2>1. /\ q.pc = "reload" /\ req' = [req EXCEPT ![p] = IdleReq] /\ behind' = TRUE
        /\ UNCHANGED <<role, menus, rules, mem, actors, overlapped, slipped>>
    BY <1>1, <1>5 DEF ReadPolicyFails, PolicyTypeInv
  <2>2. QED
    BY <1>2, <1>1, <2>1 DEF Loads
<1>6. CASE ReadPolicyFails(p) /\ q.tries # 1
  <2>1. PICK s : s = [q EXCEPT !.tries = 1]
    OBVIOUS
  <2>2. /\ q.pc = "reload" /\ UNCHANGED <<role, menus, rules, mem, actors, overlapped, slipped>>
        /\ req' = [req EXCEPT ![p] = s]
    BY <1>1, <1>6, <2>1 DEF ReadPolicyFails, PolicyTypeInv
  <2>3. behind' = behind
    BY <1>1, <1>6 DEF ReadPolicyFails, PolicyTypeInv
  <2>4. s \in RequestType /\ s.pc = "reload" /\ SameDemand(q, s)
    BY <1>1, <2>1, <2>2 DEF RequestType, SameDemand, SameMenus, SameGoal
  <2>5. StepsFit(s)
    BY <1>1, <2>2, <2>4 DEF StepsFit, SameDemand, SameMenus, SameGoal, Editing, Replacing, Writing,
       Inserted, Cleared
  <2>6. QED
    BY <1>1, <2>2, <2>3, <2>4, <2>5 DEF Loads
<1>7. QED
  BY <1>1, <1>3, <1>4, <1>5, <1>6

LEMMA StepKinds ==
  ASSUME PolicyTypeInv, PolicyNext
  PROVE  \E p \in Request :
           Moves(p) \/ Refused(p) \/ Takes(p) \/ Edits(p) \/ Ends(p) \/ Loads(p)
<1>1. PICK p \in Request :
        \/ CreateRole(p) \/ UpdateRole(p) \/ DeleteRole(p) \/ AssignMenus(p)
        \/ FindByID(p) \/ EnsureCanManageRole(p) \/ EnsureRolePriorityAllowed(p)
        \/ EnsureChildrenPriorityAllowed(p) \/ ValidateParent(p) \/ WalkChain(p)
        \/ Insert(p) \/ UpdateRow(p) \/ CountUsersByRoleID(p)
        \/ DeleteRoleMenus(p) \/ LockRoleMenus(p) \/ InsertRoleMenu(p)
        \/ DeleteCasbinRules(p) \/ LockCasbinRules(p) \/ InsertCasbinRule(p)
        \/ CommitMenus(p) \/ CommitDelete(p) \/ RollBack(p)
        \/ ReadPolicy(p) \/ InstallPolicy(p) \/ ReadPolicyFails(p)
  BY DEF PolicyNext
<1>2. ASSUME RollBack(p) PROVE Refused(p)
  BY <1>2 DEF RollBack, Refused
<1>3. QED
  BY <1>1, <1>2, StartStep, FindStep, ManageStep, RankStep, ChildrenStep, ParentStep, WalkStep,
     CountStep, DropStep, RuleStep, TakeStep, EditStep, EndStep, LoadStep

-----------------------------------------------------------------------------
(* Types.                                                                  *)

LEMMA OneRequestGoes ==
  ASSUME PolicyTypeInv, NEW p \in Request, NEW s \in RequestType, StepsFit(s),
         req' = [req EXCEPT ![p] = s]
  PROVE  /\ req' \in [Request -> RequestType] /\ \A x \in Request : StepsFit(req'[x])
         /\ req'[p] = s /\ \A x \in Request : x # p => req'[x] = req[x]
BY DEF PolicyTypeInv

(* What every step does to the requests. *)
OthersStay(p) == \A x \in Request : x # p => req'[x] = req[x]
LEMMA KindsOfRequests ==
  ASSUME PolicyTypeInv, NEW p \in Request
  PROVE  /\ Moves(p) => \E s \in RequestType :
              Reads(p, s) /\ StepsFit(s) /\ Onward(req[p], s) /\ req'[p] = s /\ OthersStay(p)
         /\ Refused(p) => req'[p] = IdleReq /\ req' = [req EXCEPT ![p] = IdleReq] /\ OthersStay(p)
         /\ Takes(p) => OthersStay(p)
         /\ Edits(p) => req'[p] = IdleReq /\ OthersStay(p)
         /\ Loads(p) => OthersStay(p) /\ \E s \in RequestType :
              /\ req' = [req EXCEPT ![p] = s] /\ StepsFit(s) /\ req'[p] = s
              /\ s.pc \in {"idle", "reload", "install"}
<1>1. IdleReq \in RequestType /\ StepsFit(IdleReq) /\ IdleReq.pc = "idle"
  BY IdleReqIsTyped DEF IdleReq
<1>2. ASSUME Moves(p)
      PROVE  \E s \in RequestType :
               Reads(p, s) /\ StepsFit(s) /\ Onward(req[p], s) /\ req'[p] = s /\ OthersStay(p)
  BY <1>2, OneRequestGoes DEF Moves, Reads, OthersStay
<1>3. ASSUME Refused(p)
      PROVE  req'[p] = IdleReq /\ req' = [req EXCEPT ![p] = IdleReq] /\ OthersStay(p)
  BY <1>1, <1>3, OneRequestGoes DEF Refused, Refuse, OthersStay
<1>4. ASSUME Takes(p) PROVE OthersStay(p)
  <2>1. PICK s \in RequestType : req' = [req EXCEPT ![p] = s] /\ StepsFit(s)
    BY <1>4 DEF Takes
  <2>2. QED
    BY <2>1, OneRequestGoes DEF OthersStay
<1>5. ASSUME Edits(p) PROVE req'[p] = IdleReq /\ OthersStay(p)
  BY <1>1, <1>5, OneRequestGoes DEF Edits, OthersStay
<1>6. ASSUME Loads(p)
      PROVE  OthersStay(p) /\ \E s \in RequestType :
               /\ req' = [req EXCEPT ![p] = s] /\ StepsFit(s) /\ req'[p] = s
               /\ s.pc \in {"idle", "reload", "install"}
  <2>1. PICK s \in RequestType :
          req' = [req EXCEPT ![p] = s] /\ StepsFit(s) /\ s.pc \in {"idle", "reload", "install"}
    BY <1>6 DEF Loads
  <2>2. QED
    BY <2>1, OneRequestGoes DEF OthersStay
<1>7. QED
  BY <1>2, <1>3, <1>4, <1>5, <1>6

LEMMA TypesStart == PolicyInit => PolicyTypeInv
<1> SUFFICES ASSUME PolicyInit PROVE PolicyTypeInv
  OBVIOUS
<1>1. IdleReq \in RequestType /\ StepsFit(IdleReq)
  BY DEF IdleReq, RequestType, StepsFit, Op, Steps, Waiting, Editing, Replacing, Writing,
     Inserted, Cleared
<1>2. role \in [Role -> RoleType]
  BY PolicyAssumption DEF PolicyInit, RoleType
<1>3. rules \in [Code -> SUBSET Api]
  <2>1. ASSUME NEW r \in Role PROVE ApisOf(Granted[r]) \subseteq Api
    BY PolicyAssumption DEF ApisOf
  <2>2. QED
    BY <2>1 DEF PolicyInit
<1>4. QED
  BY <1>1, <1>2, <1>3, PolicyAssumption DEF PolicyInit, PolicyTypeInv

LEMMA TypesStay == PolicyTypeInv /\ [PolicyNext]_policyVars => PolicyTypeInv'
<1> SUFFICES ASSUME PolicyTypeInv, PolicyNext PROVE PolicyTypeInv'
  BY DEF PolicyTypeInv, policyVars
<1>1. PICK p \in Request : Moves(p) \/ Refused(p) \/ Takes(p) \/ Edits(p) \/ Ends(p) \/ Loads(p)
  BY StepKinds
<1>2. IdleReq \in RequestType /\ StepsFit(IdleReq)
  BY IdleReqIsTyped
<1>3. req' \in [Request -> RequestType] /\ \A x \in Request : StepsFit(req'[x])
  <2>a. CASE Ends(p)
    BY <2>a DEF Ends
  <2> SUFFICES ASSUME ~Ends(p)
               PROVE  req' \in [Request -> RequestType] /\ \A x \in Request : StepsFit(req'[x])
    BY <2>a
  <2>1. PICK s \in RequestType : StepsFit(s) /\ req' = [req EXCEPT ![p] = s]
    <3>1. CASE Moves(p)
      BY <3>1 DEF Moves, Reads
    <3>2. CASE Refused(p) \/ Edits(p)
      BY <1>2, <3>2 DEF Refused, Refuse, Edits
    <3>3. CASE Takes(p)
      BY <3>3 DEF Takes
    <3>4. CASE Loads(p)
      BY <3>4, KindsOfRequests
    <3>5. QED
      BY <1>1, <3>1, <3>2, <3>3, <3>4
  <2>2. QED
    BY <2>1, OneRequestGoes
<1>4. CASE Moves(p)
  BY <1>3, <1>4 DEF Moves, Reads, Tables, PolicyTypeInv
<1>5. CASE Refused(p)
  BY <1>3, <1>5 DEF Refused, Refuse, Tables, PolicyTypeInv
<1>6. CASE Takes(p)
  BY <1>3, <1>6 DEF Takes, PolicyTypeInv
<1>7. CASE Edits(p)
  <2>1. overlapped' \in BOOLEAN
    BY <1>7 DEF Edits, Overlap
  <2>2. QED
    BY <1>3, <1>7, <2>1 DEF Edits, PolicyTypeInv
<1>8. CASE Ends(p)
  <2>1. PICK q \in RequestType : q = req[p] /\ q.r \in Role
    BY <1>8, RequestIsTyped DEF Ends
  <2>2. overlapped' \in BOOLEAN
    BY <1>8 DEF Ends, Overlap
  <2>3. menus' \in [Role -> SUBSET Menu]
    <3>1. menus[q.r] \in SUBSET Menu /\ q.put \in SUBSET Menu
      BY <2>1, CodesAndRoles DEF RequestType
    <3>2. menus' = [menus EXCEPT ![q.r] = (menus[q.r] \ q.snapM) \cup q.put]
      BY <1>8, <2>1 DEF Ends
    <3>3. (menus[q.r] \ q.snapM) \cup q.put \in SUBSET Menu
      BY <3>1
    <3>4. QED
      BY <3>2, <3>3 DEF PolicyTypeInv
  <2>4. rules' \in [Code -> SUBSET Api]
    <3>1. rules[CodeOf[q.r]] \in SUBSET Api /\ q.putC \in SUBSET Api
      BY <2>1, CodesAndRoles DEF RequestType
    <3>2. rules' = [rules EXCEPT ![CodeOf[q.r]] = (rules[CodeOf[q.r]] \ q.snapC) \cup q.putC]
      BY <1>8, <2>1 DEF Ends
    <3>3. (rules[CodeOf[q.r]] \ q.snapC) \cup q.putC \in SUBSET Api
      BY <3>1
    <3>4. QED
      BY <3>2, <3>3 DEF PolicyTypeInv
  <2>5. role' \in [Role -> RoleType]
    <3>1. PICK t \in RoleType : t = role[q.r]
      BY <2>1, CodesAndRoles
    <3>2. [t EXCEPT !.life = "deleted"] \in RoleType
      BY DEF RoleType
    <3>3. role' = role \/ role' = [role EXCEPT ![q.r] = [t EXCEPT !.life = "deleted"]]
      BY <1>8, <2>1, <3>1 DEF Ends
    <3>4. QED
      BY <3>2, <3>3 DEF PolicyTypeInv
  <2>6. QED
    BY <1>3, <1>8, <2>2, <2>3, <2>4, <2>5 DEF Ends, PolicyTypeInv
<1>9. CASE Loads(p)
  <2>1. req[p].loaded \in [Code -> SUBSET Api] /\ req[p].late \in BOOLEAN
    BY RequestIsTyped DEF RequestType
  <2>2. mem' \in [Code -> SUBSET Api] /\ behind' \in BOOLEAN
    BY <1>9, <2>1 DEF Loads, PolicyTypeInv
  <2>3. QED
    BY <1>3, <1>9, <2>2 DEF Loads, PolicyTypeInv
<1>10. QED
  BY <1>1, <1>4, <1>5, <1>6, <1>7, <1>8, <1>9

-----------------------------------------------------------------------------
(* The enforcer.                                                           *)

(* A commit without policies leaves the rules as they are. *)
LEMMA BypassKeepsRules ==
  ASSUME PolicyTypeInv, NEW p \in Request, Ends(p), req[p].r \in Bypass
  PROVE  rules' = rules
<1>1. PICK q \in RequestType : q = req[p] /\ StepsFit(q)
  BY RequestIsTyped
<1>2. q.snapC = {} /\ q.putC = {}
  BY <1>1 DEF StepsFit
<1>3. rules' = [rules EXCEPT ![CodeOf[q.r]] = (@ \ {}) \cup {}]
  BY <1>1, <1>2 DEF Ends
<1>4. rules' = [rules EXCEPT ![CodeOf[q.r]] = rules[CodeOf[q.r]]]
  BY <1>3
<1>5. QED
  BY <1>4 DEF PolicyTypeInv

LEMMA ReadStays ==
  ASSUME PolicyTypeInv, Read, PolicyNext
  PROVE  Read'
<1>1. PICK p \in Request : Moves(p) \/ Refused(p) \/ Takes(p) \/ Edits(p) \/ Ends(p) \/ Loads(p)
  BY StepKinds
<1>2. CASE Moves(p)
  <2>1. PICK s \in RequestType : Onward(req[p], s) /\ req'[p] = s /\ OthersStay(p) /\ rules' = rules
    BY <1>2, KindsOfRequests DEF Reads, Tables
  <2>2. s.pc # "install"
    BY <2>1 DEF Onward, Comes, IsFound, IsManaged, IsRanked, HasWeaker, HasParent, Climbs,
       IsCounted, DropsMenus, DropsRules, PutsRules
  <2>3. QED
    BY <2>1, <2>2 DEF Read, OthersStay
<1>3. CASE Refused(p) \/ Edits(p)
  <2>1. IdleReq.pc = "idle"
    BY DEF IdleReq
  <2>2. OthersStay(p) /\ req'[p] = IdleReq /\ rules' = rules
    BY <1>3, KindsOfRequests DEF Refused, Refuse, Tables, Edits
  <2>3. QED
    BY <2>1, <2>2 DEF Read, OthersStay
<1>4. CASE Takes(p)
  <2>1. PICK s \in RequestType : /\ req' = [req EXCEPT ![p] = s] /\ StepsFit(s)
                                 /\ s.pc \in {"insMenus", "delRules", "commit"} /\ rules' = rules
    BY <1>4 DEF Takes
  <2>2. req'[p] = s /\ OthersStay(p)
    BY <2>1, OneRequestGoes DEF OthersStay
  <2>3. QED
    BY <2>1, <2>2 DEF Read, OthersStay
<1>5. CASE Ends(p)
  <2>1. SUFFICES ASSUME NEW x \in Request, req'[x].pc = "install", ~req'[x].late
                 PROVE  req'[x].loaded = rules'
    BY DEF Read
  <2>2. x # p
    BY <1>5, <2>1 DEF Ends
  <2>3. /\ Ages(req[x], req'[x])
        /\ req'[x].late = (req[x].late \/ (req[x].pc = "install" /\ req[p].r \notin Bypass))
    BY <1>5, <2>2 DEF Ends, OthersAge
  <2>4. req[x].pc = "install" /\ ~req[x].late /\ req[p].r \in Bypass /\ req'[x].loaded = req[x].loaded
    BY <2>1, <2>3 DEF Ages
  <2>5. QED
    BY <1>5, <2>4, BypassKeepsRules DEF Read
<1>6. CASE Loads(p)
  <2>1. PICK s \in RequestType : /\ StepsFit(s) /\ req' = [req EXCEPT ![p] = s] /\ rules' = rules
                                 /\ s.pc = "install" => s.loaded = rules
    BY <1>6 DEF Loads
  <2>2. req'[p] = s /\ OthersStay(p)
    BY <2>1, OneRequestGoes DEF OthersStay
  <2>3. QED
    BY <2>1, <2>2 DEF Read, OthersStay
<1>7. QED
  BY <1>1, <1>2, <1>3, <1>4, <1>5, <1>6

LEMMA FreshStays ==
  ASSUME PolicyTypeInv, Read, EnforcerIsFresh, PolicyNext
  PROVE  EnforcerIsFresh'
<1>1. PICK p \in Request : Moves(p) \/ Refused(p) \/ Takes(p) \/ Edits(p) \/ Ends(p) \/ Loads(p)
  BY StepKinds
<1>2. PICK r \in Request : mem = rules \/ behind \/ req[r].pc \in {"reload", "install"}
  BY <1>1 DEF EnforcerIsFresh
<1>3. ASSUME OthersStay(p), req[p].pc \notin {"reload", "install"}, UNCHANGED <<mem, rules, behind>>
      PROVE  EnforcerIsFresh'
  BY <1>2, <1>3 DEF EnforcerIsFresh, OthersStay
<1>4. CASE Moves(p)
  <2>1. PICK s \in RequestType : /\ Onward(req[p], s) /\ OthersStay(p)
                                 /\ UNCHANGED <<mem, rules, behind>>
    BY <1>4, KindsOfRequests DEF Reads, Tables
  <2>2. req[p].pc \notin {"reload", "install"}
    BY <2>1 DEF Onward, Comes, IsFound, IsManaged, IsRanked, HasWeaker,
       HasParent, Climbs, IsCounted, DropsMenus, DropsRules, PutsRules
  <2>3. QED
    BY <1>3, <2>1, <2>2
<1>5. CASE Refused(p) \/ Takes(p) \/ Edits(p)
  <2>1. OthersStay(p)
    BY <1>5, KindsOfRequests
  <2>2. req[p].pc \notin {"reload", "install"} /\ UNCHANGED <<mem, rules, behind>>
    BY <1>5 DEF Refused, Refuse, Tables, Takes, Locks, Puts, Edits
  <2>3. QED
    BY <1>3, <2>1, <2>2
<1>6. CASE Ends(p)
  <2>1. req[p].pc = "commit" /\ OthersAge(p) /\ UNCHANGED <<mem, behind>>
    BY <1>6 DEF Ends
  <2>2. CASE req[p].r \in Bypass
    <3>1. rules' = rules
      BY <1>6, <2>2, BypassKeepsRules
    <3>2. CASE mem = rules \/ behind
      BY <2>1, <3>1, <3>2 DEF EnforcerIsFresh
    <3>3. CASE req[r].pc \in {"reload", "install"}
      <4>1. req'[r].pc = req[r].pc
        BY <2>1, <3>3 DEF OthersAge, Ages
      <4>2. QED
        BY <3>3, <4>1 DEF EnforcerIsFresh
    <3>4. QED
      BY <1>2, <3>2, <3>3
  <2>3. CASE req[p].r \notin Bypass
    <3>1. req'[p].pc = "reload"
      BY <1>6, <2>3 DEF Ends
    <3>2. QED
      BY <3>1 DEF EnforcerIsFresh
  <2>4. QED
    BY <2>2, <2>3
<1>7. CASE Loads(p)
  <2>1. PICK s \in RequestType :
          /\ StepsFit(s) /\ req' = [req EXCEPT ![p] = s] /\ s.pc \in {"idle", "reload", "install"}
          /\ \/ mem' = mem /\ behind' = behind /\ s.pc # "idle"
             \/ mem' = mem /\ behind' = TRUE
             \/ req[p].pc = "install" /\ mem' = req[p].loaded /\ behind' = req[p].late
    BY <1>7 DEF Loads
  <2>2. req'[p] = s /\ rules' = rules
    BY <1>7, <2>1, OneRequestGoes DEF Loads
  <2>3. CASE s.pc # "idle"
    BY <2>1, <2>2, <2>3 DEF EnforcerIsFresh
  <2>4. CASE behind' = TRUE
    BY <2>4 DEF EnforcerIsFresh
  <2>5. CASE req[p].pc = "install" /\ mem' = req[p].loaded /\ behind' = req[p].late
    BY <2>2, <2>5 DEF EnforcerIsFresh, Read
  <2>6. QED
    BY <2>1, <2>3, <2>4, <2>5
<1>8. QED
  BY <1>1, <1>4, <1>5, <1>6, <1>7

-----------------------------------------------------------------------------
(* Rules and the menus behind them.                                        *)

(* What the steps do to the menus that a request has written.              *)
SameRows(x, y) ==
  y.pc \in Writing =>
    x.pc \in Writing /\ y.r = x.r /\ y.snapM = x.snapM /\ y.put = x.put /\ y.met = x.met

LEMMA RowsOfRequests ==
  ASSUME PolicyTypeInv, NEW p \in Request
  PROVE  /\ Moves(p) \/ Refused(p) \/ Edits(p) \/ Loads(p) =>
              /\ OthersStay(p) /\ SameRows(req[p], req'[p]) /\ menus' = menus
              /\ slipped' = slipped
         /\ Ends(p) => OthersAge(p) /\ req'[p].pc \notin Writing /\ slipped' = slipped
<1>1. ASSUME Moves(p)
      PROVE  OthersStay(p) /\ SameRows(req[p], req'[p]) /\ menus' = menus /\ slipped' = slipped
  <2>1. PICK s \in RequestType : Onward(req[p], s) /\ req'[p] = s /\ OthersStay(p)
                                 /\ menus' = menus /\ slipped' = slipped
    BY <1>1, KindsOfRequests DEF Reads, Tables
  <2>2. SameRows(req[p], s)
    BY <2>1 DEF Onward, Comes, IsFound, IsManaged, IsRanked, HasWeaker, HasParent, Climbs,
       IsCounted,
       DropsMenus, DropsRules, PutsRules, Writing, SameRows, SameDemand, SameMenus, SameGoal
  <2>3. QED
    BY <2>1, <2>2
<1>2. ASSUME Refused(p) \/ Edits(p) \/ Loads(p)
      PROVE  OthersStay(p) /\ SameRows(req[p], req'[p]) /\ menus' = menus /\ slipped' = slipped
  <2>1. IdleReq.pc = "idle"
    BY DEF IdleReq
  <2>2. OthersStay(p) /\ req'[p].pc \in {"idle", "reload", "install"}
    BY <1>2, <2>1, KindsOfRequests
  <2>3. menus' = menus /\ slipped' = slipped
    BY <1>2 DEF Refused, Refuse, Tables, Edits, Loads
  <2>4. QED
    BY <2>2, <2>3 DEF SameRows, Writing
<1>3. ASSUME Ends(p) PROVE OthersAge(p) /\ req'[p].pc \notin Writing /\ slipped' = slipped
  BY <1>3 DEF Ends, Writing
<1>4. QED
  BY <1>1, <1>2, <1>3

LEMMA AgedRows ==
  ASSUME NEW x, NEW y, Ages(x, y)
  PROVE  SameRows(x, y)
BY DEF Ages, SameRows, SameGoal, Writing

LEMMA SameRowsAreSame ==
  ASSUME NEW x, NEW y, SameRows(x, y)
  PROVE  MenuRows(y) \subseteq MenuRows(x)
BY DEF SameRows, MenuRows

(* The rows that a request has after it took one or deleted its menus.     *)
LEMMA TakenRows ==
  ASSUME PolicyTypeInv, NEW p \in Request, Takes(p)
  PROVE  \E s \in RequestType, M \in SUBSET Menu :
           /\ req'[p] = s /\ OthersStay(p) /\ s.pc \in Writing
           /\ s.r = req[p].r /\ s.snapM = req[p].snapM
           /\ Free(p, M) /\ MenuRows(s) \subseteq MenuRows(req[p]) \cup ({s.r} \X M)
<1>1. PICK q \in RequestType : q = req[p] /\ StepsFit(q)
  BY RequestIsTyped
<1>2. PICK s \in RequestType :
        /\ req' = [req EXCEPT ![p] = s] /\ StepsFit(s) /\ SameGoal(q, s) /\ s.snapM = q.snapM
        /\ s.pc \in {"insMenus", "delRules", "commit"}
        /\ Locks(p, s) \/ Puts(p, s)
  BY <1>1 DEF Takes
<1>3. req'[p] = s /\ OthersStay(p) /\ s.pc \in Writing /\ s.r = q.r
  BY <1>2, OneRequestGoes DEF OthersStay, Writing, SameGoal
<1>4. CASE Locks(p, s)
  <2>1. s.put = {} /\ Free(p, q.snapM) /\ q.snapM \in SUBSET Menu
    BY <1>1, <1>4 DEF Locks, RequestType
  <2>2. MenuRows(s) \subseteq {s.r} \X q.snapM
    BY <1>2, <2>1 DEF MenuRows
  <2>3. QED
    BY <1>1, <1>2, <1>3, <2>1, <2>2
<1>5. CASE Puts(p, s)
  <2>1. PICK m \in q.want : Free(p, {m}) /\ s.put \subseteq q.put \cup {m}
    BY <1>1, <1>5 DEF Puts
  <2>2. q.pc \in Writing /\ {m} \in SUBSET Menu
    BY <1>1, <1>5, <2>1 DEF Puts, Writing, RequestType
  <2>3. MenuRows(s) \subseteq MenuRows(q) \cup ({s.r} \X {m})
    BY <1>2, <1>3, <2>1, <2>2 DEF MenuRows
  <2>4. QED
    BY <1>1, <1>2, <1>3, <2>1, <2>2, <2>3
<1>6. QED
  BY <1>2, <1>4, <1>5

LEMMA SeparateStays ==
  ASSUME PolicyTypeInv, Separate, PolicyNext
  PROVE  Separate'
<1>1. PICK p \in Request : Moves(p) \/ Refused(p) \/ Takes(p) \/ Edits(p) \/ Ends(p) \/ Loads(p)
  BY StepKinds
<1>2. CASE ~Takes(p)
  <2>1. ASSUME NEW x \in Request PROVE MenuRows(req'[x]) \subseteq MenuRows(req[x])
    <3>1. SameRows(req[x], req'[x])
      <4>1. CASE Ends(p)
        <5>1. CASE x = p
          BY <4>1, <5>1, RowsOfRequests DEF SameRows
        <5>2. CASE x # p
          BY <4>1, <5>2, RowsOfRequests, AgedRows DEF OthersAge
        <5>3. QED
          BY <5>1, <5>2
      <4>2. CASE ~Ends(p)
        <5>1. OthersStay(p) /\ SameRows(req[p], req'[p])
          BY <1>1, <1>2, <4>2, RowsOfRequests
        <5>2. SameRows(req[x], req[x])
          BY DEF SameRows
        <5>3. QED
          BY <5>1, <5>2 DEF OthersStay
      <4>3. QED
        BY <4>1, <4>2
    <3>2. QED
      BY <3>1, SameRowsAreSame
  <2>2. SUFFICES ASSUME NEW x \in Request, NEW y \in Request, x # y
                 PROVE  MenuRows(req'[x]) \cap MenuRows(req'[y]) = {}
    BY DEF Separate, MenuRows
  <2>3. MenuRows(req[x]) \cap MenuRows(req[y]) = {}
    BY <2>2 DEF Separate
  <2>4. MenuRows(req'[x]) \subseteq MenuRows(req[x]) /\ MenuRows(req'[y]) \subseteq MenuRows(req[y])
    BY <2>1
  <2>5. QED
    BY <2>3, <2>4
<1>3. CASE Takes(p)
  <2>1. PICK s \in RequestType, M \in SUBSET Menu :
          /\ req'[p] = s /\ OthersStay(p) /\ s.r = req[p].r
          /\ Free(p, M) /\ MenuRows(s) \subseteq MenuRows(req[p]) \cup ({s.r} \X M)
    BY <1>3, TakenRows
  <2>2. ASSUME NEW y \in Request, y # p
        PROVE  MenuRows(req'[p]) \cap MenuRows(req'[y]) = {}
    <3>1. req'[y] = req[y]
      BY <2>1, <2>2 DEF OthersStay
    <3>2. MenuRows(req[p]) \cap MenuRows(req[y]) = {}
      BY <2>2 DEF Separate
    <3>3. MenuRows(req[y]) \cap ({s.r} \X M) = {}
      BY <2>1, <2>2 DEF Free
    <3>4. QED
      BY <2>1, <3>1, <3>2, <3>3
  <2>3. SUFFICES ASSUME NEW x \in Request, NEW y \in Request, x # y
                 PROVE  MenuRows(req'[x]) \cap MenuRows(req'[y]) = {}
    BY DEF Separate, MenuRows
  <2>4. CASE x # p /\ y # p
    <3>1. req'[x] = req[x] /\ req'[y] = req[y]
      BY <2>1, <2>4 DEF OthersStay
    <3>2. QED
      BY <2>3, <3>1 DEF Separate
  <2>5. QED
    BY <2>2, <2>3, <2>4
<1>4. QED
  BY <1>2, <1>3

(* What a request has found in place, and what another has deleted.        *)
LEMMA ReliedStays ==
  ASSUME PolicyTypeInv, Separate, Relied, PolicyNext
  PROVE  Relied'
<1>1. PICK p \in Request : Moves(p) \/ Refused(p) \/ Takes(p) \/ Edits(p) \/ Ends(p) \/ Loads(p)
  BY StepKinds
<1>2. SUFFICES ASSUME NEW x \in Request, req'[x].pc \in Writing, CodeOf[req'[x].r] \notin slipped'
               PROVE  /\ req'[x].met \subseteq menus'[req'[x].r] \ req'[x].snapM
                      /\ \A y \in Request :
                           y # x /\ req'[y].pc \in Writing /\ req'[y].r = req'[x].r =>
                             req'[x].met \cap req'[y].snapM = {}
  BY DEF Relied
<1>3. CASE Moves(p) \/ Refused(p) \/ Edits(p) \/ Loads(p)
  <2>1. OthersStay(p) /\ SameRows(req[p], req'[p]) /\ menus' = menus /\ slipped' = slipped
    BY <1>3, RowsOfRequests
  <2>2. \A y \in Request : SameRows(req[y], req'[y])
    BY <2>1 DEF OthersStay, SameRows
  <2>3. /\ req[x].pc \in Writing /\ CodeOf[req[x].r] \notin slipped
        /\ req'[x].r = req[x].r /\ req'[x].met = req[x].met /\ req'[x].snapM = req[x].snapM
    BY <1>2, <2>1, <2>2 DEF SameRows
  <2>4. ASSUME NEW y \in Request, y # x, req'[y].pc \in Writing, req'[y].r = req'[x].r
        PROVE  req'[x].met \cap req'[y].snapM = {}
    <3>1. req[y].pc \in Writing /\ req[y].r = req[x].r /\ req'[y].snapM = req[y].snapM
      BY <2>2, <2>3, <2>4 DEF SameRows
    <3>2. QED
      BY <2>3, <2>4, <3>1 DEF Relied
  <2>5. QED
    BY <2>1, <2>3, <2>4 DEF Relied
<1>4. CASE Takes(p)
  <2>1. PICK q \in RequestType : q = req[p] /\ StepsFit(q)
    BY RequestIsTyped
  <2>2. PICK s \in RequestType :
          /\ req' = [req EXCEPT ![p] = s] /\ StepsFit(s) /\ s.r = q.r /\ s.snapM = q.snapM
          /\ menus' = menus
          /\ Locks(p, s) \/ Puts(p, s)
    BY <1>4, <2>1 DEF Takes, SameGoal
  <2>3. req'[p] = s /\ OthersStay(p)
    BY <2>2, OneRequestGoes DEF OthersStay
  <2>4. CASE Locks(p, s)
    <3>1. /\ q.pc = "lockMenus" /\ s.met = {} /\ slipped \subseteq slipped'
          /\ \A y \in Request \ {p} :
               req[y].pc \in Writing /\ req[y].r = q.r /\ req[y].met \cap q.snapM # {} =>
                 CodeOf[q.r] \in slipped'
      BY <2>1, <2>4 DEF Locks
    <3>2. CASE x = p
      BY <2>3, <3>1, <3>2
    <3>3. CASE x # p
      <4>1. req'[x] = req[x] /\ CodeOf[req[x].r] \notin slipped
        BY <1>2, <2>3, <3>1, <3>3 DEF OthersStay
      <4>2. ASSUME NEW y \in Request, y # x, req'[y].pc \in Writing, req'[y].r = req[x].r
            PROVE  req[x].met \cap req'[y].snapM = {}
        <5>1. CASE y = p
          BY <1>2, <2>2, <2>3, <3>1, <3>3, <4>1, <4>2, <5>1
        <5>2. CASE y # p
          BY <1>2, <2>3, <4>1, <4>2, <5>2 DEF OthersStay, Relied
        <5>3. QED
          BY <5>1, <5>2
      <4>3. QED
        BY <1>2, <2>2, <4>1, <4>2 DEF Relied
    <3>4. QED
      BY <3>2, <3>3
  <2>5. CASE Puts(p, s)
    <3>1. PICK m \in q.want :
            /\ Free(p, {m}) /\ slipped' = slipped /\ q.pc = "insMenus"
            /\ \/ m \in menus[q.r] \ q.snapM /\ s.met = q.met \cup {m}
               \/ s.met = q.met
      BY <2>1, <2>5 DEF Puts
    <3>2. q.pc \in Writing
      BY <3>1 DEF Writing
    <3>3. CASE x = p
      <4>1. CodeOf[q.r] \notin slipped
        BY <1>2, <2>2, <2>3, <3>1, <3>3
      <4>2. q.met \subseteq menus[q.r] \ q.snapM
        BY <2>1, <3>2, <4>1 DEF Relied
      <4>3. ASSUME NEW y \in Request, y # p, req[y].pc \in Writing, req[y].r = q.r
            PROVE  s.met \cap req[y].snapM = {}
        <5>1. q.met \cap req[y].snapM = {}
          BY <2>1, <3>2, <4>1, <4>3 DEF Relied
        <5>2. m \notin req[y].snapM
          <6>1. MenuRows(req[y]) \cap ({q.r} \X {m}) = {}
            BY <2>1, <3>1, <4>3 DEF Free
          <6>2. MenuRows(req[y]) = {q.r} \X (req[y].snapM \cup req[y].put)
            BY <4>3 DEF MenuRows
          <6>3. m \in req[y].snapM => <<q.r, m>> \in MenuRows(req[y])
            BY <6>2
          <6>4. QED
            BY <6>1, <6>3
        <5>3. QED
          BY <3>1, <5>1, <5>2
      <4>4. QED
        BY <2>2, <2>3, <3>1, <3>3, <4>2, <4>3 DEF OthersStay
    <3>4. CASE x # p
      <4>1. req'[x] = req[x] /\ CodeOf[req[x].r] \notin slipped
        BY <1>2, <2>3, <3>1, <3>4 DEF OthersStay
      <4>2. ASSUME NEW y \in Request, y # x, req'[y].pc \in Writing, req'[y].r = req[x].r
            PROVE  req[x].met \cap req'[y].snapM = {}
        <5>1. req[y].pc \in Writing /\ req[y].r = req[x].r /\ req'[y].snapM = req[y].snapM
          BY <2>1, <2>2, <2>3, <3>2, <4>2 DEF OthersStay
        <5>2. QED
          BY <1>2, <4>1, <4>2, <5>1 DEF Relied
      <4>3. QED
        BY <1>2, <2>2, <4>1, <4>2 DEF Relied
    <3>5. QED
      BY <3>3, <3>4
  <2>6. QED
    BY <2>2, <2>4, <2>5
<1>5. CASE Ends(p)
  <2>1. PICK q \in RequestType : q = req[p] /\ StepsFit(q)
    BY RequestIsTyped
  <2>2. OthersAge(p) /\ x # p /\ slipped' = slipped /\ req'[p].pc \notin Writing
    BY <1>2, <1>5, RowsOfRequests
  <2>3. \A y \in Request : y # p => SameRows(req[y], req'[y])
    BY <2>2, AgedRows DEF OthersAge
  <2>4. /\ req[x].pc \in Writing /\ CodeOf[req[x].r] \notin slipped
        /\ req'[x].r = req[x].r /\ req'[x].met = req[x].met /\ req'[x].snapM = req[x].snapM
    BY <1>2, <2>2, <2>3 DEF SameRows
  <2>5. ASSUME NEW y \in Request, y # x, req'[y].pc \in Writing, req'[y].r = req'[x].r
        PROVE  req'[x].met \cap req'[y].snapM = {}
    <3>1. req[y].pc \in Writing /\ req[y].r = req[x].r /\ req'[y].snapM = req[y].snapM
      BY <2>2, <2>3, <2>4, <2>5 DEF SameRows
    <3>2. QED
      BY <2>4, <2>5, <3>1 DEF Relied
  <2>6. q.pc \in Writing /\ q.r \in Role
    BY <1>5, <2>1 DEF Ends, Writing
  <2>7. req[x].met \subseteq menus[req[x].r] \ req[x].snapM
    BY <2>4 DEF Relied
  <2>8. req[x].r = q.r => req[x].met \cap q.snapM = {}
    BY <2>1, <2>2, <2>4, <2>6 DEF Relied
  <2>9. \A r \in Role : menus'[r] = IF r = q.r THEN (menus[r] \ q.snapM) \cup q.put ELSE menus[r]
    <3>1. menus' = [menus EXCEPT ![q.r] = (@ \ q.snapM) \cup q.put]
      BY <1>5, <2>1 DEF Ends
    <3>2. QED
      BY <3>1 DEF PolicyTypeInv
  <2>10. req[x].r \in Role
    BY <2>4, RequestIsTyped DEF StepsFit, Writing
  <2>11. req'[x].met \subseteq menus'[req'[x].r] \ req'[x].snapM
    <3>1. req[x].met \subseteq menus'[req[x].r]
      BY <2>7, <2>8, <2>9, <2>10
    <3>2. QED
      BY <2>4, <2>7, <3>1
  <2>12. QED
    BY <2>5, <2>11
<1>6. QED
  BY <1>1, <1>3, <1>4, <1>5

(* A step that changes neither menus nor rules keeps every rule covered,   *)
(* unless a request comes to the end with a menu and without its rule.     *)
LEMMA CoveredKept ==
  ASSUME Covered, NEW p \in Request, OthersStay(p), menus' = menus, rules' = rules,
         slipped \subseteq slipped',
         req'[p].pc \in Cleared /\ req'[p].r \notin Bypass =>
           \/ /\ req[p].pc \in Cleared /\ req'[p].r = req[p].r
              /\ req'[p].snapM = req[p].snapM /\ req'[p].snapC = req[p].snapC
           \/ req'[p].snapC = rules[CodeOf[req'[p].r]]
  PROVE  Covered'
<1>1. SUFFICES ASSUME NEW c \in Code, NEW i \in Api,
                      c \notin {CodeOf[b] : b \in Bypass} \cup slipped', i \in rules[c]
               PROVE  \E x \in Role, m \in Menu : RuleBehind(x, m, c, i)'
  BY DEF Covered
<1>2. PICK x \in Role, m \in Menu : RuleBehind(x, m, c, i)
  BY <1>1 DEF Covered
<1>3. x \notin Bypass
  BY <1>1, <1>2 DEF RuleBehind
<1>4. Stands(x, m, i)'
  <2>1. SUFFICES ASSUME NEW q \in Request,
                        req'[q].pc \in Cleared /\ req'[q].r = x /\ m \in req'[q].snapM
                 PROVE  i \in req'[q].snapC
    BY DEF Stands
  <2>2. CASE q # p
    BY <1>2, <2>1, <2>2 DEF OthersStay, RuleBehind, Stands
  <2>3. CASE q = p
    BY <1>1, <1>2, <1>3, <2>1, <2>3 DEF RuleBehind, Stands
  <2>4. QED
    BY <2>2, <2>3
<1>5. QED
  BY <1>2, <1>4 DEF RuleBehind

LEMMA CoveredByEnd ==
  ASSUME PolicyTypeInv, Separate, Relied, Covered, NEW p \in Request, Ends(p)
  PROVE  Covered'
<1>1. PICK q \in RequestType : q = req[p] /\ StepsFit(q)
  BY RequestIsTyped
<1>2. /\ q.pc = "commit" /\ q.r \in Role /\ OthersAge(p) /\ req'[p].pc \notin Cleared
      /\ slipped' = slipped
  BY <1>1 DEF Ends, Cleared
<1>w. q.pc \in Writing /\ q.pc \in Cleared /\ q.pc \in Inserted
  BY <1>2 DEF Writing, Cleared, Inserted
<1>3. \A x \in Role : menus'[x] = IF x = q.r THEN (menus[x] \ q.snapM) \cup q.put ELSE menus[x]
  <2>1. menus' = [menus EXCEPT ![q.r] = (@ \ q.snapM) \cup q.put]
    BY <1>1 DEF Ends
  <2>2. QED
    BY <2>1 DEF PolicyTypeInv
<1>4. \A c \in Code : rules'[c] = IF c = CodeOf[q.r] THEN (rules[c] \ q.snapC) \cup q.putC ELSE rules[c]
  <2>1. rules' = [rules EXCEPT ![CodeOf[q.r]] = (@ \ q.snapC) \cup q.putC]
    BY <1>1 DEF Ends
  <2>2. QED
    BY <2>1 DEF PolicyTypeInv
<1>5. SUFFICES ASSUME NEW c \in Code, NEW i \in Api,
                      c \notin {CodeOf[b] : b \in Bypass} \cup slipped, i \in rules'[c]
               PROVE  \E x \in Role, m \in Menu : RuleBehind(x, m, c, i)'
  BY <1>2 DEF Covered
<1>6. ASSUME NEW s \in Request, req'[s].pc \in Cleared
      PROVE  /\ s # p /\ req[s].pc \in Cleared /\ req[s].pc \in Writing /\ req'[s].r = req[s].r
             /\ req'[s].snapM = req[s].snapM
             /\ \A j \in req[s].snapC \ req'[s].snapC :
                  CodeOf[req[s].r] = CodeOf[q.r] /\ j \in q.snapC
  <2>1. s # p /\ Ages(req[s], req'[s])
    BY <1>2, <1>6 DEF OthersAge
  <2>2. \A j \in req[s].snapC \ req'[s].snapC : CodeOf[req[s].r] = CodeOf[q.r] /\ j \in q.snapC
    BY <1>1, <2>1 DEF Ends
  <2>3. QED
    BY <1>6, <2>1, <2>2 DEF Ages, SameGoal, Cleared, Writing
<1>7. CASE c = CodeOf[q.r] /\ i \in q.putC
  <2>1. i \in ApisOf(q.want) /\ q.want \subseteq q.put \cup q.met /\ q.want \subseteq Menu
    BY <1>1, <1>7, <1>w DEF StepsFit, RequestType
  <2>2. PICK m \in q.want : i \in Apis[m]
    BY <2>1 DEF ApisOf
  <2>3. m \in Menu /\ (m \in q.put \/ m \in q.met)
    BY <2>1, <2>2
  <2>4. m \in q.met => m \in menus[q.r] \ q.snapM
    BY <1>1, <1>5, <1>7, <1>w DEF Relied
  <2>5. m \in menus'[q.r]
    BY <1>2, <1>3, <2>3, <2>4
  <2>6. ASSUME NEW s \in Request, req'[s].pc \in Cleared, req'[s].r = q.r, m \in req'[s].snapM
        PROVE  FALSE
    <3>1. s # p /\ req[s].pc \in Writing /\ req[s].r = q.r /\ m \in req[s].snapM
      BY <1>6, <2>6
    <3>2. m \notin q.met
      BY <1>1, <1>5, <1>7, <1>w, <3>1 DEF Relied
    <3>3. <<q.r, m>> \in MenuRows(req[s]) /\ <<q.r, m>> \in MenuRows(q)
      BY <1>w, <2>3, <3>1, <3>2 DEF MenuRows
    <3>4. QED
      BY <1>1, <3>1, <3>3 DEF Separate
  <2>7. RuleBehind(q.r, m, c, i)'
    BY <1>7, <2>2, <2>5, <2>6 DEF RuleBehind, Stands
  <2>8. QED
    BY <1>2, <2>3, <2>7
<1>8. CASE ~(c = CodeOf[q.r] /\ i \in q.putC)
  <2>1. i \in rules[c] /\ (c = CodeOf[q.r] => i \notin q.snapC)
    BY <1>4, <1>5, <1>8
  <2>2. PICK x \in Role, m \in Menu : RuleBehind(x, m, c, i)
    BY <1>5, <2>1 DEF Covered
  <2>3. x = q.r => m \notin q.snapM
    BY <1>1, <1>w, <2>1, <2>2 DEF RuleBehind, Stands
  <2>4. m \in menus'[x]
    BY <1>3, <2>2, <2>3 DEF RuleBehind
  <2>5. Stands(x, m, i)'
    <3>1. SUFFICES ASSUME NEW s \in Request,
                          req'[s].pc \in Cleared /\ req'[s].r = x /\ m \in req'[s].snapM
                   PROVE  i \in req'[s].snapC
      BY DEF Stands
    <3>2. req[s].pc \in Cleared /\ req[s].r = x /\ m \in req[s].snapM
      BY <1>6, <3>1
    <3>3. i \in req[s].snapC /\ CodeOf[x] = c
      BY <2>2, <3>2 DEF RuleBehind, Stands
    <3>4. QED
      BY <1>6, <2>1, <3>1, <3>2, <3>3
  <2>6. QED
    BY <2>2, <2>4, <2>5 DEF RuleBehind
<1>9. QED
  BY <1>7, <1>8

LEMMA CoveredStays ==
  ASSUME PolicyTypeInv, Separate, Relied, Covered, PolicyNext
  PROVE  Covered'
<1>1. PICK p \in Request : Moves(p) \/ Refused(p) \/ Takes(p) \/ Edits(p) \/ Ends(p) \/ Loads(p)
  BY StepKinds
<1>2. CASE Moves(p)
  <2>1. PICK s \in RequestType : /\ Onward(req[p], s) /\ req'[p] = s /\ OthersStay(p)
                                 /\ menus' = menus /\ rules' = rules /\ slipped' = slipped
    BY <1>2, KindsOfRequests DEF Reads, Tables
  <2>2. s.pc \in Cleared =>
          \/ s.snapC = rules[CodeOf[s.r]]
          \/ /\ req[p].pc \in Cleared /\ s.r = req[p].r
             /\ s.snapM = req[p].snapM /\ s.snapC = req[p].snapC
    BY <2>1 DEF Onward, Comes, IsFound, IsManaged, IsRanked, HasWeaker, HasParent, Climbs,
       IsCounted, DropsMenus, DropsRules, PutsRules, Cleared, SameDemand, SameMenus, SameGoal
  <2>3. QED
    BY <2>1, <2>2, CoveredKept
<1>3. CASE Refused(p) \/ Edits(p) \/ Loads(p)
  <2>1. OthersStay(p) /\ req'[p].pc \in {"idle", "reload", "install"}
    <3>1. IdleReq.pc = "idle"
      BY DEF IdleReq
    <3>2. QED
      BY <1>3, <3>1, KindsOfRequests
  <2>2. menus' = menus /\ rules' = rules /\ slipped' = slipped
    BY <1>3 DEF Refused, Refuse, Tables, Edits, Loads
  <2>3. QED
    BY <2>1, <2>2, CoveredKept DEF Cleared
<1>4. CASE Takes(p)
  <2>1. PICK s \in RequestType :
          /\ req' = [req EXCEPT ![p] = s] /\ StepsFit(s)
          /\ \/ s.pc \in {"insMenus", "delRules"}
             \/ s.pc = "commit" /\ s.r \in Bypass
          /\ menus' = menus /\ rules' = rules /\ slipped \subseteq slipped'
    BY <1>4 DEF Takes, Locks, Puts
  <2>2. req'[p] = s /\ OthersStay(p)
    BY <2>1, OneRequestGoes DEF OthersStay
  <2>3. QED
    BY <2>1, <2>2, CoveredKept DEF Cleared
<1>5. CASE Ends(p)
  BY <1>5, CoveredByEnd
<1>6. QED
  BY <1>1, <1>2, <1>3, <1>4, <1>5

LEMMA CoveredIsWithinMenus ==
  ASSUME PolicyTypeInv, Covered
  PROVE  PoliciesWithinMenus
<1>1. SUFFICES ASSUME NEW r \in Role \ Bypass, CodeOf[r] \notin slipped,
                      NEW i \in GetRolePermissions(r)
               PROVE  i \in UNION {ApisOf(GetRoleMenuIDs(x)) : x \in {y \in Role : CodeOf[y] = CodeOf[r]}}
  BY DEF PoliciesWithinMenus
<1>2. CodeOf[r] \in Code /\ i \in rules[CodeOf[r]] /\ i \in Api
  BY <1>1, CodesAndRoles DEF GetRolePermissions, ListCasbinPoliciesByRoleCode
<1>3. CodeOf[r] \notin {CodeOf[b] : b \in Bypass}
  BY PolicyAssumption
<1>4. PICK x \in Role, m \in Menu : RuleBehind(x, m, CodeOf[r], i)
  BY <1>1, <1>2, <1>3 DEF Covered
<1>5. i \in ApisOf(GetRoleMenuIDs(x)) /\ CodeOf[x] = CodeOf[r]
  BY <1>4 DEF RuleBehind, ApisOf, GetRoleMenuIDs, ListMenuIDsByRoleID
<1>6. QED
  BY <1>5

-----------------------------------------------------------------------------
(* What a request has read, and the hierarchy.                             *)

LEMMA KnownStays ==
  ASSUME PolicyTypeInv, Known, PolicyNext
  PROVE  Known'
<1>1. PICK p \in Request : Moves(p) \/ Refused(p) \/ Takes(p) \/ Edits(p) \/ Ends(p) \/ Loads(p)
  BY StepKinds
<1>2. PICK q \in RequestType : q = req[p] /\ StepsFit(q)
  BY RequestIsTyped
<1>3. CASE role' = role
  <2>1. /\ OthersStay(p) \/ OthersAge(p)
        /\ req'[p].pc \in Walking /\ req'[p].parent # NoRole => role[req'[p].parent].life # "none"
    <3>1. CASE Moves(p)
      <4>1. PICK s \in RequestType : Onward(q, s) /\ req'[p] = s /\ OthersStay(p)
        BY <1>2, <3>1, KindsOfRequests
      <4>2. s.pc \in Walking /\ s.parent # NoRole =>
              s.parent = q.parent /\ (q.pc \in Walking \/ Live(q.parent))
        BY <4>1 DEF Onward, Comes, IsFound, IsManaged, IsRanked, HasWeaker, HasParent, Climbs,
           IsCounted, DropsMenus, DropsRules, PutsRules, Walking, SameDemand, SameMenus,
           SameGoal, ParentAllowed
      <4>3. QED
        BY <1>2, <4>1, <4>2 DEF Known, Live
    <3>2. CASE Takes(p)
      <4>1. PICK s \in RequestType : /\ req' = [req EXCEPT ![p] = s] /\ StepsFit(s)
                                     /\ s.pc \in {"insMenus", "delRules", "commit"}
        BY <3>2 DEF Takes
      <4>2. QED
        BY <4>1, OneRequestGoes DEF OthersStay, Walking
    <3>3. CASE Refused(p) \/ Edits(p) \/ Loads(p)
      <4>1. IdleReq.pc = "idle"
        BY DEF IdleReq
      <4>2. QED
        BY <3>3, <4>1, KindsOfRequests DEF Walking
    <3>4. CASE Ends(p)
      BY <3>4 DEF Ends, Walking
    <3>5. QED
      BY <1>1, <3>1, <3>2, <3>3, <3>4
  <2>2. ASSUME NEW x \in Request, x # p
        PROVE  req'[x].pc = req[x].pc /\ req'[x].parent = req[x].parent
    BY <2>1, <2>2 DEF OthersStay, OthersAge, Ages, SameGoal
  <2>3. QED
    BY <1>3, <2>1, <2>2 DEF Known, Live
<1>4. CASE Edits(p)
  <2>1. /\ q.r \in Role /\ OthersStay(p) /\ req'[p].pc = "idle" /\ q.pc \in Walking
    <3>1. IdleReq.pc = "idle"
      BY DEF IdleReq
    <3>2. q.pc = "write" /\ q.r \in Role
      BY <1>2, <1>4 DEF Edits, StepsFit
    <3>3. QED
      BY <1>4, <3>1, <3>2, KindsOfRequests DEF Walking
  <2>2. /\ role'[q.r].parent = q.parent /\ role'[q.r].life = "live"
        /\ \A x \in Role \ {q.r} : role'[x] = role[x]
        /\ Live(q.r) \/ \A s \in Role : Live(s) => CodeOf[s] # CodeOf[q.r]
    BY <1>2, <1>4 DEF Edits
  <2>3. q.parent # NoRole => role[q.parent].life # "none"
    BY <1>2, <2>1 DEF Known
  <2>4. \A x \in Role : role[x].life # "none" => role'[x].life # "none"
    BY <2>2
  <2>5. \A x \in Role : role[x].parent \in Role \cup {NoRole}
    BY CodesAndRoles
  <2>6. \A r \in Role, s \in Role : Live(r)' /\ Live(s)' /\ CodeOf[r] = CodeOf[s] => r = s
    BY <2>1, <2>2 DEF Known, Live
  <2>7. ASSUME NEW x \in Role, role'[x].parent # NoRole
        PROVE  role'[role'[x].parent].life # "none"
    <3>1. CASE x = q.r
      BY <1>2, <2>2, <2>3, <2>4, <2>7, <3>1 DEF RequestType
    <3>2. CASE x # q.r
      BY <2>2, <2>4, <2>5, <2>7, <3>2 DEF Known
    <3>3. QED
      BY <3>1, <3>2
  <2>8. ASSUME NEW x \in Request, req'[x].pc \in Walking, req'[x].parent # NoRole
        PROVE  role'[req'[x].parent].life # "none"
    <3>1. x # p /\ req'[x] = req[x]
      BY <2>1, <2>8 DEF OthersStay, Walking
    <3>2. req[x].parent \in Role
      BY <2>8, <3>1, RequestIsTyped DEF RequestType
    <3>3. QED
      BY <2>4, <2>8, <3>1, <3>2 DEF Known
  <2>9. QED
    BY <2>6, <2>7, <2>8 DEF Known
<1>5. CASE Ends(p) /\ role' # role
  <2>1. /\ q.r \in Role /\ OthersAge(p) /\ req'[p].pc \notin Walking
    BY <1>2, <1>5 DEF Ends, Walking
  <2>2. role' = [role EXCEPT ![q.r].life = "deleted"]
    BY <1>2, <1>5 DEF Ends
  <2>3. \A x \in Role : /\ role'[x].parent = role[x].parent
                        /\ role'[x].life = IF x = q.r THEN "deleted" ELSE role[x].life
    <3>1. PICK t \in RoleType : t = role[q.r]
      BY <2>1, CodesAndRoles
    <3>2. [t EXCEPT !.life = "deleted"].parent = t.parent /\ [t EXCEPT !.life = "deleted"].life = "deleted"
      BY DEF RoleType
    <3>3. \A x \in Role : role'[x] = IF x = q.r THEN [t EXCEPT !.life = "deleted"] ELSE role[x]
      BY <2>2, <3>1 DEF PolicyTypeInv
    <3>4. QED
      BY <3>1, <3>2, <3>3
  <2>4. \A x \in Role : role[x].parent \in Role \cup {NoRole}
    BY CodesAndRoles
  <2>5. \A x \in Request : req'[x].pc \in Walking =>
                             req[x].pc \in Walking /\ req'[x].parent = req[x].parent
    BY <2>1 DEF OthersAge, Ages, SameGoal
  <2>6. \A x \in Request : req[x].parent \in Role \cup {NoRole}
    BY RequestIsTyped DEF RequestType
  <2>7. \A r \in Role, s \in Role : Live(r)' /\ Live(s)' /\ CodeOf[r] = CodeOf[s] => r = s
    BY <2>3 DEF Known, Live
  <2>8. \A x \in Role : role'[x].parent # NoRole => role'[role'[x].parent].life # "none"
    BY <2>3, <2>4 DEF Known
  <2>9. \A x \in Request : req'[x].pc \in Walking /\ req'[x].parent # NoRole =>
                             role'[req'[x].parent].life # "none"
    BY <2>3, <2>5, <2>6 DEF Known
  <2>10. QED
    BY <2>7, <2>8, <2>9 DEF Known
<1>6. QED
  <2>1. CASE Moves(p)
    BY <1>3, <2>1 DEF Moves, Reads, Tables
  <2>2. CASE Refused(p) \/ Takes(p) \/ Loads(p)
    BY <1>3, <2>2 DEF Refused, Refuse, Tables, Takes, Loads
  <2>3. QED
    BY <1>1, <1>3, <1>4, <1>5, <2>1, <2>2

(* A request knows what it has read. *)
Still(q) == StillThere(q) /\ StillRanked(q) /\ StillClimbing(q)

LEMMA WaitingIsStill ==
  ASSUME NEW q, q.pc \in Waiting
  PROVE  Still(q)
BY DEF Still, StillThere, StillRanked, StillClimbing, Waiting, Snapped, Writing, Walking

LEMMA AssigningIsStill ==
  ASSUME NEW q, StepsFit(q), q.op = "assign", Live(q.r)
  PROVE  Still(q)
BY DEF Still, StillThere, StillRanked, StillClimbing, StepsFit, Walking, Editing

LEMMA OnwardIsStill ==
  ASSUME PolicyTypeInv, NEW q \in RequestType, NEW s \in RequestType, StepsFit(q), StepsFit(s),
         Still(q), Onward(q, s)
  PROVE  Still(s)
<1>1. StillThere(s)
  BY DEF Still, StillThere, Onward, Comes, IsFound, IsManaged, IsRanked, HasWeaker, HasParent,
     Climbs,
     IsCounted, DropsMenus, DropsRules, PutsRules, Waiting, Snapped, Writing, SameDemand,
     SameMenus, SameGoal, StepsFit, Editing
<1>2. StillRanked(s)
  BY DEF Still, StillRanked, Onward, Comes, IsFound, IsManaged, IsRanked, HasWeaker, HasParent,
     Climbs,
     IsCounted, DropsMenus, DropsRules, PutsRules, SameDemand, SameMenus, SameGoal, StepsFit,
     Walking, ParentAllowed
<1>3. StillClimbing(s)
  <2>1. CASE HasParent(q, s)
    BY <2>1 DEF HasParent, StillClimbing, SameDemand, SameMenus, SameGoal, Way
  <2>2. CASE Climbs(q, s)
    <3>1. /\ q.parent # NoRole /\ q.cur \in Role /\ q.cur \notin q.visited /\ q.r \in q.visited
          /\ q.parent \in Way(q) \cup {q.cur}
          /\ \A x \in Way(q) : role[x].parent \in Way(q) \cup {q.cur, NoRole}
      BY <2>2 DEF Climbs, StepsFit, RequestType, ClosesCycle, Still, StillClimbing, Walking
    <3>2. Way(s) = Way(q) \cup {q.cur} /\ s.r = q.r /\ s.parent = q.parent /\ q.r \in s.visited
      BY <2>2, <3>1 DEF Climbs, Way, SameDemand, SameMenus, SameGoal
    <3>3. s.cur = role[q.cur].parent /\ (s.pc = "write" => s.cur = NoRole)
      BY <2>2 DEF Climbs
    <3>4. QED
      BY <3>1, <3>2, <3>3 DEF StillClimbing
  <2>3. CASE ~HasParent(q, s) /\ ~Climbs(q, s)
    BY <2>3 DEF StillClimbing, Onward, Comes, IsFound, IsManaged, IsRanked, HasWeaker,
       IsCounted, DropsMenus, DropsRules, PutsRules, SameDemand, SameMenus, SameGoal, StepsFit,
       Walking
  <2>4. QED
    BY <2>1, <2>2, <2>3
<1>4. QED
  BY <1>1, <1>2, <1>3 DEF Still

LEMMA SerialStays ==
  ASSUME PolicyTypeInv, Known, Serial, PolicyNext
  PROVE  Serial'
<1>1. PICK p \in Request : Moves(p) \/ Refused(p) \/ Takes(p) \/ Edits(p) \/ Ends(p) \/ Loads(p)
  BY StepKinds
<1>2. PICK q \in RequestType : q = req[p] /\ StepsFit(q)
  BY RequestIsTyped
<1>3. SUFFICES ASSUME ~overlapped'
               PROVE  /\ \A x \in Role : ~Live(x)' => menus'[x] = {}
                      /\ \A x \in Request : Still(req[x])'
  BY DEF Serial, Still
<1>4. ~overlapped
  BY <1>1, <1>3 DEF Moves, Reads, Tables, Refused, Refuse, Takes, Edits, Ends, Overlap, Loads
<1>5. /\ \A x \in Role : ~Live(x) => menus[x] = {}
      /\ \A x \in Request : Still(req[x])
  BY <1>4 DEF Serial, Still
<1>6. CASE UNCHANGED <<role, menus>> /\ ~Edits(p) /\ ~Ends(p)
  <2>1. OthersStay(p) /\ Still(req'[p])
    <3>1. CASE Moves(p)
      <4>1. PICK s \in RequestType : StepsFit(s) /\ Onward(q, s) /\ req'[p] = s /\ OthersStay(p)
        BY <1>2, <3>1, KindsOfRequests
      <4>2. QED
        BY <1>2, <1>5, <4>1, OnwardIsStill
    <3>2. CASE Takes(p)
      <4>1. PICK s \in RequestType :
              /\ req' = [req EXCEPT ![p] = s] /\ StepsFit(s) /\ SameGoal(q, s) /\ s.snapM = q.snapM
              /\ s.pc \in {"insMenus", "delRules", "commit"} /\ q.pc \in {"lockMenus", "insMenus"}
        BY <1>2, <3>2 DEF Takes, Locks, Puts
      <4>2. req'[p] = s /\ OthersStay(p)
        BY <4>1, OneRequestGoes DEF OthersStay
      <4>3. Still(q)
        BY <1>2, <1>5
      <4>4. Still(s)
        BY <4>1, <4>3 DEF Still, StillThere, StillRanked, StillClimbing, SameGoal, Waiting, Snapped,
           Writing, Walking
      <4>5. QED
        BY <4>2, <4>4
    <3>3. CASE Refused(p) \/ Loads(p)
      <4>1. IdleReq.pc = "idle"
        BY DEF IdleReq
      <4>2. OthersStay(p) /\ req'[p].pc \in {"idle", "reload", "install"}
        BY <3>3, <4>1, KindsOfRequests
      <4>3. QED
        BY <4>2, WaitingIsStill DEF Waiting
    <3>4. QED
      BY <1>1, <1>6, <3>1, <3>2, <3>3
  <2>2. \A x \in Request : Still(req'[x])
    BY <1>5, <2>1 DEF OthersStay
  <2>3. \A x \in Request : Still(req[x])'
    BY <1>6, <2>2 DEF Still, StillThere, StillRanked, StillClimbing, ChildrenAllow, Live, Way
  <2>4. QED
    BY <1>5, <1>6, <2>3 DEF Live
<1>7. CASE Edits(p) \/ Ends(p)
  <2>1. /\ \A x \in Request : x # p => req'[x].pc = req[x].pc /\ SameGoal(req[x], req'[x])
        /\ req'[p].pc \in Waiting /\ q.r \in Role
    <3>1. IdleReq.pc = "idle"
      BY DEF IdleReq
    <3>2. /\ \A x \in Request : x # p => req'[x].pc = req[x].pc /\ SameGoal(req[x], req'[x])
          /\ req'[p].pc \in Waiting
      <4>1. CASE Edits(p)
        BY <3>1, <4>1, KindsOfRequests DEF Waiting, OthersStay, SameGoal
      <4>2. CASE Ends(p)
        BY <4>2 DEF Ends, OthersAge, Ages, Waiting
      <4>3. QED
        BY <1>7, <4>1, <4>2
    <3>3. q.pc \in {"write", "commit"}
      BY <1>2, <1>7 DEF Edits, Ends
    <3>4. QED
      BY <1>2, <3>2, <3>3 DEF StepsFit
  <2>2. \A x \in Request \ {p} : req[x].pc \in Waiting \/ (q.op = "assign" /\ req[x].op = "assign")
    BY <1>2, <1>3, <1>7 DEF Edits, Ends, Overlap, Waiting
  <2>3. CASE Edits(p)
    <3>1. q.op # "assign" /\ menus' = menus
      BY <1>2, <2>3 DEF Edits
    <3>2. \A x \in Request : req'[x].pc \in Waiting
      BY <2>1, <2>2, <3>1
    <3>3. \A x \in Request : Still(req[x])'
      BY <3>2 DEF Still, StillThere, StillRanked, StillClimbing, Waiting, Snapped, Writing, Walking
    <3>4. \A x \in Role : Live(x) => Live(x)'
      BY <1>2, <2>3 DEF Edits, Live
    <3>5. QED
      BY <1>5, <3>1, <3>3, <3>4
  <2>4. CASE Ends(p) /\ q.op = "assign"
    <3>1. role' = role
      BY <1>2, <2>4 DEF Ends
    <3>2. Live(q.r)
      BY <1>2, <1>5, <2>4 DEF Ends, Still, StillThere, Waiting
    <3>3. \A x \in Role : x # q.r => menus'[x] = menus[x]
      BY <1>2, <2>4 DEF Ends, PolicyTypeInv
    <3>4. ASSUME NEW x \in Request PROVE Still(req[x])'
      <4>1. CASE req'[x].pc \in Waiting
        BY <4>1 DEF Still, StillThere, StillRanked, StillClimbing, Waiting, Snapped, Writing,
           Walking
      <4>2. CASE req'[x].pc \notin Waiting
        <5>1. /\ x # p /\ req'[x].pc = req[x].pc /\ req[x].op = "assign" /\ StepsFit(req[x])
              /\ req'[x].op = "assign" /\ req'[x].r = req[x].r
          BY <2>1, <2>2, <4>2, RequestIsTyped DEF SameGoal
        <5>2. Live(req[x].r)
          BY <1>5, <4>2, <5>1 DEF Still, StillThere
        <5>3. QED
          BY <3>1, <5>1, <5>2 DEF Still, StillThere, StillRanked, StillClimbing, StepsFit, Walking,
             Editing, Live
      <4>3. QED
        BY <4>1, <4>2
    <3>5. QED
      BY <1>5, <3>1, <3>2, <3>3, <3>4 DEF Live
  <2>5. CASE Ends(p) /\ q.op # "assign"
    <3>1. \A x \in Request : req'[x].pc \in Waiting
      BY <2>1, <2>2, <2>5
    <3>2. \A x \in Request : Still(req[x])'
      BY <3>1 DEF Still, StillThere, StillRanked, StillClimbing, Waiting, Snapped, Writing, Walking
    <3>3. q.op = "delete" /\ role' = [role EXCEPT ![q.r].life = "deleted"] /\ q.pc = "commit"
          /\ menus' = [menus EXCEPT ![q.r] = (@ \ q.snapM) \cup q.put]
      BY <1>2, <2>5 DEF Ends
    <3>4. q.put = {} /\ q.snapM = menus[q.r]
      BY <1>2, <1>5, <3>3 DEF Still, StillThere, Snapped, Writing, StepsFit
    <3>5. menus'[q.r] = {} /\ \A x \in Role : x # q.r => menus'[x] = menus[x] /\ role'[x] = role[x]
      BY <3>3, <3>4, <2>1 DEF PolicyTypeInv
    <3>6. QED
      BY <1>5, <3>2, <3>5 DEF Live
  <2>6. QED
    BY <1>7, <2>3, <2>4, <2>5
<1>8. QED
  <2>1. CASE Moves(p) \/ Refused(p) \/ Takes(p) \/ Loads(p)
    BY <1>6, <1>7, <2>1 DEF Moves, Reads, Tables, Refused, Refuse, Tables, Takes, Loads
  <2>2. QED
    BY <1>1, <1>7, <2>1

ParentOf == [x \in Role |-> role[x].parent]

LEMMA HierarchyStays ==
  ASSUME PolicyTypeInv, Known, Serial, SerialEditsKeepHierarchy, PolicyNext
  PROVE  SerialEditsKeepHierarchy'
<1>1. PICK p \in Request : Moves(p) \/ Refused(p) \/ Takes(p) \/ Edits(p) \/ Ends(p) \/ Loads(p)
  BY StepKinds
<1>2. PICK q \in RequestType : q = req[p] /\ StepsFit(q)
  BY RequestIsTyped
<1>3. SUFFICES ASSUME ~overlapped'
               PROVE  \A r \in Role :
                        /\ r \notin AncestorsIn(ParentOf', r)
                        /\ /\ role'[r].life = "live" /\ role'[r].parent # NoRole
                           /\ role'[role'[r].parent].life = "live"
                           => role'[r].prio <= role'[role'[r].parent].prio
  BY DEF SerialEditsKeepHierarchy, Ancestors, ParentOf, AncestorsIn, Reach, UpLinks, Live
<1>4. ~overlapped
  BY <1>1, <1>3 DEF Moves, Reads, Tables, Refused, Refuse, Takes, Edits, Ends, Overlap, Loads
<1>5. \A r \in Role :
        /\ r \notin AncestorsIn(ParentOf, r)
        /\ Live(r) /\ role[r].parent # NoRole /\ Live(role[r].parent) =>
             role[r].prio <= role[role[r].parent].prio
  BY <1>4 DEF SerialEditsKeepHierarchy, Ancestors, ParentOf
<1>6. ParentOf \in [Role -> Role \cup {NoRole}]
  BY CodesAndRoles DEF ParentOf
<1>7. CASE role' = role
  BY <1>5, <1>7 DEF ParentOf, Live
<1>8. CASE Ends(p) /\ role' # role
  <2>1. q.r \in Role /\ role' = [role EXCEPT ![q.r].life = "deleted"]
    BY <1>2, <1>8 DEF Ends
  <2>2. \A x \in Role : /\ role'[x].parent = role[x].parent /\ role'[x].prio = role[x].prio
                        /\ role'[x].life = "live" => role[x].life = "live"
    <3>1. PICK t \in RoleType : t = role[q.r]
      BY <2>1, CodesAndRoles
    <3>2. PICK s : s = [t EXCEPT !.life = "deleted"]
      OBVIOUS
    <3>3. s.parent = t.parent /\ s.life = "deleted" /\ s.prio = t.prio
      BY <3>2 DEF RoleType
    <3>4. \A x \in Role : role'[x] = IF x = q.r THEN s ELSE role[x]
      BY <2>1, <3>1, <3>2 DEF PolicyTypeInv
    <3>5. QED
      BY <3>1, <3>3, <3>4
  <2>3. ParentOf' = ParentOf
    BY <2>2 DEF ParentOf
  <2>4. \A x \in Role : role[x].parent \in Role \cup {NoRole}
    BY CodesAndRoles
  <2>5. QED
    BY <1>5, <2>2, <2>3, <2>4 DEF Live
<1>9. CASE Edits(p)
  <2> DEFINE r == q.r
             n == q.parent
  <2>1. /\ q.pc = "write" /\ r \in Role /\ n \in Role \cup {NoRole} /\ q.prio \in Nat
        /\ role'[r].parent = n /\ role'[r].prio = q.prio /\ role'[r].life = "live"
        /\ \A x \in Role \ {r} : role'[x] = role[x]
        /\ role' \in [Role -> RoleType]
        /\ \/ q.op = "create" /\ role[r].life = "none"
           \/ q.op = "update" /\ Live(r)
    BY <1>2, <1>9 DEF Edits, StepsFit, RequestType
  <2>2. StillRanked(q) /\ StillClimbing(q)
    BY <1>2, <1>4 DEF Serial
  <2>3. n # NoRole => n # r /\ q.prio <= role[n].prio
    BY <2>1, <2>2 DEF StillRanked, Walking
  <2>4. \A c \in Role : Live(c) /\ role[c].parent = r => role[c].prio <= q.prio
    <3>1. CASE q.op = "update"
      BY <2>1, <2>2, <3>1 DEF StillRanked, ChildrenAllow
    <3>2. CASE q.op = "create"
      <4>1. r # NoRole
        BY <2>1, PolicyAssumption
      <4>2. QED
        BY <2>1, <3>2, <4>1 DEF Known, Live
    <3>3. QED
      BY <2>1, <3>1, <3>2
  <2>5. ParentOf' = [ParentOf EXCEPT ![r] = n] /\ ParentOf' \in [Role -> Role \cup {NoRole}]
    BY <1>6, <2>1 DEF ParentOf
  <2>6. PICK W \in SUBSET Role : /\ r \notin W /\ n \in W \cup {NoRole}
                                 /\ \A x \in W : ParentOf[x] \in W \cup {NoRole}
    <3>1. CASE n = NoRole
      <4>1. {} \in SUBSET Role /\ r \notin {} /\ n \in {} \cup {NoRole}
            /\ \A x \in {} : ParentOf[x] \in {} \cup {NoRole}
        BY <3>1
      <4>2. QED
        BY <4>1
    <3>2. CASE n # NoRole
      <4>1. /\ q.visited \in SUBSET Role /\ q.cur = NoRole
            /\ n \in Way(q) \cup {NoRole}
            /\ \A x \in Way(q) : role[x].parent \in Way(q) \cup {NoRole}
        BY <2>1, <2>2, <3>2 DEF StillClimbing, Walking, RequestType
      <4>2. Way(q) \in SUBSET Role /\ r \notin Way(q)
        BY <4>1 DEF Way
      <4>3. \A x \in Way(q) : ParentOf[x] \in Way(q) \cup {NoRole}
        BY <4>1, <4>2 DEF ParentOf
      <4>4. QED
        BY <4>1, <4>2, <4>3
    <3>3. QED
      BY <3>1, <3>2
  <2>7. \A s \in Role : s \notin AncestorsIn(ParentOf', s)
    <3>1. PICK P \in [Role -> Role \cup {NoRole}], Q \in [Role -> Role \cup {NoRole}] :
            P = ParentOf /\ Q = ParentOf'
      BY <1>6, <2>5
    <3>2. r \in Role /\ n \in Role \cup {NoRole} /\ Q = [P EXCEPT ![r] = n]
      BY <2>1, <2>5, <3>1
    <3>3. (\A s \in Role : s \notin AncestorsIn(P, s)) /\ \A x \in W : P[x] \in W \cup {NoRole}
      BY <1>5, <2>6, <3>1
    <3> HIDE DEF r, n
    <3>4. \A s \in Role : s \notin AncestorsIn(Q, s)
      BY <2>6, <3>2, <3>3, NoNewCycle
    <3>5. QED
      BY <3>1, <3>4
  <2>8. ASSUME NEW x \in Role, role'[x].life = "live", role'[x].parent # NoRole,
               role'[role'[x].parent].life = "live"
        PROVE  role'[x].prio <= role'[role'[x].parent].prio
    <3>1. CASE x = r
      BY <2>1, <2>3, <2>8, <3>1
    <3>2. CASE x # r /\ role[x].parent = r
      BY <2>1, <2>4, <2>8, <3>2 DEF Live
    <3>3. CASE x # r /\ role[x].parent # r
      <4>1. role[x].parent \in Role \cup {NoRole}
        BY CodesAndRoles
      <4>2. QED
        BY <1>5, <2>1, <2>8, <3>3, <4>1 DEF Live
    <3>4. QED
      BY <3>1, <3>2, <3>3
  <2>9. QED
    BY <2>7, <2>8
<1>10. QED
  <2>1. CASE Moves(p) \/ Refused(p) \/ Takes(p) \/ Loads(p)
    BY <1>7, <2>1 DEF Moves, Reads, Tables, Refused, Refuse, Tables, Takes, Loads
  <2>2. QED
    BY <1>1, <1>7, <1>8, <1>9, <2>1

-----------------------------------------------------------------------------
(* The start.                                                              *)

LEMMA InvStarts == PolicyInit => PolicyInv
<1> SUFFICES ASSUME PolicyInit PROVE PolicyInv
  OBVIOUS
<1>1. PolicyTypeInv
  BY TypesStart
<1>2. \A p \in Request : req[p] = IdleReq /\ IdleReq.pc = "idle"
  BY DEF PolicyInit, IdleReq
<1>3. Separate /\ Relied /\ Read
  BY <1>2 DEF Separate, MenuRows, Relied, Read, Writing
<1>4. Covered
  <2>1. SUFFICES ASSUME NEW c \in Code, NEW i \in Api, i \in rules[c]
                 PROVE  \E x \in Role, m \in Menu : RuleBehind(x, m, c, i)
    BY DEF Covered
  <2>2. PICK x \in Role \ Bypass : CodeOf[x] = c /\ i \in ApisOf(Granted[x])
    BY <2>1 DEF PolicyInit
  <2>3. PICK m \in Granted[x] : i \in Apis[m]
    BY <2>2 DEF ApisOf
  <2>4. x \in Role /\ m \in Menu /\ m \in menus[x]
    BY <2>3, PolicyAssumption DEF PolicyInit
  <2>5. Stands(x, m, i)
    BY <1>2 DEF Stands, Cleared
  <2>6. QED
    BY <2>2, <2>3, <2>4, <2>5 DEF RuleBehind
<1>5. \A x \in Role : /\ role[x].life = IF x \in Fresh THEN "none" ELSE "live"
                      /\ role[x].parent = Inherits[x] /\ role[x].prio = Rank[x]
  BY DEF PolicyInit
<1>6. Inherits \in [Role -> Role \cup {NoRole}] /\ \A x \in Role : Inherits[x] \notin Fresh
  BY PolicyAssumption
<1>7. Known
  <2>1. \A r \in Role, s \in Role : Live(r) /\ Live(s) /\ CodeOf[r] = CodeOf[s] => r = s
    BY <1>5, PolicyAssumption DEF Live
  <2>2. \A r \in Role : role[r].parent # NoRole => role[role[r].parent].life # "none"
    BY <1>5, <1>6
  <2>3. QED
    BY <1>2, <2>1, <2>2 DEF Known, Walking
<1>8. Serial
  <2>1. \A x \in Role : ~Live(x) => menus[x] = {}
    BY <1>5, PolicyAssumption DEF PolicyInit, Live
  <2>2. \A p \in Request : Still(req[p])
    BY <1>2, WaitingIsStill DEF Waiting
  <2>3. QED
    BY <2>1, <2>2 DEF Serial, Still
<1>9. SerialEditsKeepHierarchy
  <2>1. [x \in Role |-> role[x].parent] = Inherits
    BY <1>5, <1>6
  <2>2. \A r \in Role : r \notin Ancestors(r)
    BY <2>1, PolicyAssumption DEF Ancestors
  <2>3. \A r \in Role \ Fresh : Inherits[r] # NoRole => Rank[r] <= Rank[Inherits[r]]
    BY PolicyAssumption
  <2>4. ASSUME NEW r \in Role, Live(r), role[r].parent # NoRole, Live(role[r].parent)
        PROVE  role[r].prio <= role[role[r].parent].prio
    BY <1>5, <1>6, <2>3, <2>4 DEF Live
  <2>5. QED
    BY <2>2, <2>4 DEF SerialEditsKeepHierarchy
<1>10. QED
  BY <1>1, <1>3, <1>4, <1>7, <1>8, <1>9 DEF PolicyInv

LEMMA InvStays == PolicyInv /\ [PolicyNext]_policyVars => PolicyInv'
<1>1. CASE PolicyInv /\ PolicyNext
  <2>1. PolicyTypeInv'
    BY <1>1, TypesStay DEF PolicyInv
  <2>2. QED
    BY <1>1, <2>1, SeparateStays, ReliedStays, CoveredStays, ReadStays, KnownStays, SerialStays,
       HierarchyStays DEF PolicyInv
<1>2. CASE PolicyInv /\ UNCHANGED policyVars
  <2>1. PolicyTypeInv'
    BY <1>2 DEF policyVars, PolicyInv, PolicyTypeInv
  <2>2. Separate' /\ Relied' /\ Covered' /\ Read'
    BY <1>2 DEF policyVars, PolicyInv, Separate, Relied, MenuRows, Covered, RuleBehind, Stands, Read
  <2>3. Known'
    BY <1>2 DEF policyVars, PolicyInv, Known, Live
  <2>4. Serial'
    BY <1>2 DEF policyVars, PolicyInv, Serial, StillThere, StillRanked, StillClimbing,
       ChildrenAllow, Live
  <2>5. SerialEditsKeepHierarchy'
    BY <1>2 DEF policyVars, PolicyInv, SerialEditsKeepHierarchy, Ancestors, Live
  <2>6. QED
    BY <2>1, <2>2, <2>3, <2>4, <2>5 DEF PolicyInv
<1>3. QED
  BY <1>1, <1>2

-----------------------------------------------------------------------------
(* What users are shown.                                                   *)

LEMMA RolesOfUsers ==
  ASSUME PolicyTypeInv, NEW u \in User
  PROVE  /\ GetEffectiveRoles(u) \subseteq ListRoleIDsByUserID(u)
         /\ ListRoleIDsByUserID(u) \subseteq Role
         /\ \A r \in GetEffectiveRoles(u) : IsOn(r)
<1>1. Seeds(u) \subseteq Role /\ \A r \in Seeds(u) : IsOn(r)
  BY PolicyAssumption DEF Seeds
<1>2. ParentsOn \subseteq Role \X Role
  BY CodesAndRoles DEF ParentsOn
<1>3. {e \in ParentsOn : IsOn(e[2])} \subseteq ParentsOn
  OBVIOUS
<1>4. GetEffectiveRoles(u) \subseteq ListRoleIDsByUserID(u)
  BY <1>1, <1>2, <1>3, ReachGrows DEF GetEffectiveRoles, ListRoleIDsByUserID
<1>5. GetEffectiveRoles(u) \subseteq {r \in Role : IsOn(r)}
  <2>1. \A e \in {d \in ParentsOn : IsOn(d[2])} : e[2] \in {r \in Role : IsOn(r)}
    BY <1>2
  <2>2. Seeds(u) \subseteq {r \in Role : IsOn(r)} /\ {r \in Role : IsOn(r)} \subseteq Role
    BY <1>1
  <2>3. QED
    BY <2>1, <2>2, ReachIsLeast DEF GetEffectiveRoles
<1>6. QED
  BY <1>4, <1>5, ReachIsIn DEF ListRoleIDsByUserID

LEMMA OfferedFollows ==
  ASSUME PolicyInv
  PROVE  CallableIsOffered
<1>1. SUFFICES ASSUME ~overlapped, slipped = {}, mem = rules, NEW u \in User,
                      NEW a \in Allowed(u) \cap ApisOf(Menu)
               PROVE  a \in ApisOf(GetUserPermissions(u))
  BY DEF CallableIsOffered
<1>2. /\ GetEffectiveRoles(u) \subseteq ListRoleIDsByUserID(u)
      /\ ListRoleIDsByUserID(u) \subseteq Role
      /\ \A r \in GetEffectiveRoles(u) : IsOn(r)
  BY RolesOfUsers DEF PolicyInv
<1>3. CASE ListRoleCodesByRoleIDs(ListRoleIDsByUserID(u)) \cap Bypass # {}
  BY <1>1, <1>3 DEF GetUserPermissions, AllPermissions
<1>4. CASE ListRoleCodesByRoleIDs(ListRoleIDsByUserID(u)) \cap Bypass = {}
  <2>1. GetEffectiveRoles(u) \cap Bypass = {}
    BY <1>2, <1>4 DEF ListRoleCodesByRoleIDs, IsOn
  <2>2. PICK r \in GetEffectiveRoles(u) : a \in rules[CodeOf[r]]
    BY <1>1, <2>1 DEF Allowed
  <2>3. r \in Role \ Bypass /\ Live(r) /\ r \in ListRoleIDsByUserID(u)
    BY <1>2, <2>1, <2>2 DEF IsOn
  <2>4. PoliciesWithinMenus
    BY CoveredIsWithinMenus DEF PolicyInv
  <2>5. PICK x \in Role : CodeOf[x] = CodeOf[r] /\ a \in ApisOf(menus[x])
    BY <1>1, <2>2, <2>3, <2>4 DEF PoliciesWithinMenus, GetRolePermissions,
       ListCasbinPoliciesByRoleCode,
       GetRoleMenuIDs, ListMenuIDsByRoleID
  <2>6. PICK m \in menus[x] : a \in Apis[m]
    BY <2>5 DEF ApisOf
  <2>7. Live(x)
    BY <1>1, <2>6 DEF PolicyInv, Serial
  <2>8. x = r
    BY <2>3, <2>5, <2>7 DEF PolicyInv, Known
  <2>9. m \in GetUserPermissions(u)
    BY <1>4, <2>3, <2>6, <2>8 DEF GetUserPermissions, ListByRoleIDs
  <2>10. QED
    BY <2>6, <2>9 DEF ApisOf
<1>5. QED
  BY <1>3, <1>4

LEMMA TreeFollows ==
  ASSUME PolicyTypeInv
  PROVE  TreeShowsEveryPage
<1>1. SUFFICES ASSUME NEW u \in User, NEW r \in GetEffectiveRoles(u),
                      NEW m \in FilterMenusForTree(menus[r])
               PROVE  m \in GetUserMenus(u)
  BY DEF TreeShowsEveryPage
<1>2. r \in Role /\ r \in ListRoleIDsByUserID(u) /\ ListRoleIDsByUserID(u) \subseteq Role
  BY RolesOfUsers
<1>3. ListByRoleIDs(ListRoleIDsByUserID(u)) \subseteq Menu /\ m \in Menu /\ m \in menus[r]
  BY <1>1, <1>2, CodesAndRoles DEF ListByRoleIDs, FilterMenusForTree
<1>4. m \in ListByRoleIDs(ListRoleIDsByUserID(u))
  BY <1>2, <1>3 DEF ListByRoleIDs
<1>5. m \in IncludeMenuAncestors(ListByRoleIDs(ListRoleIDsByUserID(u)))
  BY <1>3, <1>4, ReachHas DEF IncludeMenuAncestors
<1>6. m \in FilterMenusForTree(IncludeMenuAncestors(ListByRoleIDs(ListRoleIDsByUserID(u))))
  BY <1>1, <1>5 DEF FilterMenusForTree
<1>7. FilterMenusForTree(IncludeMenuAncestors(ListByRoleIDs(ListRoleIDsByUserID(u)))) \in SUBSET Menu
  BY ReachIsIn DEF FilterMenusForTree, IncludeMenuAncestors
<1>8. QED
  BY <1>6, <1>7, TreeIsWhole DEF GetUserMenus

-----------------------------------------------------------------------------
(* The results.                                                            *)

THEOREM PolicyInvHolds == PolicySpec => []PolicyInv
BY InvStarts, InvStays, PTL DEF PolicySpec

(* The tables and the requests keep their types. *)
THEOREM PolicyTypeCorrect == PolicySpec => []PolicyTypeOK
<1>1. PolicyInv => PolicyTypeOK
  BY DEF PolicyInv, PolicyTypeInv, PolicyTypeOK, RoleType, RequestType, StepsFit, Replacing
<1>2. QED
  BY <1>1, PolicyInvHolds, PTL

(* A role calls only the APIs of the menus that roles of its code have,    *)
(* however assignments and deletions interleave, as long as nobody deleted *)
(* a menu of this code that another transaction had found in place.        *)
THEOREM RulesHaveMenus == PolicySpec => []PoliciesWithinMenus
<1>1. PolicyInv => PoliciesWithinMenus
  BY CoveredIsWithinMenus DEF PolicyInv
<1>2. QED
  BY <1>1, PolicyInvHolds, PTL

(* The enforcer holds the committed policies, or a reload is under way, or *)
(* the last one to end failed twice or had read before a commit.           *)
THEOREM EnforcerFollows == PolicySpec => []EnforcerIsFresh
<1>1. PolicyInit => EnforcerIsFresh
  BY DEF PolicyInit, EnforcerIsFresh
<1>2. PolicyInv /\ EnforcerIsFresh /\ [PolicyNext]_policyVars => EnforcerIsFresh'
  <2>1. CASE PolicyInv /\ EnforcerIsFresh /\ PolicyNext
    BY <2>1, FreshStays DEF PolicyInv
  <2>2. CASE EnforcerIsFresh /\ UNCHANGED policyVars
    BY <2>2 DEF EnforcerIsFresh, policyVars
  <2>3. QED
    BY <2>1, <2>2
<1>3. QED
  BY <1>1, <1>2, PolicyInvHolds, PTL DEF PolicySpec

(* Role edits that do not overlap keep the inheritance free of cycles and  *)
(* no role inherits from a stronger one.                                   *)
THEOREM HierarchyHolds == PolicySpec => []SerialEditsKeepHierarchy
<1>1. PolicyInv => SerialEditsKeepHierarchy
  BY DEF PolicyInv
<1>2. QED
  BY <1>1, PolicyInvHolds, PTL

(* After edits that did not overlap, none of which deleted a menu that     *)
(* another had found in place, and once they are loaded, whoever may call  *)
(* an API behind a menu has the permission code of such a menu.            *)
THEOREM OfferedHolds == PolicySpec => []CallableIsOffered
<1>1. PolicyInv => CallableIsOffered
  BY OfferedFollows
<1>2. QED
  BY <1>1, PolicyInvHolds, PTL

(* The menu tree of a user has every visible page of its roles.            *)
THEOREM TreeIsComplete == PolicySpec => []TreeShowsEveryPage
<1>1. PolicyInv => TreeShowsEveryPage
  BY TreeFollows DEF PolicyInv
<1>2. QED
  BY <1>1, PolicyInvHolds, PTL

-----------------------------------------------------------------------------
(***************************************************************************)
(* The archive.                                                            *)
(***************************************************************************)

Table == {"audit_logs", "policy_evaluation_logs"}
RunState(n) == [pc : {"idle", "fetch", "export", "delete", "clean"}, t : {1, 2},
                batch : SUBSET (1..n)]

\* What a run is about to delete has been exported, and the file may only
\* have been removed for its age.
Kept ==
  \A k \in Runner : run[k].pc = "delete" =>
    \A i \in run[k].batch : copies[i] > 0 \/ i \in lapsed

SafeInv == ArchiveTypeOK /\ Kept /\ DeletedWasExported

\* While nothing fails, stops or is called back, whoever runs holds the lock,
\* and a row that is still in its table has no copy, unless the run that made
\* one is about to delete the row.
Undisturbed == faults = 0 /\ stops = 0 /\ calls = 0
Orderly ==
  /\ \A r \in Replica : up[r] = "running"
  /\ \A k \in Runner : run[k].pc # "idle" => lock = k
  /\ \A k \in Runner : run[k].pc = "export" => run[k].batch \subseteq live
  /\ \A i \in live : copies[i] = 0 \/ \E k \in Runner : run[k].pc = "delete" /\ i \in run[k].batch
  /\ \A i \in 1..Len(table) : copies[i] <= 1
OnceInv == ArchiveTypeOK /\ (Undisturbed => Orderly)

-----------------------------------------------------------------------------
\* Sequences and records.

\* One more row.
LEMMA AppendType ==
  ASSUME NEW S, NEW s \in Seq(S), NEW e \in S
  PROVE  /\ Append(s, e) \in Seq(S) /\ Len(Append(s, e)) = Len(s) + 1
         /\ \A i \in 1..Len(s) : Append(s, e)[i] = s[i]
         /\ Append(s, e)[Len(s) + 1] = e
  OBVIOUS

\* A table of numbers is a sequence.
LEMMA CountType ==
  ASSUME NEW n \in Nat, NEW f \in [1..n -> Nat]
  PROVE  f \in Seq(Nat) /\ Len(f) = n
  OBVIOUS

\* The step of a run can be replaced.
LEMMA PcType ==
  ASSUME NEW n \in Nat, NEW a \in RunState(n),
         NEW c \in {"idle", "fetch", "export", "delete", "clean"}
  PROVE  /\ [a EXCEPT !.pc = c] \in RunState(n)
         /\ [a EXCEPT !.pc = c].pc = c /\ [a EXCEPT !.pc = c].batch = a.batch
  BY DEF RunState

\* A run goes on with the next table, or with the files after the last.
LEMMA NextTableType ==
  ASSUME NEW n \in Nat, NEW a \in RunState(n)
  PROVE  NextTable(a) \in RunState(n) /\ NextTable(a).pc \in {"fetch", "clean"}
<1>1. Len(archiveTablesOrdered) = 2
  BY DEF archiveTablesOrdered
<1>2. CASE a.t < 2
  <2>1. NextTable(a) = [a EXCEPT !.pc = "fetch", !.t = a.t + 1, !.batch = {}]
    BY <1>1, <1>2 DEF NextTable
  <2>2. a.t = 1
    BY <1>2 DEF RunState
  <2>3. 1 + 1 = 2
    OBVIOUS
  <2>4. [a EXCEPT !.pc = "fetch", !.t = 2, !.batch = {}] \in RunState(n)
    BY DEF RunState
  <2>5. [a EXCEPT !.pc = "fetch", !.t = 2, !.batch = {}].pc = "fetch"
    BY DEF RunState
  <2>6. QED
    BY <2>1, <2>2, <2>3, <2>4, <2>5
<1>3. CASE ~(a.t < 2)
  <2>1. NextTable(a) = [a EXCEPT !.pc = "clean", !.batch = {}]
    BY <1>1, <1>3 DEF NextTable
  <2>2. NextTable(a) = [pc |-> "clean", t |-> a.t, batch |-> {}]
    BY <2>1 DEF RunState
  <2>3. QED
    BY <2>2 DEF RunState
<1>4. QED
  BY <1>2, <1>3

\* The rows of a batch are in their table.
LEMMA BatchLive == \A a : Batch(a) \subseteq live
  BY DEF Batch, Due

LEMMA IdleRunType == \A n \in Nat : IdleRun \in RunState(n) /\ IdleRun.pc = "idle"
  BY DEF IdleRun, RunState

-----------------------------------------------------------------------------
\* Types. One lemma per kind of step.
RowsTyped ==
  /\ table \in Seq(Table) /\ Len(table) <= MaxRow
  /\ old \in 0..Len(table) /\ live \cup lapsed \subseteq 1..Len(table)
  /\ copies \in Seq(Nat) /\ Len(copies) = Len(table)
RunsTyped == run \in [Runner -> RunState(Len(table))]
RestTyped ==
  /\ up \in [Replica -> {"running", "stopping", "down"}]
  /\ lock \in Runner \cup {NoRunner, DeadSession}
  /\ faults \in 0..MaxFault /\ stops \in 0..MaxStop /\ calls \in 0..MaxCallback

LEMMA TypeParts == ArchiveTypeOK <=> RowsTyped /\ RunsTyped /\ RestTyped
  BY DEF ArchiveTypeOK, RowsTyped, RunsTyped, RestTyped, RunState, Table

LEMMA ArchiveTypeInit == ArchiveInit => ArchiveTypeOK
<1> SUFFICES ASSUME ArchiveInit PROVE ArchiveTypeOK
  OBVIOUS
<1>1. RowsTyped
  BY ArchiveAssumption DEF ArchiveInit, RowsTyped
<1>2. RunsTyped
  BY IdleRunType DEF ArchiveInit, RunsTyped
<1>3. RestTyped
  BY ArchiveAssumption DEF ArchiveInit, RestTyped
<1>4. QED
  BY <1>1, <1>2, <1>3, TypeParts

\* A new row gets the next number, and no file holds it.
LEMMA NewRowType ==
  ASSUME ArchiveTypeOK, NEW r \in Replica, NEW t \in Table, NewRow(r, t)
  PROVE  /\ ArchiveTypeOK' /\ Len(table') = Len(table) + 1
         /\ \A i \in 1..Len(table) : copies'[i] = copies[i]
         /\ copies'[Len(table) + 1] = 0
<1>1. RowsTyped /\ RunsTyped /\ RestTyped
  BY TypeParts
<1>2. table' \in Seq(Table) /\ Len(table') = Len(table) + 1
  BY <1>1, AppendType DEF NewRow, RowsTyped
<1>3. copies' \in Seq(Nat) /\ Len(copies') = Len(copies) + 1
  BY <1>1, AppendType DEF NewRow, RowsTyped
<1>4. \A i \in 1..Len(copies) : copies'[i] = copies[i]
  BY <1>1, AppendType DEF NewRow, RowsTyped
<1>5. copies'[Len(copies) + 1] = 0
  BY <1>1, AppendType DEF NewRow, RowsTyped
<1>6. RowsTyped'
  BY <1>1, <1>2, <1>3, ArchiveAssumption DEF NewRow, RowsTyped
<1>7. RunsTyped'
  <2>1. 1..Len(table) \subseteq 1..Len(table')
    BY <1>1, <1>2 DEF RowsTyped
  <2>2. RunState(Len(table)) \subseteq RunState(Len(table'))
    BY <2>1 DEF RunState
  <2>3. QED
    BY <1>1, <2>2 DEF RunsTyped, NewRow
<1>8. RestTyped'
  BY <1>1 DEF RestTyped, NewRow, bounds
<1>9. ArchiveTypeOK'
  BY <1>6, <1>7, <1>8, TypeParts, PTL
<1>10. QED
  BY <1>1, <1>2, <1>4, <1>5, <1>9 DEF RowsTyped

\* A step that leaves the rows alone, but for copies, ageing and deletion, and
\* gives at most one run a new state, keeps the types.
LEMMA RunStepType ==
  ASSUME ArchiveTypeOK, UNCHANGED table,
         copies' \in Seq(Nat), Len(copies') = Len(copies),
         live' \subseteq live, lapsed' \subseteq 1..Len(table), old' \in 0..Len(table),
         run' \in [Runner -> RunState(Len(table))],
         RestTyped'
  PROVE  ArchiveTypeOK'
<1>1. RowsTyped /\ RunsTyped
  BY TypeParts
<1>2. RowsTyped'
  BY <1>1 DEF RowsTyped
<1>3. RunsTyped'
  BY DEF RunsTyped
<1>4. QED
  BY <1>2, <1>3, TypeParts, PTL

\* A file holds some of the rows once more.
LEMMA NewFileType ==
  ASSUME ArchiveTypeOK, NEW b \in SUBSET (1..Len(table)), NewFile(b)
  PROVE  /\ copies' \in Seq(Nat) /\ Len(copies') = Len(copies)
         /\ \A i \in 1..Len(table) : copies'[i] = IF i \in b THEN copies[i] + 1 ELSE copies[i]
<1>1. copies \in Seq(Nat) /\ Len(copies) = Len(table) /\ Len(table) \in Nat
  BY TypeParts DEF RowsTyped
<1>2. \A i \in 1..Len(table) : copies[i] \in Nat
  BY <1>1
<1>3. copies' \in [1..Len(table) -> Nat]
  BY <1>2 DEF NewFile
<1>4. QED
  BY <1>1, <1>3, CountType DEF NewFile

LEMMA Bounded ==
  ASSUME ArchiveTypeOK
  PROVE  /\ Len(table) \in Nat /\ old \in 0..Len(table)
         /\ copies \in Seq(Nat) /\ Len(copies) = Len(table)
         /\ \A i \in 1..Len(table) : copies[i] \in Nat
         /\ live \subseteq 1..Len(table) /\ lapsed \subseteq 1..Len(table)
         /\ run \in [Runner -> RunState(Len(table))]
         /\ \A k \in Runner : run[k].batch \in SUBSET (1..Len(table))
         /\ RestTyped
  BY TypeParts DEF RowsTyped, RunsTyped, RunState

\* The run of k gets the state a.
Becomes(k, a) == run' = [run EXCEPT ![k] = a]
LEMMA BecomesType ==
  ASSUME ArchiveTypeOK, NEW k \in Runner, NEW a \in RunState(Len(table)), Becomes(k, a)
  PROVE  /\ run' \in [Runner -> RunState(Len(table))] /\ run'[k] = a
         /\ \A q \in Runner \ {k} : run'[q] = run[q]
  BY Bounded DEF Becomes

\* What each step of a run does to it.
LEMMA FetchStep ==
  ASSUME ArchiveTypeOK, NEW k \in Runner, Fetch(k)
  PROVE  \E a \in RunState(Len(table)) :
           /\ Becomes(k, a) /\ a.pc \in {"fetch", "clean", ExportFirst}
           /\ a.pc = ExportFirst => a.batch \subseteq live
<1>1. run[k] \in RunState(Len(table)) /\ Len(table) \in Nat /\ run[k].pc = "fetch"
  BY Bounded DEF Fetch
<1>2. CASE Batch(run[k]) = {}
  <2>1. Becomes(k, NextTable(run[k]))
    BY <1>2, Bounded DEF Fetch, Becomes
  <2>2. QED
    BY <1>1, <2>1, NextTableType DEF ExportFirst
<1>3. CASE Batch(run[k]) # {}
  <2> DEFINE a == [run[k] EXCEPT !.pc = ExportFirst, !.batch = Batch(run[k])]
  <2>1. Becomes(k, a)
    BY <1>3, Bounded DEF Fetch, Becomes
  <2>2. Batch(run[k]) \subseteq live /\ live \subseteq 1..Len(table)
    BY BatchLive, Bounded
  <2>3. a \in RunState(Len(table)) /\ a.pc = ExportFirst /\ a.batch = Batch(run[k])
    BY <1>1, <2>2 DEF RunState, ExportFirst
  <2>4. QED
    BY <2>1, <2>2, <2>3
<1>4. QED
  BY <1>2, <1>3

LEMMA ExportStep ==
  ASSUME ArchiveTypeOK, NEW k \in Runner, Export(k)
  PROVE  \E a \in RunState(Len(table)) :
           Becomes(k, a) /\ a.pc = "delete" /\ a.batch = run[k].batch
<1>1. Becomes(k, [run[k] EXCEPT !.pc = "delete"])
  BY Bounded DEF Export, Becomes
<1>2. run[k] \in RunState(Len(table)) /\ Len(table) \in Nat
  BY Bounded
<1>3. [run[k] EXCEPT !.pc = "delete"] \in RunState(Len(table))
      /\ [run[k] EXCEPT !.pc = "delete"].pc = "delete"
      /\ [run[k] EXCEPT !.pc = "delete"].batch = run[k].batch
  BY <1>2, PcType
<1>4. QED
  BY <1>1, <1>3

LEMMA NextTableStep ==
  ASSUME ArchiveTypeOK, NEW k \in Runner, Delete(k) \/ TableFails(k)
  PROVE  \E a \in RunState(Len(table)) : Becomes(k, a) /\ a.pc \in {"fetch", "clean"}
<1>1. Becomes(k, NextTable(run[k]))
  BY Bounded DEF Delete, TableFails, Becomes
<1>2. QED
  BY <1>1, Bounded, NextTableType

LEMMA ArchiveStartStep ==
  ASSUME ArchiveTypeOK, NEW k \in Runner, TickOnce(k) \/ Callback(k)
  PROVE  \E a \in RunState(Len(table)) : Becomes(k, a) /\ a.pc = "fetch"
<1>1. Becomes(k, [run[k] EXCEPT !.pc = "fetch"])
  BY Bounded DEF TickOnce, Callback, Becomes
<1>2. run[k] \in RunState(Len(table)) /\ Len(table) \in Nat
  BY Bounded
<1>3. [run[k] EXCEPT !.pc = "fetch"] \in RunState(Len(table))
      /\ [run[k] EXCEPT !.pc = "fetch"].pc = "fetch"
  BY <1>2, PcType
<1>4. QED
  BY <1>1, <1>3

LEMMA CleanStep ==
  ASSUME ArchiveTypeOK, NEW k \in Runner, Clean(k)
  PROVE  /\ \E a \in RunState(Len(table)) : Becomes(k, a) /\ a.pc = "idle"
         /\ copies' \in Seq(Nat) /\ Len(copies') = Len(copies)
         /\ lapsed \subseteq lapsed' /\ lapsed' \subseteq 1..Len(table)
         /\ \A i \in 1..Len(table) : copies'[i] = copies[i] \/ (copies'[i] = 0 /\ i \in lapsed')
<1>1. Becomes(k, IdleRun)
  BY DEF Clean, Becomes
<1>2. IdleRun \in RunState(Len(table)) /\ IdleRun.pc = "idle"
  BY Bounded, IdleRunType
<1>3. PICK aged \in SUBSET {i \in 1..Len(table) : copies[i] > 0} :
        /\ copies' = [i \in 1..Len(table) |-> IF i \in aged THEN 0 ELSE copies[i]]
        /\ lapsed' = lapsed \cup aged
  BY DEF Clean
<1>4. copies' \in [1..Len(table) -> Nat]
  BY <1>3, Bounded
<1>5. copies' \in Seq(Nat) /\ Len(copies') = Len(copies)
  BY <1>4, Bounded, CountType
<1>6. QED
  BY <1>1, <1>2, <1>3, <1>5, Bounded

\* A process that ends takes its runs with it.
LEMMA GoneStep ==
  ASSUME ArchiveTypeOK, NEW r \in Replica, Exit(r) \/ CrashReplica(r)
  PROVE  /\ run' \in [Runner -> RunState(Len(table))]
         /\ \A k \in Runner : run'[k].pc = "idle" \/ run'[k] = run[k]
         /\ UNCHANGED <<table, live, old, copies, lapsed>>
         /\ RestTyped'
<1>1. IdleRun \in RunState(Len(table)) /\ IdleRun.pc = "idle"
  BY Bounded, IdleRunType
<1>2. run' = [k \in Runner |-> IF k[1] = r THEN IdleRun ELSE run[k]]
      /\ UNCHANGED <<table, live, old, copies, lapsed>>
  BY DEF Exit, CrashReplica, Gone
<1>3. RestTyped
  BY Bounded
<1>4. RestTyped'
  <2>1. CASE Exit(r)
    BY <1>3, <2>1 DEF Exit, Gone, RestTyped
  <2>2. CASE CrashReplica(r)
    BY <1>3, <2>2, ArchiveAssumption DEF CrashReplica, Gone, RestTyped
  <2>3. QED
    BY <2>1, <2>2
<1>5. QED
  BY <1>1, <1>2, <1>4, Bounded

LEMMA ArchiveTypeStep ==
  ASSUME ArchiveTypeOK, [ArchiveNext]_archiveVars
  PROVE  ArchiveTypeOK'
<1>0. /\ RestTyped /\ RunsTyped /\ RowsTyped
      /\ copies \in Seq(Nat) /\ lapsed \subseteq 1..Len(table) /\ old \in 0..Len(table)
      /\ Len(table) \in Nat
  BY TypeParts, Bounded
<1>1. CASE \E r \in Replica : AuditLog(r) \/ InsertPolicyEvals(r)
  <2>1. \E r \in Replica, t \in Table : NewRow(r, t)
    BY <1>1 DEF AuditLog, InsertPolicyEvals, Table
  <2>2. QED
    BY <2>1, NewRowType
<1>2. CASE RowAges
  <2>1. RestTyped' /\ old' \in 0..Len(table)
    BY <1>0, <1>2 DEF RowAges, RestTyped, bounds
  <2>2. QED
    BY <1>0, <1>2, <2>1, RunStepType DEF RowAges, RunsTyped
<1>3. ASSUME NEW k \in Runner, TickOnce(k) \/ Callback(k)
      PROVE  ArchiveTypeOK'
  <2>1. run' \in [Runner -> RunState(Len(table))]
    BY <1>3, ArchiveStartStep, BecomesType
  <2>2. RestTyped'
    <3>1. CASE TickOnce(k)
      BY <1>0, <3>1 DEF TickOnce, TryLock, RestTyped, bounds
    <3>2. CASE Callback(k)
      BY <1>0, <3>2, ArchiveAssumption DEF Callback, RestTyped
    <3>3. QED
      BY <1>3, <3>1, <3>2
  <2>3. UNCHANGED <<table, copies, live, lapsed, old>>
    BY <1>3 DEF TickOnce, Callback
  <2>4. QED
    BY <1>0, <2>1, <2>2, <2>3, RunStepType
<1>4. ASSUME NEW k \in Runner, Fetch(k)
      PROVE  ArchiveTypeOK'
  <2>1. run' \in [Runner -> RunState(Len(table))]
    BY <1>4, FetchStep, BecomesType
  <2>2. RestTyped'
    BY <1>0, <1>4 DEF Fetch, RestTyped, bounds
  <2>3. UNCHANGED <<table, copies, live, lapsed, old>>
    BY <1>4 DEF Fetch
  <2>4. QED
    BY <1>0, <2>1, <2>2, <2>3, RunStepType
<1>5. ASSUME NEW k \in Runner, Export(k)
      PROVE  ArchiveTypeOK'
  <2>1. run' \in [Runner -> RunState(Len(table))]
    BY <1>5, ExportStep, BecomesType
  <2>2. RestTyped'
    BY <1>0, <1>5 DEF Export, RestTyped, bounds
  <2>3. run[k].batch \in SUBSET (1..Len(table)) /\ NewFile(run[k].batch)
        /\ UNCHANGED <<table, live, lapsed, old>>
    BY <1>5, Bounded DEF Export
  <2>4. copies' \in Seq(Nat) /\ Len(copies') = Len(copies)
    BY <2>3, NewFileType
  <2>5. QED
    BY <1>0, <2>1, <2>2, <2>3, <2>4, RunStepType
<1>6. ASSUME NEW k \in Runner, Delete(k)
      PROVE  ArchiveTypeOK'
  <2>1. run' \in [Runner -> RunState(Len(table))]
    BY <1>6, NextTableStep, BecomesType
  <2>2. RestTyped'
    BY <1>0, <1>6 DEF Delete, RestTyped, bounds
  <2>3. UNCHANGED <<table, copies, lapsed, old>> /\ live' \subseteq live
    BY <1>6 DEF Delete
  <2>4. QED
    BY <1>0, <2>1, <2>2, <2>3, RunStepType
<1>7. ASSUME NEW k \in Runner, TableFails(k)
      PROVE  ArchiveTypeOK'
  <2>1. run' \in [Runner -> RunState(Len(table))]
    BY <1>7, NextTableStep, BecomesType
  <2>2. RestTyped'
    BY <1>0, <1>7, ArchiveAssumption DEF TableFails, Fails, RestTyped, bounds
  <2>3. UNCHANGED <<table, live, lapsed, old>>
    BY <1>7 DEF TableFails
  <2>4. copies' \in Seq(Nat) /\ Len(copies') = Len(copies)
    <3>1. CASE run[k].pc = "export"
      <4>1. PICK part \in SUBSET run[k].batch : NewFile(part)
        BY <1>7, <3>1 DEF TableFails
      <4>2. part \in SUBSET (1..Len(table))
        BY Bounded
      <4>3. QED
        BY <4>1, <4>2, NewFileType
    <3>2. CASE run[k].pc # "export"
      BY <1>0, <1>7, <3>2 DEF TableFails
    <3>3. QED
      BY <3>1, <3>2
  <2>5. QED
    BY <1>0, <2>1, <2>2, <2>3, <2>4, RunStepType
<1>8. ASSUME NEW k \in Runner, Clean(k)
      PROVE  ArchiveTypeOK'
  <2>1. run' \in [Runner -> RunState(Len(table))]
    BY <1>8, CleanStep, BecomesType
  <2>2. RestTyped'
    BY <1>0, <1>8 DEF Clean, Unlock, RestTyped, bounds
  <2>3. UNCHANGED <<table, live, old>>
    BY <1>8 DEF Clean
  <2>4. copies' \in Seq(Nat) /\ Len(copies') = Len(copies) /\ lapsed' \subseteq 1..Len(table)
    BY <1>8, CleanStep
  <2>5. QED
    BY <1>0, <2>1, <2>2, <2>3, <2>4, RunStepType
<1>9. ASSUME NEW r \in Replica, Signal(r) \/ Restart(r)
      PROVE  ArchiveTypeOK'
  <2>1. RestTyped'
    <3>1. CASE Signal(r)
      BY <1>0, <3>1, ArchiveAssumption DEF Signal, RestTyped
    <3>2. CASE Restart(r)
      BY <1>0, <3>2 DEF Restart, RestTyped, bounds
    <3>3. QED
      BY <1>9, <3>1, <3>2
  <2>2. UNCHANGED <<table, copies, live, lapsed, old, run>>
    BY <1>9 DEF Signal, Restart
  <2>3. QED
    BY <1>0, <2>1, <2>2, RunStepType DEF RunsTyped
<1>10. ASSUME NEW r \in Replica, Exit(r) \/ CrashReplica(r)
       PROVE  ArchiveTypeOK'
  BY <1>0, <1>10, GoneStep, RunStepType
<1>11. CASE SessionEnds
  <2>1. RestTyped'
    BY <1>0, <1>11 DEF SessionEnds, RestTyped, bounds
  <2>2. QED
    BY <1>0, <1>11, <2>1, RunStepType DEF SessionEnds, RunsTyped
<1>12. CASE UNCHANGED archiveVars
  <2>1. RestTyped'
    BY <1>0, <1>12 DEF archiveVars, RestTyped, bounds
  <2>2. QED
    BY <1>0, <1>12, <2>1, RunStepType DEF archiveVars, RunsTyped
<1>13. QED
  BY <1>1, <1>2, <1>3, <1>4, <1>5, <1>6, <1>7, <1>8, <1>9, <1>10, <1>11, <1>12 DEF ArchiveNext, RunStep

\* Rows, files, runs and counters keep their types (the state of archive runs).
THEOREM ArchiveTypeCorrect == ArchiveSpec => []ArchiveTypeOK
<1>1. ArchiveTypeOK /\ [ArchiveNext]_archiveVars => ArchiveTypeOK'
  BY ArchiveTypeStep
<1>2. QED
  BY <1>1, ArchiveTypeInit, PTL DEF ArchiveSpec

-----------------------------------------------------------------------------
\* Nothing is deleted unexported.

\* Rows keep their copies or lapse: enough for every step but Export, Delete
\* and the arrival of a row.
Outlives(i) == copies[i] > 0 \/ i \in lapsed

LEMMA SafeKeep ==
  ASSUME SafeInv, UNCHANGED <<table, live>>,
         \A i \in 1..Len(table) : Outlives(i) => Outlives(i)',
         \A k \in Runner : run'[k].pc = "delete" => run'[k] = run[k]
  PROVE  Kept' /\ DeletedWasExported'
<1>1. \A k \in Runner : run[k].batch \in SUBSET (1..Len(table))
  BY Bounded DEF SafeInv
<1>2. Kept'
  BY <1>1 DEF SafeInv, Kept, Outlives
<1>3. DeletedWasExported'
  BY DEF SafeInv, DeletedWasExported, Outlives
<1>4. QED
  BY <1>2, <1>3

LEMMA SafeStep ==
  ASSUME SafeInv, [ArchiveNext]_archiveVars
  PROVE  Kept' /\ DeletedWasExported'
<1>0. /\ ArchiveTypeOK /\ Kept /\ DeletedWasExported
      /\ \A i \in 1..Len(table) : copies[i] \in Nat
      /\ \A k \in Runner : run[k].batch \in SUBSET (1..Len(table))
      /\ Len(table) \in Nat
  BY Bounded DEF SafeInv
<1>1. ASSUME NEW r \in Replica, NEW t \in Table, NewRow(r, t)
      PROVE  Kept' /\ DeletedWasExported'
  <2>1. /\ Len(table') = Len(table) + 1
        /\ \A i \in 1..Len(table) : copies'[i] = copies[i]
    BY <1>0, <1>1, NewRowType
  <2>2. UNCHANGED <<run, lapsed>> /\ live' = live \cup {Len(table) + 1}
    BY <1>1 DEF NewRow
  <2>3. Kept'
    BY <1>0, <2>1, <2>2 DEF Kept
  <2>4. DeletedWasExported'
    BY <1>0, <2>1, <2>2 DEF DeletedWasExported
  <2>5. QED
    BY <2>3, <2>4
<1>2. ASSUME NEW k \in Runner, TickOnce(k) \/ Callback(k)
      PROVE  Kept' /\ DeletedWasExported'
  <2>1. PICK a \in RunState(Len(table)) : Becomes(k, a) /\ a.pc = "fetch"
    BY <1>0, <1>2, ArchiveStartStep
  <2>2. run'[k] = a /\ \A q \in Runner \ {k} : run'[q] = run[q]
    BY <1>0, <2>1, BecomesType
  <2>3. UNCHANGED <<table, live, copies, lapsed>>
    BY <1>2 DEF TickOnce, Callback
  <2>4. QED
    BY <2>1, <2>2, <2>3, SafeKeep DEF Outlives
<1>3. ASSUME NEW k \in Runner, Fetch(k)
      PROVE  Kept' /\ DeletedWasExported'
  <2>1. PICK a \in RunState(Len(table)) : Becomes(k, a) /\ a.pc \in {"fetch", "clean", ExportFirst}
    BY <1>0, <1>3, FetchStep
  <2>2. run'[k] = a /\ \A q \in Runner \ {k} : run'[q] = run[q]
    BY <1>0, <2>1, BecomesType
  <2>3. UNCHANGED <<table, live, copies, lapsed>>
    BY <1>3 DEF Fetch
  <2>4. QED
    BY <2>1, <2>2, <2>3, SafeKeep DEF Outlives, ExportFirst
<1>4. ASSUME NEW k \in Runner, Export(k)
      PROVE  Kept' /\ DeletedWasExported'
  <2>1. PICK a \in RunState(Len(table)) : Becomes(k, a) /\ a.batch = run[k].batch
    BY <1>0, <1>4, ExportStep
  <2>2. run'[k] = a /\ \A q \in Runner \ {k} : run'[q] = run[q]
    BY <1>0, <2>1, BecomesType
  <2>3. UNCHANGED <<table, live, lapsed>> /\ NewFile(run[k].batch)
    BY <1>4 DEF Export
  <2>4. \A i \in 1..Len(table) : copies'[i] = IF i \in run[k].batch THEN copies[i] + 1 ELSE copies[i]
    BY <1>0, <2>3, NewFileType
  <2>5. Kept'
    BY <1>0, <2>1, <2>2, <2>3, <2>4 DEF Kept
  <2>6. DeletedWasExported'
    BY <1>0, <2>3, <2>4 DEF DeletedWasExported
  <2>7. QED
    BY <2>5, <2>6
<1>5. ASSUME NEW k \in Runner, Delete(k)
      PROVE  Kept' /\ DeletedWasExported'
  <2>1. PICK a \in RunState(Len(table)) : Becomes(k, a) /\ a.pc \in {"fetch", "clean"}
    BY <1>0, <1>5, NextTableStep
  <2>2. run'[k] = a /\ \A q \in Runner \ {k} : run'[q] = run[q]
    BY <1>0, <2>1, BecomesType
  <2>3. UNCHANGED <<table, copies, lapsed>> /\ live' = live \ run[k].batch /\ run[k].pc = "delete"
    BY <1>5 DEF Delete
  <2>4. Kept'
    BY <1>0, <2>1, <2>2, <2>3 DEF Kept
  <2>5. DeletedWasExported'
    BY <1>0, <2>3 DEF DeletedWasExported, Kept
  <2>6. QED
    BY <2>4, <2>5
<1>6. ASSUME NEW k \in Runner, TableFails(k)
      PROVE  Kept' /\ DeletedWasExported'
  <2>1. PICK a \in RunState(Len(table)) : Becomes(k, a) /\ a.pc \in {"fetch", "clean"}
    BY <1>0, <1>6, NextTableStep
  <2>2. run'[k] = a /\ \A q \in Runner \ {k} : run'[q] = run[q]
    BY <1>0, <2>1, BecomesType
  <2>3. UNCHANGED <<table, live, lapsed>>
    BY <1>6 DEF TableFails
  <2>4. \A i \in 1..Len(table) : Outlives(i) => Outlives(i)'
    <3>1. CASE run[k].pc = "export"
      <4>1. PICK part \in SUBSET run[k].batch : NewFile(part)
        BY <1>6, <3>1 DEF TableFails
      <4>2. part \in SUBSET (1..Len(table))
        BY <1>0
      <4>3. \A i \in 1..Len(table) : copies'[i] = IF i \in part THEN copies[i] + 1 ELSE copies[i]
        BY <1>0, <4>1, <4>2, NewFileType
      <4>4. QED
        BY <1>0, <2>3, <4>3 DEF Outlives
    <3>2. CASE run[k].pc # "export"
      BY <1>6, <2>3, <3>2 DEF TableFails, Outlives
    <3>3. QED
      BY <3>1, <3>2
  <2>5. QED
    BY <2>1, <2>2, <2>3, <2>4, SafeKeep
<1>7. ASSUME NEW k \in Runner, Clean(k)
      PROVE  Kept' /\ DeletedWasExported'
  <2>1. PICK a \in RunState(Len(table)) : Becomes(k, a) /\ a.pc = "idle"
    BY <1>0, <1>7, CleanStep
  <2>2. run'[k] = a /\ \A q \in Runner \ {k} : run'[q] = run[q]
    BY <1>0, <2>1, BecomesType
  <2>3. UNCHANGED <<table, live>>
    BY <1>7 DEF Clean
  <2>4. \A i \in 1..Len(table) : Outlives(i) => Outlives(i)'
    BY <1>0, <1>7, CleanStep DEF Outlives
  <2>5. QED
    BY <2>1, <2>2, <2>3, <2>4, SafeKeep
<1>8. ASSUME NEW r \in Replica, Exit(r) \/ CrashReplica(r)
      PROVE  Kept' /\ DeletedWasExported'
  <2>1. /\ \A k \in Runner : run'[k].pc = "idle" \/ run'[k] = run[k]
        /\ UNCHANGED <<table, live, copies, lapsed>>
    BY <1>0, <1>8, GoneStep
  <2>2. QED
    BY <2>1, SafeKeep DEF Outlives
<1>9. CASE UNCHANGED <<table, live, copies, lapsed, run>>
  BY <1>9, SafeKeep DEF Outlives
<1>10. RowAges \/ SessionEnds \/ UNCHANGED archiveVars \/ (\E r \in Replica : Signal(r) \/ Restart(r))
         => UNCHANGED <<table, live, copies, lapsed, run>>
  BY DEF RowAges, SessionEnds, Signal, Restart, archiveVars
<1>11. (\E r \in Replica : AuditLog(r) \/ InsertPolicyEvals(r))
         => \E r \in Replica, t \in Table : NewRow(r, t)
  BY DEF AuditLog, InsertPolicyEvals, Table
<1>12. QED
  BY <1>1, <1>2, <1>3, <1>4, <1>5, <1>6, <1>7, <1>8, <1>9, <1>10, <1>11 DEF ArchiveNext, RunStep

\* No audit record is lost: a row that has left its table was synced to a file
\* before, and that file is gone only when it was past its retention.
THEOREM NothingIsLost == ArchiveSpec => []DeletedWasExported
<1>1. ArchiveInit => SafeInv
  <2>1. ArchiveInit => ArchiveTypeOK
    BY ArchiveTypeInit
  <2>2. ArchiveInit => Kept
    BY DEF ArchiveInit, IdleRun, Kept
  <2>3. ArchiveInit => DeletedWasExported
    BY DEF ArchiveInit, DeletedWasExported
  <2>4. QED
    BY <2>1, <2>2, <2>3 DEF SafeInv
<1>2. SafeInv /\ [ArchiveNext]_archiveVars => SafeInv'
  <2>1. SafeInv /\ [ArchiveNext]_archiveVars => ArchiveTypeOK'
    BY ArchiveTypeStep DEF SafeInv
  <2>2. QED
    BY <2>1, SafeStep DEF SafeInv
<1>3. SafeInv => DeletedWasExported
  BY DEF SafeInv
<1>4. QED
  BY <1>1, <1>2, <1>3, PTL DEF ArchiveSpec

-----------------------------------------------------------------------------
\* Undisturbed runs export once.

\* Counters only grow, so what is undisturbed now has been so all the time.
LEMMA Backwards ==
  ASSUME ArchiveTypeOK, [ArchiveNext]_archiveVars, Undisturbed'
  PROVE  Undisturbed
<1>1. RestTyped
  BY Bounded
<1>2. ASSUME NEW k \in Runner, TableFails(k)
      PROVE  Undisturbed
  <2>1. CASE up[k[1]] = "running"
    BY <1>1, <1>2, <2>1 DEF TableFails, Fails, Undisturbed, RestTyped
  <2>2. CASE up[k[1]] # "running"
    BY <1>2, <2>2 DEF TableFails, Undisturbed, bounds
  <2>3. QED
    BY <2>1, <2>2
<1>3. ASSUME NEW k \in Runner, TickOnce(k) \/ Fetch(k) \/ Export(k) \/ Delete(k) \/ Clean(k)
      PROVE  Undisturbed
  BY <1>3 DEF TickOnce, Fetch, Export, Delete, Clean, Undisturbed, bounds
<1>4. ASSUME NEW k \in Runner, Callback(k)
      PROVE  Undisturbed
  BY <1>1, <1>4 DEF Callback, Undisturbed, RestTyped
<1>5. ASSUME NEW r \in Replica, AuditLog(r) \/ InsertPolicyEvals(r) \/ Restart(r)
      PROVE  Undisturbed
  BY <1>5 DEF AuditLog, InsertPolicyEvals, NewRow, Restart, Undisturbed, bounds
<1>6. ASSUME NEW r \in Replica, Signal(r) \/ Exit(r) \/ CrashReplica(r)
      PROVE  Undisturbed
  BY <1>1, <1>6 DEF Signal, Exit, CrashReplica, Gone, Undisturbed, RestTyped
<1>7. CASE RowAges \/ SessionEnds \/ UNCHANGED archiveVars
  BY <1>7 DEF RowAges, SessionEnds, archiveVars, Undisturbed, bounds
<1>8. QED
  BY <1>2, <1>3, <1>4, <1>5, <1>6, <1>7 DEF ArchiveNext, RunStep

\* Whoever runs is alone.
LEMMA Alone ==
  ASSUME Orderly, NEW k \in Runner, run[k].pc # "idle", NEW q \in Runner, q # k
  PROVE  run[q].pc = "idle"
  BY DEF Orderly

LEMMA OnceStep ==
  ASSUME ArchiveTypeOK, Orderly, [ArchiveNext]_archiveVars, Undisturbed'
  PROVE  Orderly'
<1>0. /\ ArchiveTypeOK /\ RestTyped
      /\ \A i \in 1..Len(table) : copies[i] \in Nat
      /\ \A k \in Runner : run[k].batch \in SUBSET (1..Len(table))
      /\ Len(table) \in Nat /\ live \subseteq 1..Len(table)
      /\ NoRunner \notin Runner /\ DeadSession \notin Runner
  BY Bounded, ArchiveAssumption DEF DeadSession, Runner
<1>1. ASSUME NEW r \in Replica, NEW t \in Table, NewRow(r, t)
      PROVE  Orderly'
  <2>1. /\ Len(table') = Len(table) + 1
        /\ \A i \in 1..Len(table) : copies'[i] = copies[i]
        /\ copies'[Len(table) + 1] = 0
    BY <1>0, <1>1, NewRowType
  <2>2. UNCHANGED <<up, run, lock>> /\ live' = live \cup {Len(table) + 1}
    BY <1>1 DEF NewRow
  <2>3. \A i \in 1..Len(table') : copies'[i] <= 1
    BY <1>0, <2>1 DEF Orderly
  <2>4. \A i \in live' : copies'[i] = 0 \/ \E k \in Runner : run'[k].pc = "delete" /\ i \in run'[k].batch
    BY <1>0, <2>1, <2>2 DEF Orderly
  <2>5. QED
    BY <2>2, <2>3, <2>4 DEF Orderly
<1>2. ASSUME NEW k \in Runner, TickOnce(k)
      PROVE  Orderly'
  <2>1. PICK a \in RunState(Len(table)) : Becomes(k, a) /\ a.pc = "fetch"
    BY <1>2, ArchiveStartStep
  <2>2. run'[k] = a /\ \A q \in Runner \ {k} : run'[q] = run[q]
    BY <2>1, BecomesType
  <2>3. UNCHANGED <<up, table, live, copies>> /\ lock = NoRunner /\ lock' = k /\ run[k].pc = "idle"
    BY <1>2 DEF TickOnce, TryLock
  <2>4. \A q \in Runner : run[q].pc = "idle"
    BY <1>0, <2>3 DEF Orderly
  <2>5. QED
    BY <2>1, <2>2, <2>3, <2>4 DEF Orderly
<1>3. ASSUME NEW k \in Runner, Fetch(k)
      PROVE  Orderly'
  <2>1. PICK a \in RunState(Len(table)) :
          Becomes(k, a) /\ a.pc \in {"fetch", "clean", "export"} /\ (a.pc = "export" => a.batch \subseteq live)
    BY <1>3, FetchStep DEF ExportFirst
  <2>2. run'[k] = a /\ \A q \in Runner \ {k} : run'[q] = run[q]
    BY <2>1, BecomesType
  <2>3. UNCHANGED <<up, table, live, copies, lock>> /\ run[k].pc = "fetch"
    BY <1>3 DEF Fetch
  <2>4. QED
    BY <2>1, <2>2, <2>3 DEF Orderly
<1>4. ASSUME NEW k \in Runner, Export(k)
      PROVE  Orderly'
  <2>1. PICK a \in RunState(Len(table)) : Becomes(k, a) /\ a.pc = "delete" /\ a.batch = run[k].batch
    BY <1>4, ExportStep
  <2>2. run'[k] = a /\ \A q \in Runner \ {k} : run'[q] = run[q]
    BY <2>1, BecomesType
  <2>3. UNCHANGED <<up, table, live, lock>> /\ NewFile(run[k].batch) /\ run[k].pc = "export"
    BY <1>4 DEF Export
  <2>4. \A i \in 1..Len(table) : copies'[i] = IF i \in run[k].batch THEN copies[i] + 1 ELSE copies[i]
    BY <1>0, <2>3, NewFileType
  <2>5. \A q \in Runner \ {k} : run[q].pc = "idle"
    BY <2>3, Alone
  <2>6. \A i \in live : copies[i] = 0
    BY <2>3, <2>5 DEF Orderly
  <2>7. \A i \in 1..Len(table) : copies'[i] <= 1
    BY <1>0, <2>3, <2>4, <2>6 DEF Orderly
  <2>8. \A i \in live' : copies'[i] = 0 \/ \E q \in Runner : run'[q].pc = "delete" /\ i \in run'[q].batch
    BY <1>0, <2>1, <2>2, <2>3, <2>4, <2>6
  <2>9. QED
    BY <2>1, <2>2, <2>3, <2>5, <2>7, <2>8 DEF Orderly
<1>5. ASSUME NEW k \in Runner, Delete(k)
      PROVE  Orderly'
  <2>1. PICK a \in RunState(Len(table)) : Becomes(k, a) /\ a.pc \in {"fetch", "clean"}
    BY <1>5, NextTableStep
  <2>2. run'[k] = a /\ \A q \in Runner \ {k} : run'[q] = run[q]
    BY <2>1, BecomesType
  <2>3. UNCHANGED <<up, table, copies, lock>> /\ live' = live \ run[k].batch /\ run[k].pc = "delete"
    BY <1>5 DEF Delete
  <2>4. \A q \in Runner \ {k} : run[q].pc = "idle"
    BY <2>3, Alone
  <2>5. \A i \in live' : copies'[i] = 0
    BY <2>3, <2>4 DEF Orderly
  <2>6. QED
    BY <2>1, <2>2, <2>3, <2>4, <2>5 DEF Orderly
<1>6. ASSUME NEW k \in Runner, TableFails(k)
      PROVE  Orderly'
  <2>1. k[1] \in Replica
    BY DEF Runner
  <2>2. faults' = faults + 1
    BY <1>6, <2>1 DEF TableFails, Fails, Orderly
  <2>3. QED
    BY <1>0, <2>2 DEF Undisturbed, RestTyped
<1>7. ASSUME NEW k \in Runner, Clean(k)
      PROVE  Orderly'
  <2>1. PICK a \in RunState(Len(table)) : Becomes(k, a) /\ a.pc = "idle"
    BY <1>7, CleanStep
  <2>2. run'[k] = a /\ \A q \in Runner \ {k} : run'[q] = run[q]
    BY <2>1, BecomesType
  <2>3. UNCHANGED <<up, table, live>> /\ run[k].pc = "clean"
    BY <1>7 DEF Clean
  <2>4. \A i \in 1..Len(table) : copies'[i] = copies[i] \/ copies'[i] = 0
    BY <1>7, CleanStep
  <2>5. \A q \in Runner \ {k} : run[q].pc = "idle"
    BY <2>3, Alone
  <2>6. \A i \in live' : copies'[i] = 0
    BY <1>0, <2>3, <2>4, <2>5 DEF Orderly
  <2>7. \A i \in 1..Len(table') : copies'[i] <= 1
    BY <1>0, <2>3, <2>4 DEF Orderly
  <2>8. QED
    BY <2>1, <2>2, <2>3, <2>5, <2>6, <2>7 DEF Orderly
<1>8. ASSUME NEW k \in Runner, Callback(k)
      PROVE  Orderly'
  BY <1>0, <1>8 DEF Callback, Undisturbed, RestTyped
<1>9. ASSUME NEW r \in Replica, Signal(r) \/ Exit(r) \/ CrashReplica(r) \/ Restart(r)
      PROVE  Orderly'
  BY <1>0, <1>9 DEF Signal, Exit, CrashReplica, Restart, Undisturbed, RestTyped, Orderly
<1>10. CASE RowAges \/ UNCHANGED archiveVars
  <2>1. UNCHANGED <<up, table, live, copies, run, lock>>
    BY <1>10 DEF RowAges, archiveVars
  <2>2. QED
    BY <2>1 DEF Orderly
<1>11. CASE SessionEnds
  <2>1. UNCHANGED <<up, table, live, copies, run>> /\ lock = DeadSession
    BY <1>11 DEF SessionEnds
  <2>2. QED
    BY <1>0, <2>1 DEF Orderly
<1>12. (\E r \in Replica : AuditLog(r) \/ InsertPolicyEvals(r))
         => \E r \in Replica, t \in Table : NewRow(r, t)
  BY DEF AuditLog, InsertPolicyEvals, Table
<1>13. QED
  BY <1>1, <1>2, <1>3, <1>4, <1>5, <1>6, <1>7, <1>8, <1>9, <1>10, <1>11, <1>12 DEF ArchiveNext, RunStep

\* The advisory lock keeps the schedulers of the replicas apart: while nothing
\* fails, stops or is called back, no row is exported twice.
THEOREM ExportsOnce == ArchiveSpec => []ExportedOnceUndisturbed
<1>1. ArchiveInit => OnceInv
  <2>1. ArchiveInit => ArchiveTypeOK
    BY ArchiveTypeInit
  <2>2. ArchiveInit => Orderly
    BY DEF ArchiveInit, IdleRun, Orderly
  <2>3. QED
    BY <2>1, <2>2 DEF OnceInv
<1>2. OnceInv /\ [ArchiveNext]_archiveVars => OnceInv'
  BY ArchiveTypeStep, Backwards, OnceStep DEF OnceInv
<1>3. OnceInv => ExportedOnceUndisturbed
  BY DEF OnceInv, Undisturbed, Orderly, ExportedOnceUndisturbed
<1>4. QED
  BY <1>1, <1>2, <1>3, PTL DEF ArchiveSpec

-----------------------------------------------------------------------------
(***************************************************************************)
(* The callbacks.                                                          *)
(***************************************************************************)

(* A worker that serves a callback serves one for a task. *)
Serving == \A w \in Worker : cb[w].pc # "idle" => cb[w].task \in Task

(* A row is not claimed in the future, and carries no claim before the      *)
(* first one.                                                               *)
Dated ==
  \A t \in Task :
    /\ row[t].claimed <= clock
    /\ row[t].status \in {"none", "submitted"} => row[t].claimed = 0

(* An execution works under the claim that the row carries, or under one    *)
(* that was stale when the row was claimed again.  Once its own claim is    *)
(* booked as failed it is not executing any more.                           *)
Behind ==
  \A w \in Worker : Executing(w) =>
    LET r == row[cb[w].task] IN
    /\ r.status \notin {"none", "submitted"}
    /\ cb[w].token = r.claimed \/ cb[w].token < r.claimed - Lease
    /\ r.status = "failed" => cb[w].token # r.claimed

(* A handler that returned nil did so under the token of its execution. *)
Completed == \A w \in Worker : cb[w].pc = "ok" => cb[w].token \in ran[cb[w].task]

TypeInv == TypeOK /\ Serving
ClaimInv ==
  /\ Dated /\ Behind /\ Completed
  /\ OverlapOnlyWhenStale /\ SucceededByItsClaimant /\ RunsTheRecordedAction
IInv == TypeInv /\ ClaimInv

-----------------------------------------------------------------------------
(* Types. *)

LEMMA IdleType == IdleCb \in CbState
BY JobsAssumption DEF IdleCb, CbState, Pc

LEMMA VerdictType == ASSUME NEW o PROVE Verdict(o) \in {"none", "pending", "done", "dead"}
BY DEF Verdict

(* What Answer does to the types. *)
LEMMA AnswerType ==
  ASSUME TypeInv, NEW w \in Worker, cb[w].pc # "idle",
         NEW o \in Outcome, NEW s \in Status, Answer(w, o, s)
  PROVE  /\ cb' \in [Worker -> CbState]
         /\ \A v \in Worker : cb'[v] = IF v = w THEN IdleCb ELSE cb[v]
         /\ reply' \in [Task -> Reply]
         /\ runner' \in [Task -> {"none", "pending", "done", "dead"}]
<1>1. cb[w].task \in Task
  BY DEF TypeInv, Serving
<1>2. /\ cb' \in [Worker -> CbState]
      /\ \A v \in Worker : cb'[v] = IF v = w THEN IdleCb ELSE cb[v]
  BY IdleType DEF TypeInv, TypeOK, Answer
<1>3. [outcome |-> o, status |-> IF o = "idempotent" THEN s ELSE "none"] \in Reply
  BY DEF Reply, Status
<1>4. reply' \in [Task -> Reply]
  BY <1>3 DEF TypeInv, TypeOK, Answer
<1>5. runner' \in [Task -> {"none", "pending", "done", "dead"}]
  BY VerdictType DEF TypeInv, TypeOK, Answer
<1> QED BY <1>2, <1>4, <1>5

(* Answering frees the worker, so the tasks of the others stay served. *)
LEMMA AnswerServing ==
  ASSUME TypeInv, NEW w \in Worker,
         \A v \in Worker : cb'[v] = IF v = w THEN IdleCb ELSE cb[v]
  PROVE  Serving'
BY DEF TypeInv, Serving, IdleCb

LEMMA ClaimedType ==
  ASSUME TypeInv, NEW t \in Task, NEW a \in Action
  PROVE  ClaimedRow(row[t], a) \in RowState
BY JobsAssumption DEF TypeInv, TypeOK, ClaimedRow, RowState, Status

(* A worker that received a callback carries an action with a handler. *)
LEMMA CbFields ==
  ASSUME TypeInv, NEW w \in Worker
  PROVE  /\ cb[w] \in CbState
         /\ cb[w].action \in Registered => cb[w].action \in Action
         /\ cb[w].token \in 0..MaxClock
BY JobsAssumption DEF TypeInv, TypeOK, CbState

LEMMA HandlingType ==
  ASSUME NEW c \in CbState, NEW k \in 0..MaxClock
  PROVE  [c EXCEPT !.pc = "handling", !.token = k] \in CbState
BY DEF CbState, Pc

LEMMA BookedType ==
  ASSUME NEW r \in RowState, NEW s \in Status
  PROVE  [r EXCEPT !.status = s] \in RowState
BY DEF RowState

LEMMA TypeInit == Init => TypeInv
<1> SUFFICES ASSUME Init PROVE TypeInv
  OBVIOUS
<1>1. NoRow \in RowState
  BY JobsAssumption DEF NoRow, RowState, Status
<1>2. [outcome |-> "none", status |-> "none"] \in Reply
  BY DEF Reply, Status
<1>3. TypeOK
  BY <1>1, <1>2, IdleType, JobsAssumption DEF Init, TypeOK
<1>4. Serving
  BY DEF Init, Serving, IdleCb
<1> QED BY <1>3, <1>4 DEF TypeInv

(* Every step keeps the types; one case per action. *)
LEMMA TypeStep == TypeInv /\ [Next]_vars => TypeInv'
<1> SUFFICES ASSUME TypeInv, [Next]_vars PROVE TypeInv'
  OBVIOUS
<1> USE DEF TypeInv
<1>1. ASSUME NEW t \in Task, NEW how \in {"submit", "trigger", "cron"}, Accept(t, how)
      PROVE  TypeInv'
  <2>1. TypeOK'
    BY <1>1 DEF TypeOK, Accept
  <2>2. Serving'
    BY <1>1 DEF Serving, Accept
  <2> QED BY <2>1, <2>2
<1>2. ASSUME NEW t \in Task, Resubmit(t) PROVE TypeInv'
  BY <1>2 DEF TypeOK, Resubmit, Serving
<1>3. ASSUME NEW t \in Task, RecordSubmit(t) PROVE TypeInv'
  <2>1. [status |-> "submitted", claimed |-> 0,
         action |-> IF ledger[t] = "trigger" THEN TriggerMark ELSE job[t]] \in RowState
    BY JobsAssumption DEF TypeOK, RowState, Status
  <2>2. row' \in [Task -> RowState]
    BY <1>3, <2>1 DEF TypeOK, RecordSubmit
  <2>3. ledger' \in [Task -> {"none", "submit", "trigger", "booked"}]
    BY <1>3 DEF TypeOK, RecordSubmit
  <2> QED BY <1>3, <2>2, <2>3 DEF TypeOK, RecordSubmit, Serving
<1>4. ASSUME NEW t \in Task, RetryTask(t) PROVE TypeInv'
  BY <1>4 DEF TypeOK, RetryTask, Serving
<1>5. ASSUME NEW t \in Task, NEW a \in Action, UpdateJob(t, a) PROVE TypeInv'
  BY <1>5 DEF TypeOK, UpdateJob, Serving
<1>6. ASSUME NEW t \in Task, NEW w \in Worker, Deliver(w, t) PROVE TypeInv'
  <2>1. [pc |-> "received", task |-> t, action |-> job[t], token |-> 0] \in CbState
    BY JobsAssumption DEF TypeOK, CbState, Pc
  <2>2. cb' \in [Worker -> CbState]
    BY <1>6, <2>1 DEF TypeOK, Deliver
  <2>3. Serving'
    BY <1>6 DEF TypeOK, Deliver, Serving
  <2> QED BY <1>6, <2>2, <2>3 DEF TypeOK, Deliver
<1>7. ASSUME NEW w \in Worker, UnknownAction(w) PROVE TypeInv'
  <2>1. cb[w].pc # "idle" /\ Answer(w, "unknownAction", "none")
    BY <1>7 DEF UnknownAction
  <2> QED BY <1>7, <2>1, AnswerType, AnswerServing DEF TypeOK, UnknownAction, Outcome, Status
<1>8. ASSUME NEW w \in Worker, ClaimCallbackRow(w) PROVE TypeInv'
  <2> DEFINE t == cb[w].task
             new == ClaimedRow(row[t], cb[w].action)
  <2>1. cb[w].pc # "idle" /\ cb[w].pc = "received" /\ cb[w].action \in Action /\ t \in Task
    BY <1>8, CbFields DEF ClaimCallbackRow, Serving
  <2>2. row' \in [Task -> RowState]
    BY <1>8, <2>1, ClaimedType DEF ClaimCallbackRow, TypeOK
  <2>3. CASE new.action = cb[w].action
    <3>1. cb' = [cb EXCEPT ![w].pc = "handling", ![w].token = clock] /\ UNCHANGED <<runner, reply>>
      BY <1>8, <2>3 DEF ClaimCallbackRow
    <3>2. cb' \in [Worker -> CbState]
      <4>1. [cb[w] EXCEPT !.pc = "handling", !.token = clock] \in CbState
        <5>1. clock \in 0..MaxClock
          BY JobsAssumption DEF TypeOK
        <5> QED BY <5>1, CbFields, HandlingType
      <4>2. cb' = [cb EXCEPT ![w] = [cb[w] EXCEPT !.pc = "handling", !.token = clock]]
        BY <3>1 DEF TypeOK
      <4> QED BY <4>1, <4>2 DEF TypeOK
    <3>3. Serving'
      BY <3>1, <2>1 DEF TypeOK, Serving
    <3> QED BY <1>8, <2>2, <3>1, <3>2, <3>3 DEF TypeOK, ClaimCallbackRow
  <2>4. CASE new.action # cb[w].action
    <3>1. Answer(w, "mismatch", "running")
      BY <1>8, <2>4 DEF ClaimCallbackRow
    <3>2. "mismatch" \in Outcome /\ "running" \in Status
      BY DEF Outcome, Status
    <3>3. Serving'
      BY <2>1, <3>1, <3>2, AnswerType, AnswerServing
    <3> QED BY <1>8, <2>1, <2>2, <3>1, <3>2, <3>3, AnswerType DEF TypeOK, ClaimCallbackRow
  <2> QED BY <2>3, <2>4
<1>9. ASSUME NEW w \in Worker, ClaimMiss(w) PROVE TypeInv'
  <2>1. cb' \in [Worker -> CbState]
    BY <1>9 DEF ClaimMiss, TypeOK, CbState, Pc
  <2>2. Serving'
    BY <1>9 DEF ClaimMiss, TypeOK, Serving
  <2> QED BY <1>9, <2>1, <2>2 DEF ClaimMiss, TypeOK
<1>10. ASSUME NEW w \in Worker, GetByTaskID(w) PROVE TypeInv'
  <2>1. cb[w].pc # "idle" /\ cb[w].task \in Task
    BY <1>10 DEF GetByTaskID, Serving
  <2>2. row[cb[w].task].status \in Status
    BY <2>1 DEF TypeOK, RowState
  <2>3. PICK o \in {"idempotent", "mismatch"} : Answer(w, o, row[cb[w].task].status)
    BY <1>10 DEF GetByTaskID
  <2> QED BY <1>10, <2>1, <2>2, <2>3, AnswerType, AnswerServing DEF TypeOK, GetByTaskID, Outcome
<1>11. ASSUME NEW w \in Worker, ClaimError(w) PROVE TypeInv'
  <2>1. cb[w].pc # "idle" /\ cb[w].task \in Task
    BY <1>11 DEF ClaimError, Serving
  <2>2. row[cb[w].task].status \in Status
    BY <2>1 DEF TypeOK, RowState
  <2>3. row' \in [Task -> RowState]
    <3>1. CASE UNCHANGED row
      BY <3>1 DEF TypeOK
    <3>2. CASE /\ cb[w].pc = "received"
               /\ row' = [row EXCEPT ![cb[w].task] = ClaimedRow(row[cb[w].task], cb[w].action)]
      <4>1. cb[w].action \in Action
        BY <1>11, <3>2, CbFields DEF ClaimError
      <4> QED BY <2>1, <3>2, <4>1, ClaimedType DEF TypeOK
    <3> QED BY <1>11, <3>1, <3>2 DEF ClaimError
  <2> QED BY <1>11, <2>1, <2>2, <2>3, AnswerType, AnswerServing DEF TypeOK, ClaimError, Outcome
<1>12. ASSUME NEW w \in Worker, Handle(w) PROVE TypeInv'
  <2>1. PICK r \in {"ok", "abort", "err"} :
          /\ cb' = [cb EXCEPT ![w].pc = r]
          /\ ran' = IF r = "ok" THEN [ran EXCEPT ![cb[w].task] = @ \cup {cb[w].token}] ELSE ran
    BY <1>12 DEF Handle
  <2>2. cb' \in [Worker -> CbState]
    BY <2>1 DEF TypeOK, CbState, Pc
  <2>3. cb[w].token \in 0..MaxClock
    BY CbFields
  <2>4. ran' \in [Task -> SUBSET (0..MaxClock)]
    BY <2>1, <2>3 DEF TypeOK
  <2>5. Serving'
    BY <1>12, <2>1 DEF TypeOK, Serving, Handle
  <2> QED BY <1>12, <2>2, <2>4, <2>5 DEF TypeOK, Handle
<1>13. ASSUME NEW w \in Worker, MarkSucceeded(w) PROVE TypeInv'
  <2>1. cb[w].pc # "idle" /\ cb[w].task \in Task
    BY <1>13 DEF MarkSucceeded, Serving
  <2>2. row[cb[w].task].status \in Status
    BY <2>1 DEF TypeOK, RowState
  <2>3. row' \in [Task -> RowState]
    BY <1>13 DEF MarkSucceeded, TypeOK, RowState, Status
  <2> QED BY <1>13, <2>1, <2>2, <2>3, AnswerType, AnswerServing DEF TypeOK, MarkSucceeded, Outcome
<1>14. ASSUME NEW w \in Worker, MarkFailed(w) PROVE TypeInv'
  <2>1. cb[w].pc # "idle" /\ cb[w].task \in Task
    BY <1>14 DEF MarkFailed, Serving
  <2>2. row[cb[w].task].status \in Status
    BY <2>1 DEF TypeOK, RowState
  <2>3. row' \in [Task -> RowState]
    <3>1. row' = row \/ row' = [row EXCEPT ![cb[w].task].status = "failed"]
      BY <1>14 DEF MarkFailed
    <3>2. [row[cb[w].task] EXCEPT !.status = "failed"] \in RowState
      BY <2>1, BookedType DEF TypeOK, Status
    <3> QED BY <3>1, <3>2 DEF TypeOK
  <2>4. PICK o \in Outcome, s \in Status : Answer(w, o, s)
    BY <1>14, <2>2 DEF MarkFailed, Outcome, Status
  <2>5. Serving'
    BY <2>1, <2>4, AnswerType, AnswerServing
  <2> QED BY <1>14, <2>1, <2>3, <2>4, <2>5, AnswerType DEF TypeOK, MarkFailed
<1>15. ASSUME NEW w \in Worker, Crash(w) PROVE TypeInv'
  <2>1. \A v \in Worker : cb'[v] = IF v = w THEN IdleCb ELSE cb[v]
    BY <1>15 DEF Crash, TypeOK
  <2> QED BY <1>15, <2>1, IdleType, AnswerServing DEF TypeOK, Crash
<1>16. CASE Tick
  BY <1>16, JobsAssumption DEF TypeOK, Tick, Serving
<1>17. CASE UNCHANGED vars
  BY <1>17 DEF vars, TypeOK, Serving
<1> QED
  BY <1>1, <1>2, <1>3, <1>4, <1>5, <1>6, <1>7, <1>8, <1>9, <1>10, <1>11, <1>12,
     <1>13, <1>14, <1>15, <1>16, <1>17 DEF Next, Execute

(* Rows, callbacks and answers keep their types: no claim lies in the       *)
(* future, and every outcome of Execute has a verdict.                      *)
THEOREM TypeCorrect == Spec => []TypeOK
<1>1. TypeInv => TypeOK
  BY DEF TypeInv
<1> QED BY <1>1, TypeInit, TypeStep, PTL DEF Spec

-----------------------------------------------------------------------------
(* The claim protocol.  Four kinds of steps matter: those that touch no row *)
(* and start no execution, a claim, the end of a handler, and a booking.    *)

LEMMA InvInit == Init => IInv
<1> SUFFICES ASSUME Init PROVE IInv
  OBVIOUS
<1>1. \A w \in Worker : cb[w].pc = "idle"
  BY DEF Init, IdleCb
<1>2. \A t \in Task : row[t].status = "none" /\ row[t].claimed = 0
  BY DEF Init, NoRow
<1>3. ClaimInv
  BY <1>1, <1>2 DEF Init, ClaimInv, Dated, Behind, Completed, OverlapOnlyWhenStale,
     SucceededByItsClaimant, RunsTheRecordedAction, Executing
<1> QED BY <1>3, TypeInit DEF IInv

(* The numbers of a state and of its successor are integers. *)
LEMMA Numbers ==
  ASSUME TypeInv
  PROVE  /\ clock \in Int /\ Lease \in Int /\ Lease >= 0
         /\ \A t \in Task : row[t].claimed \in Int
         /\ \A w \in Worker : cb[w].token \in Int
BY JobsAssumption DEF TypeInv, TypeOK, RowState, CbState

(* Steps that leave the rows alone: a worker keeps its state or is not      *)
(* executing afterwards.                                                    *)
LEMMA QuietStep ==
  ASSUME IInv, TypeInv', row' = row, ran' = ran, clock' >= clock,
         \A v \in Worker : cb'[v] = cb[v] \/ cb'[v].pc \in {"idle", "received", "missed"}
  PROVE  ClaimInv'
<1> USE Numbers DEF IInv
<1>1. Dated'
  <2>1. clock' \in Int
    BY JobsAssumption DEF TypeInv, TypeOK
  <2> QED BY <2>1 DEF ClaimInv, Dated
<1>2. \A v \in Worker : Executing(v)' => Executing(v) /\ cb'[v] = cb[v]
  BY DEF Executing
<1>3. Behind'
  BY <1>2 DEF ClaimInv, Behind
<1>4. Completed'
  BY DEF ClaimInv, Completed
<1>5. OverlapOnlyWhenStale'
  BY <1>2 DEF ClaimInv, OverlapOnlyWhenStale
<1>6. SucceededByItsClaimant'
  BY DEF ClaimInv, SucceededByItsClaimant
<1>7. RunsTheRecordedAction'
  BY <1>2 DEF ClaimInv, RunsTheRecordedAction
<1> QED BY <1>1, <1>3, <1>4, <1>5, <1>6, <1>7 DEF ClaimInv

(* An execution of a task whose row can be claimed is stale: its token is   *)
(* more than the lease before now.                                          *)
LEMMA ClaimableIsStale ==
  ASSUME IInv, NEW v \in Worker, Executing(v), Claimable(row[cb[v].task])
  PROVE  cb[v].token < clock - Lease /\ cb[v].token <= row[cb[v].task].claimed
<1> DEFINE r == row[cb[v].task]
<1>1. cb[v].task \in Task
  BY DEF IInv, TypeInv, Serving, Executing
<1>2. /\ r.status \notin {"none", "submitted"}
      /\ cb[v].token = r.claimed \/ cb[v].token < r.claimed - Lease
      /\ r.status = "failed" => cb[v].token # r.claimed
  BY DEF IInv, ClaimInv, Behind
<1>3. r.claimed <= clock
  BY <1>1 DEF IInv, ClaimInv, Dated
<1>4. r.status = "failed" \/ r.claimed < clock - Lease
  BY <1>2 DEF Claimable
<1>5. clock \in Int /\ Lease \in Int /\ Lease >= 0 /\ r.claimed \in Int /\ cb[v].token \in Int
  BY <1>1, Numbers DEF IInv
<1> HIDE DEF r
<1>6. cb[v].token < clock - Lease /\ cb[v].token <= r.claimed
  BY <1>2, <1>3, <1>4, <1>5
<1> QED BY <1>6 DEF r

(* A claim, whether its caller goes on to execute, is refused by the        *)
(* snapshot check or never hears of it.                                     *)
LEMMA ClaimStep ==
  ASSUME IInv, TypeInv', NEW w \in Worker, NEW t \in Task, NEW a,
         Claimable(row[t]),
         row' = [row EXCEPT ![t] = ClaimedRow(row[t], a)],
         \A v \in Worker : v # w => cb'[v] = cb[v],
         \/ cb'[w].pc = "idle"
         \/ /\ cb'[w].pc = "handling" /\ cb'[w].task = t /\ cb'[w].token = clock
            /\ cb'[w].action = ClaimedRow(row[t], a).action,
         ran' = ran, clock' = clock
  PROVE  ClaimInv'
<1> DEFINE new == ClaimedRow(row[t], a)
<1>1. \A u \in Task : row'[u] = IF u = t THEN new ELSE row[u]
  BY DEF IInv, TypeInv, TypeOK
<1>2. /\ new.status = "running" /\ new.claimed = clock
      /\ row[t].status # "none" => new.action = row[t].action
  BY DEF ClaimedRow
<1> HIDE DEF new
<1>3. clock \in Int /\ Lease \in Int /\ Lease >= 0
  BY Numbers DEF IInv
<1>4. \A v \in Worker : Executing(v)' =>
        \/ v # w /\ Executing(v) /\ cb'[v] = cb[v] /\ cb[v].task \in Task
        \/ v = w /\ cb'[v].task = t /\ cb'[v].token = clock /\ cb'[v].action = new.action
  BY DEF Executing, IInv, TypeInv, Serving, new
<1>5. \A v \in Worker : Executing(v) /\ cb[v].task = t =>
        cb[v].token < clock - Lease /\ row[t].status # "none"
  BY ClaimableIsStale DEF IInv, ClaimInv, Behind
<1>6. Dated'
  <2> SUFFICES ASSUME NEW u \in Task
               PROVE  /\ row'[u].claimed <= clock'
                      /\ row'[u].status \in {"none", "submitted"} => row'[u].claimed = 0
    BY DEF Dated
  <2>1. CASE u = t
    BY <1>1, <1>2, <1>3, <2>1
  <2>2. CASE u # t
    BY <1>1, <2>2 DEF IInv, ClaimInv, Dated
  <2> QED BY <2>1, <2>2
<1>7. Behind'
  <2> SUFFICES ASSUME NEW v \in Worker, Executing(v)'
               PROVE  LET r == row'[cb'[v].task] IN
                      /\ r.status \notin {"none", "submitted"}
                      /\ cb'[v].token = r.claimed \/ cb'[v].token < r.claimed - Lease
                      /\ r.status = "failed" => cb'[v].token # r.claimed
    BY DEF Behind
  <2>1. CASE cb'[v].task = t
    BY <1>1, <1>2, <1>4, <1>5, <2>1
  <2>2. CASE cb'[v].task # t
    BY <1>1, <1>4, <2>2 DEF IInv, ClaimInv, Behind
  <2> QED BY <2>1, <2>2
<1>8. Completed'
  BY DEF IInv, ClaimInv, Completed
<1>9. OverlapOnlyWhenStale'
  <2> SUFFICES ASSUME NEW u \in Worker, NEW v \in Worker, u # v,
                      Executing(u)', Executing(v)', cb'[u].task = cb'[v].task
               PROVE  \/ cb'[u].token < cb'[v].token - Lease
                      \/ cb'[v].token < cb'[u].token - Lease
    BY DEF OverlapOnlyWhenStale
  <2>1. CASE u # w /\ v # w
    BY <1>4, <2>1 DEF IInv, ClaimInv, OverlapOnlyWhenStale
  <2>2. CASE u = w
    BY <1>4, <1>5, <2>2
  <2>3. CASE v = w
    BY <1>4, <1>5, <2>3
  <2> QED BY <2>1, <2>2, <2>3
<1>10. SucceededByItsClaimant'
  BY <1>1, <1>2 DEF IInv, ClaimInv, SucceededByItsClaimant
<1>11. RunsTheRecordedAction'
  BY <1>1, <1>2, <1>4, <1>5 DEF IInv, ClaimInv, RunsTheRecordedAction
<1> QED BY <1>6, <1>7, <1>8, <1>9, <1>10, <1>11 DEF ClaimInv

(* A booking: the fence held, so the worker that leaves was the only one    *)
(* under the row's claim.                                                   *)
LEMMA BookStep ==
  ASSUME IInv, TypeInv', NEW w \in Worker, NEW s \in {"succeeded", "failed"},
         Executing(w), Fence(w), s = "succeeded" => cb[w].pc = "ok",
         row' = [row EXCEPT ![cb[w].task].status = s],
         \A v \in Worker : cb'[v] = IF v = w THEN IdleCb ELSE cb[v],
         ran' = ran, clock' = clock
  PROVE  ClaimInv'
<1> DEFINE t == cb[w].task
<1>1. t \in Task /\ row[t].status = "running" /\ row[t].claimed = cb[w].token
  BY DEF IInv, TypeInv, Serving, Executing, Fence
<1>2. \A u \in Task : /\ row'[u].status = IF u = t THEN s ELSE row[u].status
                      /\ row'[u].claimed = row[u].claimed
                      /\ row'[u].action = row[u].action
  BY DEF IInv, TypeInv, TypeOK, RowState
<1>3. \A v \in Worker : Executing(v)' =>
        v # w /\ Executing(v) /\ cb'[v] = cb[v] /\ cb[v].task \in Task
  BY DEF Executing, IdleCb, IInv, TypeInv, Serving
<1> HIDE DEF t
<1>4. \A v \in Worker : Executing(v)' /\ cb[v].task = t => cb[v].token # row[t].claimed
  <2> SUFFICES ASSUME NEW v \in Worker, Executing(v)', cb[v].task = t
               PROVE  cb[v].token # cb[w].token
    BY <1>1
  <2>1. cb[v].token < cb[w].token - Lease \/ cb[w].token < cb[v].token - Lease
    BY <1>3 DEF IInv, ClaimInv, OverlapOnlyWhenStale, t
  <2> QED BY <2>1, Numbers DEF IInv
<1>5. Dated'
  BY <1>1, <1>2 DEF IInv, ClaimInv, Dated
<1>6. Behind'
  <2> SUFFICES ASSUME NEW v \in Worker, Executing(v)'
               PROVE  LET r == row'[cb'[v].task] IN
                      /\ r.status \notin {"none", "submitted"}
                      /\ cb'[v].token = r.claimed \/ cb'[v].token < r.claimed - Lease
                      /\ r.status = "failed" => cb'[v].token # r.claimed
    BY DEF Behind
  <2>1. /\ row[cb[v].task].status \notin {"none", "submitted"}
        /\ \/ cb[v].token = row[cb[v].task].claimed
           \/ cb[v].token < row[cb[v].task].claimed - Lease
        /\ row[cb[v].task].status = "failed" => cb[v].token # row[cb[v].task].claimed
    BY <1>3 DEF IInv, ClaimInv, Behind
  <2> QED BY <1>2, <1>3, <1>4, <2>1
<1>7. Completed'
  BY DEF IInv, ClaimInv, Completed, IdleCb
<1>8. OverlapOnlyWhenStale'
  BY <1>3 DEF IInv, ClaimInv, OverlapOnlyWhenStale
<1>9. SucceededByItsClaimant'
  <2>1. s = "succeeded" => row[t].claimed \in ran[t]
    BY <1>1 DEF IInv, ClaimInv, Completed, t
  <2> QED BY <1>2, <2>1 DEF IInv, ClaimInv, SucceededByItsClaimant
<1>10. RunsTheRecordedAction'
  BY <1>2, <1>3 DEF IInv, ClaimInv, RunsTheRecordedAction
<1> QED BY <1>5, <1>6, <1>7, <1>8, <1>9, <1>10 DEF ClaimInv

(* The end of a handler. *)
LEMMA HandleStep ==
  ASSUME IInv, NEW w \in Worker, Handle(w)
  PROVE  ClaimInv'
<1>1. PICK r \in {"ok", "abort", "err"} :
        /\ cb' = [cb EXCEPT ![w].pc = r]
        /\ ran' = IF r = "ok" THEN [ran EXCEPT ![cb[w].task] = @ \cup {cb[w].token}] ELSE ran
  BY DEF Handle
<1>2. row' = row /\ clock' = clock /\ cb[w].pc = "handling"
  BY DEF Handle
<1>3. \A v \in Worker : /\ cb'[v].task = cb[v].task /\ cb'[v].token = cb[v].token
                        /\ cb'[v].action = cb[v].action
                        /\ cb'[v].pc = IF v = w THEN r ELSE cb[v].pc
  BY <1>1 DEF IInv, TypeInv, TypeOK, CbState
<1>4. \A v \in Worker : Executing(v)' <=> Executing(v)
  BY <1>2, <1>3 DEF Executing
<1>5. cb[w].task \in Task
  BY <1>2 DEF IInv, TypeInv, Serving
<1>6. /\ \A t \in Task : ran[t] \subseteq ran'[t]
      /\ r = "ok" => cb[w].token \in ran'[cb[w].task]
  BY <1>1, <1>5 DEF IInv, TypeInv, TypeOK
<1>7. Completed'
  <2> SUFFICES ASSUME NEW v \in Worker, cb'[v].pc = "ok"
               PROVE  cb[v].token \in ran'[cb[v].task]
    BY <1>3 DEF Completed
  <2>1. CASE v = w
    BY <1>3, <1>6, <2>1
  <2>2. CASE v # w
    BY <1>3, <1>6, <2>2 DEF IInv, TypeInv, Serving, ClaimInv, Completed
  <2> QED BY <2>1, <2>2
<1>8. Dated' /\ Behind' /\ OverlapOnlyWhenStale' /\ RunsTheRecordedAction'
  BY <1>2, <1>3, <1>4
     DEF IInv, ClaimInv, Dated, Behind, OverlapOnlyWhenStale, RunsTheRecordedAction
<1>9. SucceededByItsClaimant'
  BY <1>2, <1>6 DEF IInv, ClaimInv, SucceededByItsClaimant
<1> QED BY <1>7, <1>8, <1>9 DEF ClaimInv

(* The ledger row of a submission: nobody executes a task without a row. *)
LEMMA RecordStep ==
  ASSUME IInv, TypeInv', NEW t \in Task, RecordSubmit(t)
  PROVE  ClaimInv'
<1>1. cb' = cb /\ ran' = ran /\ clock' = clock
  BY DEF RecordSubmit
<1>2. CASE row' = row
  BY <1>1, <1>2, QuietStep, Numbers DEF IInv
<1>3. CASE row' # row
  <2>1. /\ row[t].status = "none"
        /\ \A u \in Task : u # t => row'[u] = row[u]
        /\ row'[t].status = "submitted" /\ row'[t].claimed = 0
    BY <1>3 DEF RecordSubmit, IInv, TypeInv, TypeOK
  <2>2. \A v \in Worker : Executing(v) => cb[v].task \in Task /\ cb[v].task # t
    BY <2>1 DEF IInv, TypeInv, Serving, ClaimInv, Behind, Executing
  <2>3. \A v \in Worker : Executing(v)' <=> Executing(v)
    BY <1>1 DEF Executing
  <2>4. Dated'
    BY <1>1, <2>1, Numbers DEF IInv, ClaimInv, Dated, TypeInv, TypeOK
  <2>5. Behind' /\ RunsTheRecordedAction'
    BY <1>1, <2>1, <2>2, <2>3 DEF IInv, ClaimInv, Behind, RunsTheRecordedAction
  <2>6. Completed' /\ OverlapOnlyWhenStale'
    BY <1>1, <2>3 DEF IInv, ClaimInv, Completed, OverlapOnlyWhenStale
  <2>7. SucceededByItsClaimant'
    BY <1>1, <2>1 DEF IInv, ClaimInv, SucceededByItsClaimant
  <2> QED BY <2>4, <2>5, <2>6, <2>7 DEF ClaimInv
<1> QED BY <1>2, <1>3

(* Where the answer goes does not matter here: the worker is free. *)
LEMMA AnswerFrees ==
  ASSUME TypeInv, NEW w \in Worker, NEW o, NEW s, Answer(w, o, s)
  PROVE  \A v \in Worker : cb'[v] = IF v = w THEN IdleCb ELSE cb[v]
BY DEF Answer, TypeInv, TypeOK

LEMMA InvStep == IInv /\ [Next]_vars => IInv'
<1> SUFFICES ASSUME IInv, [Next]_vars PROVE ClaimInv'
  BY TypeStep DEF IInv
<1> USE DEF IInv
<1>0. TypeInv' /\ clock \in Int
  BY TypeStep, Numbers
<1>1. CASE /\ row' = row /\ ran' = ran /\ cb' = cb /\ clock' >= clock
  BY <1>0, <1>1, QuietStep
<1>2. ASSUME NEW t \in Task, RecordSubmit(t) PROVE ClaimInv'
  BY <1>0, <1>2, RecordStep
<1>3. ASSUME NEW t \in Task, NEW w \in Worker, Deliver(w, t) PROVE ClaimInv'
  <2>1. \A v \in Worker : cb'[v] = cb[v] \/ cb'[v].pc = "received"
    BY <1>3 DEF Deliver, TypeInv, TypeOK
  <2> QED BY <1>0, <1>3, <2>1, QuietStep DEF Deliver
<1>4. ASSUME NEW w \in Worker, NEW o, NEW s, Answer(w, o, s),
             row' = row, ran' = ran, clock' = clock
      PROVE  ClaimInv'
  <2>1. \A v \in Worker : cb'[v] = cb[v] \/ cb'[v].pc = "idle"
    BY <1>4, AnswerFrees DEF IdleCb
  <2> QED BY <1>0, <1>4, <2>1, QuietStep
<1>5. ASSUME NEW w \in Worker, ClaimCallbackRow(w) PROVE ClaimInv'
  <2> DEFINE t == cb[w].task
             new == ClaimedRow(row[t], cb[w].action)
  <2>1. t \in Task
    BY <1>5 DEF ClaimCallbackRow, TypeInv, Serving
  <2>2. \A v \in Worker : v # w => cb'[v] = cb[v]
    BY <1>5, AnswerFrees DEF ClaimCallbackRow, TypeInv, TypeOK
  <2>3. CASE new.action = cb[w].action
    <3>1. cb' = [cb EXCEPT ![w].pc = "handling", ![w].token = clock]
      BY <1>5, <2>3 DEF ClaimCallbackRow
    <3>2. /\ cb'[w].pc = "handling" /\ cb'[w].task = t /\ cb'[w].token = clock
          /\ cb'[w].action = cb[w].action
      BY <3>1 DEF TypeInv, TypeOK, CbState
    <3> QED BY <1>0, <1>5, <2>1, <2>2, <2>3, <3>2, ClaimStep DEF ClaimCallbackRow
  <2>4. CASE new.action # cb[w].action
    <3>1. Answer(w, "mismatch", "running")
      BY <1>5, <2>4 DEF ClaimCallbackRow
    <3>2. cb'[w].pc = "idle"
      BY <3>1, AnswerFrees DEF IdleCb
    <3> QED BY <1>0, <1>5, <2>1, <2>2, <3>2, ClaimStep DEF ClaimCallbackRow
  <2> QED BY <2>3, <2>4
<1>6. ASSUME NEW w \in Worker, ClaimMiss(w) PROVE ClaimInv'
  <2>1. \A v \in Worker : cb'[v] = cb[v] \/ cb'[v].pc = "missed"
    BY <1>6 DEF ClaimMiss, TypeInv, TypeOK, CbState
  <2> QED BY <1>0, <1>6, <2>1, QuietStep DEF ClaimMiss
<1>7. ASSUME NEW w \in Worker, ClaimError(w) PROVE ClaimInv'
  <2> DEFINE t == cb[w].task
  <2>1. t \in Task
    BY <1>7 DEF ClaimError, TypeInv, Serving
  <2>2. \A v \in Worker : cb'[v] = IF v = w THEN IdleCb ELSE cb[v]
    BY <1>7, AnswerFrees DEF ClaimError
  <2>3. CASE row' = row
    BY <1>4, <1>7, <2>3 DEF ClaimError
  <2>4. CASE Claimable(row[t]) /\ row' = [row EXCEPT ![t] = ClaimedRow(row[t], cb[w].action)]
    <3>1. cb'[w].pc = "idle" /\ \A v \in Worker : v # w => cb'[v] = cb[v]
      BY <2>2 DEF IdleCb
    <3> QED BY <1>0, <1>7, <2>1, <2>4, <3>1, ClaimStep DEF ClaimError
  <2> QED BY <1>7, <2>3, <2>4 DEF ClaimError
<1>8. ASSUME NEW w \in Worker, MarkSucceeded(w) PROVE ClaimInv'
  <2>1. CASE row' = row
    BY <1>4, <1>8, <2>1 DEF MarkSucceeded
  <2>2. CASE Fence(w) /\ row' = [row EXCEPT ![cb[w].task].status = "succeeded"]
    <3>1. \A v \in Worker : cb'[v] = IF v = w THEN IdleCb ELSE cb[v]
      BY <1>8, AnswerFrees DEF MarkSucceeded
    <3>2. Executing(w) /\ cb[w].pc = "ok" /\ ran' = ran /\ clock' = clock
      BY <1>8 DEF MarkSucceeded, Executing
    <3> QED BY <1>0, <2>2, <3>1, <3>2, BookStep
  <2> QED BY <1>8, <2>1, <2>2 DEF MarkSucceeded
<1>9. ASSUME NEW w \in Worker, MarkFailed(w) PROVE ClaimInv'
  <2>1. CASE row' = row
    BY <1>4, <1>9, <2>1 DEF MarkFailed
  <2>2. CASE Fence(w) /\ row' = [row EXCEPT ![cb[w].task].status = "failed"]
    <3>1. \A v \in Worker : cb'[v] = IF v = w THEN IdleCb ELSE cb[v]
      BY <1>9, AnswerFrees DEF MarkFailed
    <3>2. Executing(w) /\ ran' = ran /\ clock' = clock
      BY <1>9 DEF MarkFailed, Executing
    <3> QED BY <1>0, <2>2, <3>1, <3>2, BookStep
  <2> QED BY <1>9, <2>1, <2>2 DEF MarkFailed
<1>10. ASSUME NEW w \in Worker, Crash(w) PROVE ClaimInv'
  <2>1. \A v \in Worker : cb'[v] = cb[v] \/ cb'[v].pc = "idle"
    BY <1>10 DEF Crash, TypeInv, TypeOK, IdleCb
  <2> QED BY <1>0, <1>10, <2>1, QuietStep DEF Crash
<1>11. ASSUME NEW t \in Task, NEW how, Accept(t, how) PROVE ClaimInv'
  BY <1>0, <1>1, <1>11 DEF Accept
<1>12. ASSUME NEW t \in Task, Resubmit(t) \/ RetryTask(t) PROVE ClaimInv'
  BY <1>0, <1>1, <1>12 DEF Resubmit, RetryTask
<1>13. ASSUME NEW t \in Task, NEW a, UpdateJob(t, a) PROVE ClaimInv'
  BY <1>0, <1>1, <1>13 DEF UpdateJob
<1>14. CASE Tick \/ UNCHANGED vars
  BY <1>0, <1>1, <1>14 DEF Tick, vars
<1>15. ASSUME NEW w \in Worker, UnknownAction(w) \/ GetByTaskID(w) PROVE ClaimInv'
  BY <1>4, <1>15 DEF UnknownAction, GetByTaskID
<1>16. ASSUME NEW w \in Worker, Handle(w) PROVE ClaimInv'
  BY <1>16, HandleStep
<1> QED
  BY <1>2, <1>3, <1>5, <1>6, <1>7, <1>8, <1>9, <1>10, <1>11, <1>12, <1>13, <1>14,
     <1>15, <1>16 DEF Next, Execute

LEMMA InvCorrect == Spec => []IInv
BY InvInit, InvStep, PTL DEF Spec

(* Two executions of one task overlap only across an expired lease. *)
THEOREM OverlapIsStale == Spec => []OverlapOnlyWhenStale
<1>1. IInv => OverlapOnlyWhenStale
  BY DEF IInv, ClaimInv
<1> QED BY <1>1, InvCorrect, PTL

(* A row marked succeeded was booked by the execution whose claim it holds. *)
THEOREM SuccessIsOwn == Spec => []SucceededByItsClaimant
<1>1. IInv => SucceededByItsClaimant
  BY DEF IInv, ClaimInv
<1> QED BY <1>1, InvCorrect, PTL

(* A handler runs for the action that the row recorded first. *)
THEOREM RecordedActionRuns == Spec => []RunsTheRecordedAction
<1>1. IInv => RunsTheRecordedAction
  BY DEF IInv, ClaimInv
<1> QED BY <1>1, InvCorrect, PTL

-----------------------------------------------------------------------------
(* What a step may do to a row. *)

SubmittedIn(t) == row[t].status = "none" /\ row'[t].status = "submitted" /\ row'[t].claimed = 0
ClaimedIn(t) == Claimable(row[t]) /\ row'[t].status = "running" /\ row'[t].claimed = clock
BookedIn(t) ==
  /\ row[t].status = "running" /\ row'[t].status \in {"succeeded", "failed"}
  /\ row'[t].claimed = row[t].claimed

LEMMA RowSteps ==
  ASSUME IInv, [Next]_vars, NEW t \in Task
  PROVE  row'[t] = row[t] \/ SubmittedIn(t) \/ ClaimedIn(t) \/ BookedIn(t)
<1> USE DEF IInv, TypeInv
<1>1. CASE row' = row
  BY <1>1
<1>2. ASSUME NEW u \in Task, RecordSubmit(u) PROVE row'[t] = row[t] \/ SubmittedIn(t)
  BY <1>2 DEF RecordSubmit, SubmittedIn, TypeOK
<1>3. ASSUME NEW u \in Task, NEW a, Claimable(row[u]),
             row' = [row EXCEPT ![u] = ClaimedRow(row[u], a)]
      PROVE  row'[t] = row[t] \/ ClaimedIn(t)
  BY <1>3 DEF ClaimedIn, ClaimedRow, TypeOK
<1>4. ASSUME NEW w \in Worker, ClaimCallbackRow(w) \/ ClaimError(w)
      PROVE  row'[t] = row[t] \/ ClaimedIn(t)
  <2>1. cb[w].task \in Task
    BY <1>4 DEF ClaimCallbackRow, ClaimError, Serving
  <2> QED BY <1>1, <1>3, <1>4, <2>1 DEF ClaimCallbackRow, ClaimError
<1>5. ASSUME NEW w \in Worker, NEW s \in {"succeeded", "failed"}, Fence(w),
             row' = [row EXCEPT ![cb[w].task].status = s]
      PROVE  row'[t] = row[t] \/ BookedIn(t)
  BY <1>5 DEF Fence, BookedIn, TypeOK, RowState
<1>6. ASSUME NEW w \in Worker, MarkSucceeded(w) \/ MarkFailed(w)
      PROVE  row'[t] = row[t] \/ BookedIn(t)
  BY <1>1, <1>5, <1>6 DEF MarkSucceeded, MarkFailed
<1>7. CASE Tick \/ UNCHANGED vars
  BY <1>7 DEF Tick, vars
<1>8. ASSUME NEW u \in Task, NEW how, Accept(u, how) PROVE row' = row
  BY <1>8 DEF Accept
<1>9. ASSUME NEW u \in Task, NEW a, UpdateJob(u, a) PROVE row' = row
  BY <1>9 DEF UpdateJob
<1>10. ASSUME NEW u \in Task, NEW w \in Worker, Deliver(w, u) PROVE row' = row
  BY <1>10 DEF Deliver
<1>11. ASSUME NEW u \in Task, Resubmit(u) \/ RetryTask(u) PROVE row' = row
  BY <1>11 DEF Resubmit, RetryTask
<1>12. ASSUME NEW w \in Worker,
              \/ UnknownAction(w) \/ ClaimMiss(w) \/ GetByTaskID(w)
              \/ Handle(w) \/ Crash(w)
       PROVE  row' = row
  BY <1>12 DEF UnknownAction, ClaimMiss, GetByTaskID, Handle, Crash
<1> QED
  BY <1>1, <1>2, <1>4, <1>6, <1>7, <1>8, <1>9, <1>10, <1>11, <1>12 DEF Next, Execute

(* The row of a succeeded task never changes again. *)
THEOREM SuccessIsFinal == Spec => SucceededIsFinal
<1>1. IInv /\ [Next]_vars =>
        [\A t \in Task : row[t].status = "succeeded" => row'[t] = row[t]]_row
  BY RowSteps DEF SubmittedIn, ClaimedIn, BookedIn, Claimable
<1> QED BY <1>1, InvCorrect, PTL DEF Spec, SucceededIsFinal

(* Claim times move forward, and a running row changes hands only after     *)
(* the lease.                                                               *)
THEOREM ClaimsAdvance == Spec => ClaimsMoveForward
<1>1. ASSUME IInv, [Next]_vars, NEW t \in Task
      PROVE  /\ row'[t].claimed >= row[t].claimed
             /\ (row[t].status = "running" /\ row'[t].claimed # row[t].claimed)
                  => row[t].claimed < clock - Lease
  <2>1. row[t].claimed \in Int /\ clock \in Int
    BY <1>1, Numbers DEF IInv
  <2>2. /\ row[t].claimed <= clock
        /\ row[t].status = "none" => row[t].claimed = 0
    BY <1>1 DEF IInv, ClaimInv, Dated
  <2>3. row'[t] = row[t] \/ SubmittedIn(t) \/ ClaimedIn(t) \/ BookedIn(t)
    BY <1>1, RowSteps
  <2> QED BY <2>1, <2>2, <2>3 DEF SubmittedIn, ClaimedIn, BookedIn, Claimable
<1>2. IInv /\ [Next]_vars =>
        [\A t \in Task :
           /\ row'[t].claimed >= row[t].claimed
           /\ (row[t].status = "running" /\ row'[t].claimed # row[t].claimed)
                => row[t].claimed < clock - Lease]_row
  BY <1>1
<1> QED BY <1>2, InvCorrect, PTL DEF Spec, ClaimsMoveForward

-----------------------------------------------------------------------------
(* The rows implement the lease.  At most one worker holds a task, so the   *)
(* CHOOSE of the mapping is determined.                                     *)

HolderDetermined ==
  \A t \in Task :
    /\ \A w \in Worker : Holds(w, t) => LeaseHolder(t) = w
    /\ (\A w \in Worker : ~Holds(w, t)) => LeaseHolder(t) = NoOne

LEMMA HolderIs == IInv => HolderDetermined
<1> SUFFICES ASSUME IInv, NEW t \in Task
             PROVE  /\ \A w \in Worker : Holds(w, t) => LeaseHolder(t) = w
                    /\ (\A w \in Worker : ~Holds(w, t)) => LeaseHolder(t) = NoOne
  BY DEF HolderDetermined
<1>1. ASSUME NEW v \in Worker, NEW w \in Worker, Holds(v, t), Holds(w, t) PROVE v = w
  <2>1. cb[v].token = cb[w].token /\ cb[v].task = cb[w].task /\ Executing(v) /\ Executing(w)
    BY <1>1 DEF Holds
  <2>2. cb[v].token \in Int /\ Lease \in Int /\ Lease >= 0
    BY Numbers DEF IInv
  <2> QED BY <2>1, <2>2 DEF IInv, ClaimInv, OverlapOnlyWhenStale
<1> QED BY <1>1 DEF LeaseHolder

LEMMA HolderIsNext == IInv' => HolderDetermined'
BY HolderIs, PTL

(* A step that changes no lease. *)
LEMMA SameLease ==
  ASSUME IInv, IInv',
         \A t \in Task : /\ LeaseRight(t)' = LeaseRight(t)
                         /\ LeaseExpired(t)' = LeaseExpired(t)
                         /\ \A v \in Worker : Holds(v, t)' <=> Holds(v, t)
  PROVE  UNCHANGED Abs!leaseVars
<1>1. \A t \in Task : LeaseHolder(t)' = LeaseHolder(t)
  BY HolderIs, HolderIsNext DEF HolderDetermined
<1> QED BY <1>1 DEF Abs!leaseVars

(* A worker is freed or starts a callback, and the rows stay: if it held a  *)
(* task, the task is abandoned.                                             *)
LEMMA LeaseQuiet ==
  ASSUME IInv, IInv', row' = row, clock' = clock, NEW w \in Worker,
         \A v \in Worker : v # w => cb'[v] = cb[v],
         cb'[w].pc \in {"idle", "received", "missed"}
  PROVE  [Abs!LeaseNext]_(Abs!leaseVars)
<1>1. \A t \in Task : LeaseRight(t)' = LeaseRight(t) /\ LeaseExpired(t)' = LeaseExpired(t)
  BY DEF LeaseRight, LeaseExpired
<1>2. \A t \in Task, v \in Worker : Holds(v, t)' <=> v # w /\ Holds(v, t)
  BY DEF Holds, Executing
<1>3. CASE \A t \in Task : ~Holds(w, t)
  BY <1>1, <1>2, <1>3, SameLease
<1>4. CASE \E t \in Task : Holds(w, t)
  <2>1. PICK t \in Task : Holds(w, t)
    BY <1>4
  <2>2. LeaseRight(t) = "held" /\ LeaseHolder(t) = w
    BY <2>1, HolderIs DEF HolderDetermined, LeaseRight, Holds
  <2>3. LeaseHolder(t)' = NoOne
    <3>1. \A v \in Worker : ~Holds(v, t)'
      BY <1>2, <2>1, <2>2, HolderIs DEF HolderDetermined
    <3> QED BY <3>1, HolderIsNext DEF HolderDetermined
  <2>4. \A u \in Task : u # t => LeaseHolder(u)' = LeaseHolder(u)
    <3>1. \A u \in Task, v \in Worker : u # t => (Holds(v, u)' <=> Holds(v, u))
      BY <1>2, <2>1 DEF Holds
    <3> QED BY <3>1, HolderIs, HolderIsNext DEF HolderDetermined
  <2>5. Abs!Abandon(t)
    BY <1>1, <2>2, <2>3, <2>4 DEF Abs!Abandon
  <2> QED BY <2>5 DEF Abs!LeaseNext
<1> QED BY <1>3, <1>4

(* A claim acquires the lease, for the worker that goes on to execute or    *)
(* for nobody.                                                              *)
LEMMA LeaseClaim ==
  ASSUME IInv, IInv', NEW w \in Worker, NEW t \in Task, NEW a,
         cb[w].pc = "received", Claimable(row[t]),
         row' = [row EXCEPT ![t] = ClaimedRow(row[t], a)],
         \A v \in Worker : v # w => cb'[v] = cb[v],
         \/ cb'[w].pc = "idle"
         \/ cb'[w].pc = "handling" /\ cb'[w].task = t /\ cb'[w].token = clock,
         clock' = clock
  PROVE  Abs!LeaseNext
<1>1. /\ row'[t].status = "running" /\ row'[t].claimed = clock
      /\ \A u \in Task : u # t => row'[u] = row[u]
  BY DEF IInv, TypeInv, TypeOK, ClaimedRow
<1>2. clock \in Int /\ Lease \in Int /\ Lease >= 0
  BY Numbers DEF IInv
<1>3. LeaseRight(t) = "free" \/ (LeaseRight(t) = "held" /\ LeaseExpired(t))
  BY DEF Claimable, LeaseRight, LeaseExpired
<1>4. LeaseRight(t)' = "held" /\ LeaseExpired(t)' = FALSE
  BY <1>1, <1>2 DEF LeaseRight, LeaseExpired
<1>5. \A u \in Task : u # t => /\ LeaseRight(u)' = LeaseRight(u)
                              /\ LeaseExpired(u)' = LeaseExpired(u)
                              /\ LeaseHolder(u)' = LeaseHolder(u)
  <2>1. \A u \in Task : u # t =>
          LeaseRight(u)' = LeaseRight(u) /\ LeaseExpired(u)' = LeaseExpired(u)
    BY <1>1 DEF LeaseRight, LeaseExpired
  <2>2. \A u \in Task, v \in Worker : u # t => (Holds(v, u)' <=> Holds(v, u))
    BY <1>1 DEF Holds, Executing
  <2> QED BY <2>1, <2>2, HolderIs, HolderIsNext DEF HolderDetermined
<1>6. \A v \in Worker : v # w => ~Holds(v, t)'
  <2> SUFFICES ASSUME NEW v \in Worker, v # w, Holds(v, t)' PROVE FALSE
    OBVIOUS
  <2>1. Executing(v) /\ cb[v].task = t /\ cb[v].token = clock
    BY <1>1 DEF Holds, Executing
  <2>2. cb[v].token < clock - Lease
    BY <2>1, ClaimableIsStale
  <2> QED BY <1>2, <2>1, <2>2
<1>7. LeaseHolder(t)' \in Worker \cup {NoOne}
  BY <1>6, HolderIsNext DEF HolderDetermined
<1>8. Abs!Acquire(t, LeaseHolder(t)')
  BY <1>3, <1>4, <1>5 DEF Abs!Acquire
<1> QED BY <1>7, <1>8 DEF Abs!LeaseNext

(* A booking is decided by the holder. *)
LEMMA LeaseBook ==
  ASSUME IInv, IInv', NEW w \in Worker, NEW s \in {"succeeded", "failed"},
         Executing(w), Fence(w),
         row' = [row EXCEPT ![cb[w].task].status = s],
         \A v \in Worker : cb'[v] = IF v = w THEN IdleCb ELSE cb[v],
         clock' = clock
  PROVE  Abs!LeaseNext
<1>0. PICK t \in Task : t = cb[w].task
  BY DEF IInv, TypeInv, Serving, Executing
<1>1. row[t].status = "running" /\ Holds(w, t)
  BY <1>0 DEF Fence, Holds
<1>2. row'[t].status = s /\ \A u \in Task : u # t => row'[u] = row[u]
  BY <1>0 DEF IInv, TypeInv, TypeOK, RowState
<1>3. LeaseRight(t) = "held" /\ LeaseHolder(t) = w
  BY <1>1, HolderIs DEF HolderDetermined, LeaseRight
<1>4. /\ LeaseRight(t)' = IF s = "succeeded" THEN "spent" ELSE "free"
      /\ LeaseExpired(t)' = FALSE
  BY <1>2 DEF LeaseRight, LeaseExpired
<1>5. LeaseHolder(t)' = NoOne
  BY <1>1, <1>2, HolderIsNext DEF HolderDetermined, Holds
<1>6. \A u \in Task : u # t => /\ LeaseRight(u)' = LeaseRight(u)
                              /\ LeaseExpired(u)' = LeaseExpired(u)
                              /\ LeaseHolder(u)' = LeaseHolder(u)
  <2>1. \A u \in Task : u # t =>
          LeaseRight(u)' = LeaseRight(u) /\ LeaseExpired(u)' = LeaseExpired(u)
    BY <1>2 DEF LeaseRight, LeaseExpired
  <2>2. \A u \in Task, v \in Worker : u # t => (Holds(v, u)' <=> Holds(v, u))
    BY <1>0, <1>2 DEF Holds, Executing, IdleCb
  <2> QED BY <2>1, <2>2, HolderIs, HolderIsNext DEF HolderDetermined
<1>7. Abs!Decide(t, IF s = "succeeded" THEN "spent" ELSE "free")
  BY <1>1, <1>3, <1>4, <1>5, <1>6 DEF Abs!Decide
<1> QED BY <1>1, <1>7 DEF Abs!LeaseNext

LEMMA LeaseStep == IInv /\ IInv' /\ [Next]_vars => [Abs!LeaseNext]_(Abs!leaseVars)
<1> SUFFICES ASSUME IInv, IInv', [Next]_vars PROVE [Abs!LeaseNext]_(Abs!leaseVars)
  OBVIOUS
<1>1. CASE row' = row /\ cb' = cb /\ clock' = clock
  <2>1. \A t \in Task : /\ LeaseRight(t)' = LeaseRight(t)
                        /\ LeaseExpired(t)' = LeaseExpired(t)
                        /\ \A v \in Worker : Holds(v, t)' <=> Holds(v, t)
    BY <1>1 DEF LeaseRight, LeaseExpired, Holds, Executing
  <2> QED BY <2>1, SameLease
<1>2. ASSUME NEW t \in Task, RecordSubmit(t) PROVE [Abs!LeaseNext]_(Abs!leaseVars)
  <2>1. cb' = cb /\ clock' = clock
    BY <1>2 DEF RecordSubmit
  <2>2. CASE row' = row
    BY <1>1, <2>1, <2>2
  <2>3. CASE row' # row
    <3>1. /\ row[t].status = "none" /\ row'[t].status = "submitted"
          /\ \A u \in Task : u # t => row'[u] = row[u]
      BY <1>2, <2>3 DEF RecordSubmit, IInv, TypeInv, TypeOK
    <3>2. \A u \in Task : /\ LeaseRight(u)' = LeaseRight(u)
                          /\ LeaseExpired(u)' = LeaseExpired(u)
                          /\ \A v \in Worker : Holds(v, u)' <=> Holds(v, u)
      BY <2>1, <3>1 DEF LeaseRight, LeaseExpired, Holds, Executing
    <3> QED BY <3>2, SameLease
  <2> QED BY <2>2, <2>3
<1>3. ASSUME NEW w \in Worker, row' = row, clock' = clock,
             \A v \in Worker : v # w => cb'[v] = cb[v],
             cb'[w].pc \in {"idle", "received", "missed"}
      PROVE  [Abs!LeaseNext]_(Abs!leaseVars)
  BY <1>3, LeaseQuiet
<1>4. ASSUME NEW w \in Worker, NEW o, NEW s, Answer(w, o, s), row' = row, clock' = clock
      PROVE  [Abs!LeaseNext]_(Abs!leaseVars)
  BY <1>3, <1>4, AnswerFrees DEF IdleCb, IInv
<1>5. ASSUME NEW w \in Worker, ClaimCallbackRow(w) PROVE Abs!LeaseNext
  <2>1. PICK t \in Task : t = cb[w].task
    BY <1>5 DEF ClaimCallbackRow, IInv, TypeInv, Serving
  <2>2. /\ Claimable(row[t]) /\ cb[w].pc = "received" /\ clock' = clock
        /\ row' = [row EXCEPT ![t] = ClaimedRow(row[t], cb[w].action)]
    BY <1>5, <2>1 DEF ClaimCallbackRow
  <2>3. \A v \in Worker : v # w => cb'[v] = cb[v]
    BY <1>5, AnswerFrees DEF ClaimCallbackRow, IInv, TypeInv, TypeOK
  <2>4. \/ cb'[w].pc = "idle"
        \/ cb'[w].pc = "handling" /\ cb'[w].task = t /\ cb'[w].token = clock
    <3>1. CASE cb' = [cb EXCEPT ![w].pc = "handling", ![w].token = clock]
      BY <2>1, <3>1 DEF IInv, TypeInv, TypeOK, CbState
    <3>2. CASE Answer(w, "mismatch", "running")
      BY <3>2, AnswerFrees DEF IInv, IdleCb
    <3> QED BY <1>5, <3>1, <3>2 DEF ClaimCallbackRow
  <2> QED BY <2>2, <2>3, <2>4, LeaseClaim
<1>6. ASSUME NEW w \in Worker, ClaimError(w) PROVE [Abs!LeaseNext]_(Abs!leaseVars)
  <2>1. CASE row' = row
    BY <1>4, <1>6, <2>1 DEF ClaimError
  <2>2. CASE /\ cb[w].pc = "received" /\ Claimable(row[cb[w].task])
             /\ row' = [row EXCEPT ![cb[w].task] = ClaimedRow(row[cb[w].task], cb[w].action)]
    <3>1. cb[w].task \in Task /\ clock' = clock
      BY <1>6 DEF ClaimError, IInv, TypeInv, Serving
    <3>2. \A v \in Worker : cb'[v] = IF v = w THEN IdleCb ELSE cb[v]
      BY <1>6, AnswerFrees DEF ClaimError, IInv
    <3>3. cb'[w].pc = "idle" /\ \A v \in Worker : v # w => cb'[v] = cb[v]
      BY <3>2 DEF IdleCb
    <3>4. PICK t \in Task : t = cb[w].task
      BY <3>1
    <3> QED BY <2>2, <3>1, <3>3, <3>4, LeaseClaim
  <2> QED BY <1>6, <2>1, <2>2 DEF ClaimError
<1>7. ASSUME NEW w \in Worker, Handle(w) PROVE [Abs!LeaseNext]_(Abs!leaseVars)
  <2>1. PICK r \in {"ok", "abort", "err"} : cb' = [cb EXCEPT ![w].pc = r]
    BY <1>7 DEF Handle
  <2>2. row' = row /\ clock' = clock /\ cb[w].pc = "handling"
    BY <1>7 DEF Handle
  <2>3. \A v \in Worker : /\ cb'[v].task = cb[v].task /\ cb'[v].token = cb[v].token
                          /\ cb'[v].pc = IF v = w THEN r ELSE cb[v].pc
    BY <2>1 DEF IInv, TypeInv, TypeOK, CbState
  <2>4. \A t \in Task : /\ LeaseRight(t)' = LeaseRight(t)
                        /\ LeaseExpired(t)' = LeaseExpired(t)
                        /\ \A v \in Worker : Holds(v, t)' <=> Holds(v, t)
    BY <2>2, <2>3 DEF LeaseRight, LeaseExpired, Holds, Executing
  <2> QED BY <2>4, SameLease
<1>8. ASSUME NEW w \in Worker, MarkSucceeded(w) \/ MarkFailed(w)
      PROVE  [Abs!LeaseNext]_(Abs!leaseVars)
  <2>1. PICK o, st : Answer(w, o, st)
    BY <1>8 DEF MarkSucceeded, MarkFailed
  <2>2. clock' = clock /\ Executing(w)
    BY <1>8 DEF MarkSucceeded, MarkFailed, Executing
  <2>3. CASE row' = row
    BY <1>4, <2>1, <2>2, <2>3
  <2>4. ASSUME NEW s \in {"succeeded", "failed"}, Fence(w),
               row' = [row EXCEPT ![cb[w].task].status = s]
        PROVE  Abs!LeaseNext
    <3>1. \A v \in Worker : cb'[v] = IF v = w THEN IdleCb ELSE cb[v]
      BY <2>1, AnswerFrees DEF IInv
    <3> QED BY <2>2, <2>4, <3>1, LeaseBook
  <2> QED BY <1>8, <2>3, <2>4 DEF MarkSucceeded, MarkFailed
<1>9. CASE Tick
  <2>1. row' = row /\ cb' = cb /\ clock' = clock + 1
    BY <1>9 DEF Tick
  <2> DEFINE S == {t \in Task : row[t].status = "running" /\ row[t].claimed < clock + 1 - Lease}
  <2>2. \A t \in Task : /\ LeaseRight(t)' = LeaseRight(t)
                        /\ t \in S => LeaseRight(t) = "held"
                        /\ \A v \in Worker : Holds(v, t)' <=> Holds(v, t)
    BY <2>1 DEF LeaseRight, Holds, Executing
  <2>3. \A t \in Task : LeaseHolder(t)' = LeaseHolder(t)
    BY <2>2, HolderIs, HolderIsNext DEF HolderDetermined
  <2>4. \A t \in Task : LeaseExpired(t)' = (LeaseExpired(t) \/ t \in S)
    <3> SUFFICES ASSUME NEW t \in Task
                 PROVE  LeaseExpired(t)' = (LeaseExpired(t) \/ t \in S)
      OBVIOUS
    <3>1. row[t].claimed \in Int /\ clock \in Int /\ Lease \in Int
      BY Numbers DEF IInv
    <3> QED BY <2>1, <3>1 DEF LeaseExpired
  <2>5. S \in SUBSET Task
    OBVIOUS
  <2> HIDE DEF S
  <2>6. Abs!Expire(S)
    BY <2>2, <2>3, <2>4, <2>5 DEF Abs!Expire
  <2> QED BY <2>5, <2>6 DEF Abs!LeaseNext
<1>10. ASSUME NEW t \in Task, NEW w \in Worker, Deliver(w, t)
       PROVE  [Abs!LeaseNext]_(Abs!leaseVars)
  <2>1. cb'[w].pc = "received" /\ \A v \in Worker : v # w => cb'[v] = cb[v]
    BY <1>10 DEF Deliver, IInv, TypeInv, TypeOK
  <2> QED BY <1>3, <1>10, <2>1 DEF Deliver
<1>11. ASSUME NEW w \in Worker, ClaimMiss(w) PROVE [Abs!LeaseNext]_(Abs!leaseVars)
  <2>1. cb'[w].pc = "missed" /\ \A v \in Worker : v # w => cb'[v] = cb[v]
    BY <1>11 DEF ClaimMiss, IInv, TypeInv, TypeOK, CbState
  <2> QED BY <1>3, <1>11, <2>1 DEF ClaimMiss
<1>12. ASSUME NEW w \in Worker, Crash(w) PROVE [Abs!LeaseNext]_(Abs!leaseVars)
  <2>1. cb'[w].pc = "idle" /\ \A v \in Worker : v # w => cb'[v] = cb[v]
    BY <1>12 DEF Crash, IInv, TypeInv, TypeOK, IdleCb
  <2> QED BY <1>3, <1>12, <2>1 DEF Crash
<1>13. ASSUME NEW w \in Worker, UnknownAction(w) \/ GetByTaskID(w)
       PROVE  [Abs!LeaseNext]_(Abs!leaseVars)
  BY <1>4, <1>13 DEF UnknownAction, GetByTaskID
<1>14. ASSUME NEW t \in Task, NEW how, Accept(t, how) PROVE [Abs!LeaseNext]_(Abs!leaseVars)
  BY <1>1, <1>14 DEF Accept
<1>15. ASSUME NEW t \in Task, Resubmit(t) \/ RetryTask(t) PROVE [Abs!LeaseNext]_(Abs!leaseVars)
  BY <1>1, <1>15 DEF Resubmit, RetryTask
<1>16. ASSUME NEW t \in Task, NEW a, UpdateJob(t, a) PROVE [Abs!LeaseNext]_(Abs!leaseVars)
  BY <1>1, <1>16 DEF UpdateJob
<1>17. CASE UNCHANGED vars
  BY <1>1, <1>17 DEF vars
<1> QED
  BY <1>2, <1>5, <1>6, <1>7, <1>8, <1>9, <1>10, <1>11, <1>12, <1>13, <1>14, <1>15,
     <1>16, <1>17 DEF Next, Execute

LEMMA LeaseStart == Init => Abs!LeaseInit
<1> SUFFICES ASSUME Init PROVE Abs!LeaseInit
  OBVIOUS
<1>1. \A t \in Task : row[t].status = "none"
  BY DEF Init, NoRow
<1>2. \A t \in Task : LeaseRight(t) = "free" /\ LeaseExpired(t) = FALSE
  BY <1>1 DEF LeaseRight, LeaseExpired
<1>3. \A t \in Task : LeaseHolder(t) = NoOne
  BY <1>1 DEF LeaseHolder, Holds
<1> QED BY <1>2, <1>3 DEF Abs!LeaseInit

(* The claims, fences and takeovers of job_submissions implement the        *)
(* execution lease: one right per task, decided only by its holder.         *)
THEOREM LeaseImplemented == Spec => ImplementsLease
<1> QED BY LeaseStart, LeaseStep, InvCorrect, PTL DEF Spec, ImplementsLease, Abs!LeaseSpec

=============================================================================
