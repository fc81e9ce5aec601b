--------------------------- MODULE OrgTreeProofs ---------------------------
(***************************************************************************)
(* Proofs about OrgTree, for any tree, any number of users, tickets and    *)
(* overlapping transactions: first the lock protocol, then, on top of it,  *)
(* the paths that Create, Move and Delete keep in step with parent_id and  *)
(* with the tickets.                                                       *)
(***************************************************************************)
EXTENDS OrgTree, SequenceTheorems, TLAPS

OrgRow == [life : {"unborn", "live", "deleted"}, parent : Org \cup {NoOrg}, path : Seq(Org)]
TicketRow == [status : {"none", "open", "closed"}, org : Org \cup {NoOrg}, path : Seq(Org)]
\* The places of a Move that has the advisory lock, and of one whose UPDATE
\* of the organizations has its snapshot.
Moving == {"moveParent", "moveTree", "moveOrgs", "moveTickets", "moveCommit"}
Updating == {"moveTickets", "moveCommit"}
Pc == {"idle", "insert", "moveLock", "delLock", "delGuard", "delWrite", "share"} \cup Moving
ReqState == [op : Op, pc : Pc, o : Org \cup {NoOrg}, parent : Org \cup {NoOrg},
             path : Seq(Org), root : Seq(Org), user : User \cup {Nobody},
             ticket : Ticket \cup {Nobody}, want : SUBSET Org, got : SUBSET Org,
             tickets : SUBSET Ticket]

TypedRows ==
  /\ org \in [Org -> OrgRow]
  /\ mem \in [Org -> SUBSET (User \cup {Nobody})]
  /\ own \in [Org -> SUBSET (User \cup {Nobody})]
  /\ gone \in SUBSET User
  /\ ticket \in [Ticket -> TicketRow]
TypedLocks ==
  /\ excl \in [Org -> Request \cup {Nobody}]
  /\ share \in [Org -> SUBSET Request]
  /\ req \in [Request -> ReqState]

\* A request names the organizations it locks.
Named(r) ==
  /\ r.pc \notin {"idle", "share"} => r.o \in Org
  /\ r.pc = "moveParent" => r.parent \in Org

\* FOR UPDATE excludes FOR SHARE.
Exclusive == \A o \in Org : excl[o] # Nobody => share[o] \subseteq {excl[o]}

\* Nobody else holds a lock on o.
Sealed(p, o) == excl[o] \in {p, Nobody} /\ share[o] \subseteq {p}

\* What the guards of a delete look at, the children aside.
Vacant(o) ==
  /\ mem[o] \ own[o] \subseteq gone
  /\ \A k \in Ticket : ticket[k].status = "open" => ticket[k].org # o

\* What a transaction holds, and what it may rely on because of it.
Holds(p) ==
  LET r == req[p] IN
  /\ r.pc = "share" => \A o \in r.got : p \in share[o] /\ Live(o)
  /\ r.pc \in {"delGuard", "delWrite"} => excl[r.o] = p
  /\ r.pc = "delWrite" => Vacant(r.o)
  /\ r.pc \in Moving => mover = p
  /\ r.pc = "moveCommit" => \A o \in r.got : Live(o) /\ Sealed(p, o)

IInv ==
  /\ TypedRows /\ TypedLocks /\ Exclusive /\ DeletedIsEmpty
  /\ \A p \in Request : Named(req[p]) /\ Holds(p)

-----------------------------------------------------------------------------
\* Data.

LEMMA IdleTypes == IdleReq \in ReqState /\ Named(IdleReq) /\ IdleReq.pc = "idle"
<1>1. <<>> \in Seq(Org)
  OBVIOUS
<1>2. PICK z \in Seq(Org), y \in SUBSET Org, x \in SUBSET Ticket : z = <<>> /\ y = {} /\ x = {}
  BY <1>1
<1>3. IdleReq = [op |-> "create", pc |-> "idle", o |-> NoOrg, parent |-> NoOrg, path |-> z,
                 root |-> z, user |-> Nobody, ticket |-> Nobody, want |-> y, got |-> y,
                 tickets |-> x]
  BY <1>2 DEF IdleReq
<1>4. IdleReq \in ReqState /\ IdleReq.pc = "idle"
  BY <1>3 DEF ReqState, Op, Pc
<1>5. QED
  BY <1>4 DEF Named

LEMMA RebaseType ==
  ASSUME NEW a \in Seq(Org), NEW b \in Seq(Org), NEW c \in Seq(Org)
  PROVE  Rebase(a, b, c) \in Seq(Org)
<1> DEFINE k == Len(b)
           n == Len(a)
<1>1. k \in Nat /\ n \in Nat /\ \A i \in (k + 1)..n : a[i] \in Org
  OBVIOUS
<1> HIDE DEF k, n
<1>2. SubSeq(a, k + 1, n) \in Seq(Org)
  BY <1>1, SubSeqProperties
<1>3. QED
  BY <1>2 DEF Rebase, k, n

-----------------------------------------------------------------------------
\* Kinds of steps.

\* What a step leaves to another transaction.
Untouched(q) ==
  /\ req'[q] = req[q]
  /\ \A o \in Org :
       /\ q \in share[o] => q \in share'[o] /\ (Live(o) => Live(o)')
       /\ excl[o] = q => excl'[o] = q /\ (Vacant(o) => Vacant(o)')
  /\ mover = q => mover' = q
  /\ req[q].pc = "moveCommit" =>
       \A o \in req[q].got : Live(o) /\ Sealed(q, o) => Live(o)' /\ Sealed(q, o)'

LEMMA OthersStep ==
  ASSUME IInv, NEW q \in Request, Untouched(q)
  PROVE  Named(req'[q]) /\ Holds(q)'
<1>1. req[q] \in ReqState /\ Named(req[q]) /\ Holds(q)
  BY DEF IInv, TypedLocks
<1>2. req[q].got \subseteq Org /\ (req[q].pc \in {"delGuard", "delWrite"} => req[q].o \in Org)
  BY <1>1 DEF ReqState, Named
<1>3. QED
  BY <1>1, <1>2 DEF Untouched, Holds

\* A step of one transaction.
LEMMA TransactionStep ==
  ASSUME IInv, NEW p \in Request, TypedRows', TypedLocks', Exclusive', DeletedIsEmpty',
         Named(req'[p]), Holds(p)', \A q \in Request \ {p} : Untouched(q)
  PROVE  IInv'
<1>1. ASSUME NEW q \in Request PROVE Named(req[q])' /\ Holds(q)'
  <2>1. CASE q = p
    BY <2>1
  <2>2. CASE q # p
    BY <2>2, OthersStep
  <2>3. QED
    BY <2>1, <2>2
<1>2. QED
  BY <1>1 DEF IInv

\* A step of no transaction.
LEMMA OutsideStep ==
  ASSUME IInv, TypedRows', UNCHANGED <<req, locks>>, DeletedIsEmpty',
         \A q \in Request : Untouched(q)
  PROVE  IInv'
<1>1. TypedLocks' /\ Exclusive'
  BY DEF IInv, TypedLocks, Exclusive, locks
<1>2. \A q \in Request : Named(req[q])' /\ Holds(q)'
  BY OthersStep
<1>3. QED
  BY <1>1, <1>2 DEF IInv

\* Nothing that counts for a deletion has changed.
Alike ==
  /\ \A o \in Org : org'[o].life = org[o].life
  /\ UNCHANGED <<mem, own, gone>>
  /\ \A k \in Ticket : ticket'[k].status = ticket[k].status /\ ticket'[k].org = ticket[k].org

LEMMA AlikeEffect ==
  ASSUME IInv, Alike
  PROVE  /\ DeletedIsEmpty'
         /\ \A o \in Org : (Live(o) => Live(o)') /\ (Vacant(o) => Vacant(o)')
BY DEF IInv, Alike, DeletedIsEmpty, Live, Vacant

\* Commit and rollback give back the locks of one transaction.
LEMMA EndEffect ==
  ASSUME IInv, NEW p \in Request, EndTx(p)
  PROVE  /\ TypedLocks' /\ Exclusive' /\ Named(req'[p]) /\ Holds(p)'
         /\ \A q \in Request \ {p} :
              /\ req'[q] = req[q]
              /\ \A o \in Org : /\ q \in share[o] => q \in share'[o]
                                /\ excl[o] = q => excl'[o] = q
                                /\ Sealed(q, o) => Sealed(q, o)'
              /\ mover = q => mover' = q
<1>1. TypedLocks /\ Exclusive /\ Nobody \notin Request
  BY OrgAssumption DEF IInv
<1>2. req' \in [Request -> ReqState] /\ req'[p] = IdleReq
      /\ \A q \in Request \ {p} : req'[q] = req[q]
  BY <1>1, IdleTypes DEF EndTx, TypedLocks
<1>3. \A o \in Org : /\ excl'[o] = IF excl[o] = p THEN Nobody ELSE excl[o]
                     /\ share'[o] = share[o] \ {p}
  BY DEF EndTx
<1>4. TypedLocks'
  BY <1>1, <1>2 DEF EndTx, TypedLocks
<1>5. Exclusive'
  BY <1>1, <1>3 DEF Exclusive
<1>6. Named(req'[p]) /\ Holds(p)'
  BY <1>2, IdleTypes DEF Holds, Moving
<1>7. \A q \in Request \ {p} : /\ mover = q => mover' = q
                               /\ \A o \in Org : Sealed(q, o) => Sealed(q, o)'
  BY <1>1, <1>3 DEF EndTx, Sealed
<1>8. QED
  BY <1>1, <1>2, <1>3, <1>4, <1>5, <1>6, <1>7

LEMMA RollbackStep ==
  ASSUME IInv, NEW p \in Request, Rollback(p)
  PROVE  IInv'
<1>1. EndTx(p) /\ UNCHANGED <<org, mem, own, gone, ticket>>
  BY DEF Rollback, rows
<1>2. Alike /\ TypedRows'
  BY <1>1 DEF Alike, IInv, TypedRows
<1>3. \A q \in Request \ {p} : Untouched(q)
  <2>1. \A q \in Request \ {p} : req[q].got \subseteq Org
    BY DEF IInv, TypedLocks, ReqState
  <2>2. QED
    BY <1>1, <1>2, <2>1, EndEffect, AlikeEffect DEF Untouched
<1>4. QED
  BY <1>1, <1>2, <1>3, EndEffect, AlikeEffect, TransactionStep

\* Only the state of one request changes.
LEMMA GotoType ==
  ASSUME TypedLocks, NEW p \in Request, NEW r \in ReqState, req' = [req EXCEPT ![p] = r]
  PROVE  /\ req' \in [Request -> ReqState] /\ req'[p] = r
         /\ \A q \in Request \ {p} : req'[q] = req[q]
BY DEF TypedLocks

LEMMA GotoStep ==
  ASSUME IInv, NEW p \in Request, NEW r \in ReqState, req' = [req EXCEPT ![p] = r],
         UNCHANGED <<org, mem, own, gone, ticket, locks>>, Named(r), Holds(p)'
  PROVE  IInv'
<1>1. /\ req' \in [Request -> ReqState] /\ req'[p] = r
      /\ \A q \in Request \ {p} : req'[q] = req[q]
  BY GotoType DEF IInv
<1>2. Alike /\ TypedRows' /\ TypedLocks' /\ Exclusive'
  BY <1>1 DEF Alike, IInv, TypedRows, TypedLocks, Exclusive, locks
<1>3. \A q \in Request \ {p} : req[q].got \subseteq Org
  BY DEF IInv, TypedLocks, ReqState
<1>4. \A q \in Request \ {p} : Untouched(q)
  BY <1>1, <1>2, <1>3, AlikeEffect DEF Untouched, Sealed, locks
<1>5. QED
  BY <1>1, <1>2, <1>4, AlikeEffect, TransactionStep

\* A request is accepted: it holds nothing yet.
LEMMA BeginStep ==
  ASSUME IInv, NEW p \in Request, NEW r \in ReqState, Named(r), Begin(p, r),
         r.pc \in {"insert", "moveLock", "delLock"} \/ (r.pc = "share" /\ r.got = {})
  PROVE  IInv'
<1>1. /\ UNCHANGED <<org, mem, own, gone, ticket, locks>>
      /\ req' = [req EXCEPT ![p] = r]
  BY DEF Begin, rows
<1>2. req'[p] = r
  BY <1>1, GotoType DEF IInv
<1>3. Holds(p)'
  BY <1>2 DEF Holds, Moving
<1>4. QED
  BY <1>1, <1>3, GotoStep

\* FOR UPDATE on the organizations of T that exist.
Takes(p, T) == \A o \in Org : excl'[o] = IF o \in T THEN p ELSE excl[o]

LEMMA UpdateLockStep ==
  ASSUME IInv, NEW p \in Request, NEW T, \A o \in T \cap Org : CanUpdate(p, o),
         Takes(p, T), excl' \in [Org -> Request \cup {Nobody}],
         req' \in [Request -> ReqState], \A q \in Request \ {p} : req'[q] = req[q],
         Named(req'[p]), req'[p].pc \in {"moveParent", "moveTree", "moveTickets", "delGuard"},
         IF req'[p].pc = "delGuard" THEN req'[p].o \in T ELSE mover' = p,
         \A q \in Request \ {p} : mover = q => mover' = q,
         UNCHANGED <<org, mem, own, gone, ticket, share>>
  PROVE  IInv'
<1>1. TypedLocks /\ Exclusive
  BY DEF IInv
<1>2. Alike /\ TypedRows' /\ TypedLocks'
  BY <1>1 DEF Alike, IInv, TypedRows, TypedLocks
<1>3. Exclusive'
  BY <1>1 DEF Exclusive, Takes, CanUpdate
<1>4. Holds(p)'
  BY DEF Holds, Takes, Named, Moving
<1>5. \A q \in Request \ {p} : Untouched(q)
  <2>1. ASSUME NEW q \in Request \ {p}, NEW o \in Org, excl[o] = q PROVE excl'[o] = q
    BY <2>1, OrgAssumption DEF Takes, CanUpdate
  <2>2. ASSUME NEW q \in Request \ {p}, req[q].pc = "moveCommit", NEW o \in req[q].got
        PROVE  o \in Org /\ excl'[o] = excl[o]
    <3>1. o \in Org
      BY <1>1, <2>2 DEF TypedLocks, ReqState
    <3>2. ~CanUpdate(p, o)
      BY <2>2 DEF CanUpdate, Rewritten, At
    <3>3. QED
      BY <3>1, <3>2 DEF Takes
  <2>3. QED
    BY <2>1, <2>2, <1>2, AlikeEffect DEF Untouched, Sealed
<1>6. QED
  BY <1>2, <1>3, <1>4, <1>5, AlikeEffect, TransactionStep

-----------------------------------------------------------------------------
\* Requests that come in.

LEMMA Arrivals ==
  ASSUME IInv, NEW p \in Request, Arrive(p)
  PROVE  IInv'
<1> USE IdleTypes
<1>1. ASSUME NEW o \in Org, NEW par \in Org \cup {NoOrg}, Create(p, o, par) PROVE IInv'
  <2> DEFINE z == IF par = NoOrg THEN <<o>> ELSE Append(org[par].path, o)
             r == [CreateRequest(o, par) EXCEPT !.pc = "insert", !.root = z]
  <2>1. z \in Seq(Org)
    <3>1. CASE par = NoOrg
      BY <3>1
    <3>2. CASE par # NoOrg
      <4>1. org[par].path \in Seq(Org)
        BY <3>2 DEF IInv, TypedRows, OrgRow
      <4>2. QED
        BY <3>2, <4>1
    <3>3. QED
      BY <3>1, <3>2
  <2>2. Begin(p, r)
    BY <1>1 DEF Create
  <2> HIDE DEF z
  <2>3. r \in ReqState /\ r.pc = "insert" /\ r.o = o
    BY <2>1 DEF CreateRequest, ReqState, Pc, Op
  <2> HIDE DEF r
  <2>4. QED
    BY <2>2, <2>3, BeginStep DEF Named
<1>2. ASSUME NEW o \in Org, NEW par \in Org \cup {NoOrg}, Move(p, o, par) PROVE IInv'
  <2> DEFINE r == [MoveRequest(o, par) EXCEPT !.pc = "moveLock"]
  <2>1. Begin(p, r)
    BY <1>2 DEF Move
  <2>2. r \in ReqState /\ r.pc = "moveLock" /\ r.o = o
    BY DEF MoveRequest, ReqState, Pc, Op
  <2> HIDE DEF r
  <2>3. QED
    BY <2>1, <2>2, BeginStep DEF Named
<1>3. ASSUME NEW o \in Org, Delete(p, o) PROVE IInv'
  <2> DEFINE r == [IdleReq EXCEPT !.op = "delete", !.pc = "delLock", !.o = o]
  <2>1. Begin(p, r)
    BY <1>3 DEF Delete
  <2>2. r \in ReqState /\ r.pc = "delLock" /\ r.o = o
    BY DEF ReqState, Pc, Op
  <2> HIDE DEF r
  <2>3. QED
    BY <2>1, <2>2, BeginStep DEF Named
<1>4. IdleReq.got = {}
  BY DEF IdleReq
<1>5. ASSUME NEW u \in User, NEW o \in Org, AddMember(p, u, o) PROVE IInv'
  <2> DEFINE r == [IdleReq EXCEPT !.op = "add", !.pc = "share", !.user = u, !.want = {o}]
  <2>1. Begin(p, r)
    BY <1>5 DEF AddMember
  <2>2. r \in ReqState /\ r.pc = "share" /\ r.got = {}
    BY <1>4 DEF ReqState, Pc, Op
  <2> HIDE DEF r
  <2>3. QED
    BY <2>1, <2>2, BeginStep DEF Named
<1>6. ASSUME NEW u \in User, NEW S \in SUBSET Org, SetUserOrgs(p, u, S) PROVE IInv'
  <2> DEFINE r == [IdleReq EXCEPT !.op = "set", !.pc = "share", !.user = u, !.want = S]
  <2>1. Begin(p, r)
    BY <1>6 DEF SetUserOrgs
  <2>2. r \in ReqState /\ r.pc = "share" /\ r.got = {}
    BY <1>4 DEF ReqState, Pc, Op
  <2> HIDE DEF r
  <2>3. QED
    BY <2>1, <2>2, BeginStep DEF Named
<1>7. ASSUME NEW k \in Ticket, NEW o \in Org, CreateTicket(p, k, o) PROVE IInv'
  <2> DEFINE r == [IdleReq EXCEPT !.op = "ticket", !.pc = "share", !.ticket = k, !.want = {o}]
  <2>1. Begin(p, r)
    BY <1>7 DEF CreateTicket
  <2>2. r \in ReqState /\ r.pc = "share" /\ r.got = {}
    BY <1>4 DEF ReqState, Pc, Op
  <2> HIDE DEF r
  <2>3. QED
    BY <2>1, <2>2, BeginStep DEF Named
<1>8. QED
  BY <1>1, <1>2, <1>3, <1>5, <1>6, <1>7 DEF Arrive

-----------------------------------------------------------------------------
\* Locks.

LEMMA Locking ==
  ASSUME IInv, NEW p \in Request,
         MoveLock(p) \/ MoveLockParent(p) \/ MoveLockSubtree(p) \/ DeleteLock(p)
  PROVE  IInv'
<1> DEFINE r == req[p]
<1>1. /\ TypedRows /\ TypedLocks /\ r \in ReqState /\ Named(r) /\ Holds(p)
      /\ excl \in [Org -> Request \cup {Nobody}] /\ Nobody \notin Request
  BY OrgAssumption DEF IInv, TypedLocks
<1>2. CASE Rollback(p)
  BY <1>2, RollbackStep
<1>3. CASE MoveLock(p) /\ ~Rollback(p)
  <2>1. /\ CanUpdate(p, r.o) /\ excl' = [excl EXCEPT ![r.o] = p] /\ r.o \in Org
        /\ UNCHANGED <<org, mem, own, gone, ticket, share>>
        /\ mover = Nobody /\ mover' = p
    BY <1>1, <1>3 DEF MoveLock, At, Named, rows, Moving
  <2> DEFINE c == IF r.parent = NoOrg THEN "moveTree" ELSE "moveParent"
             z == <<r.o>>
             g == [r EXCEPT !.path = org[r.o].path, !.root = z, !.pc = c]
  <2>2. req' = [req EXCEPT ![p] = g]
    BY <1>1, <1>3 DEF MoveLock, TypedLocks
  <2>3. z \in Seq(Org) /\ org[r.o].path \in Seq(Org)
    BY <1>1, <2>1 DEF TypedRows, OrgRow
  <2>4. c \in {"moveTree", "moveParent"} /\ (c = "moveParent" => r.parent # NoOrg)
    OBVIOUS
  <2> HIDE DEF z, c
  <2>5. g \in ReqState /\ g.pc = c /\ g.o = r.o /\ g.parent = r.parent
    BY <1>1, <2>3, <2>4 DEF ReqState, Pc, Moving
  <2>6. Named(g)
    BY <1>1, <2>1, <2>4, <2>5 DEF Named, ReqState
  <2> HIDE DEF g
  <2>7. /\ req' \in [Request -> ReqState] /\ req'[p] = g
        /\ \A q \in Request \ {p} : req'[q] = req[q]
    BY <1>1, <2>2, <2>5, GotoType
  <2>8. Takes(p, {r.o}) /\ excl' \in [Org -> Request \cup {Nobody}]
    BY <1>1, <2>1 DEF Takes
  <2>9. QED
    BY <1>1, <2>1, <2>4, <2>5, <2>6, <2>7, <2>8, UpdateLockStep
<1>4. CASE MoveLockParent(p) /\ ~Rollback(p)
  <2>1. /\ CanUpdate(p, r.parent) /\ excl' = [excl EXCEPT ![r.parent] = p]
        /\ r.o \in Org /\ r.parent \in Org
        /\ UNCHANGED <<org, mem, own, gone, ticket, share>> /\ mover = p /\ mover' = mover
    BY <1>1, <1>4 DEF MoveLockParent, At, Named, rows, Holds, Moving
  <2> DEFINE z == NewRoot(r.o, r.parent)
             g == [r EXCEPT !.pc = "moveTree", !.root = z]
  <2>2. req' = [req EXCEPT ![p] = g]
    BY <1>1, <1>4 DEF MoveLockParent, TypedLocks
  <2>3. z \in Seq(Org)
    <3>1. org[r.parent].path \in Seq(Org)
      BY <1>1, <2>1 DEF TypedRows, OrgRow
    <3>2. QED
      BY <3>1, <2>1 DEF NewRoot
  <2> HIDE DEF z
  <2>4. g \in ReqState /\ g.pc = "moveTree" /\ g.o = r.o
    BY <1>1, <2>3 DEF ReqState, Pc, Moving
  <2> HIDE DEF g
  <2>5. /\ req' \in [Request -> ReqState] /\ req'[p] = g
        /\ \A q \in Request \ {p} : req'[q] = req[q]
    BY <1>1, <2>2, <2>4, GotoType
  <2>6. Takes(p, {r.parent}) /\ excl' \in [Org -> Request \cup {Nobody}]
    BY <1>1, <2>1 DEF Takes
  <2>7. QED
    BY <2>1, <2>4, <2>5, <2>6, UpdateLockStep DEF Named
<1>5. CASE MoveLockSubtree(p)
  <2> DEFINE tree == {o \in r.got : Live(o)}
             y == Subtree(r.path)
             g == [r EXCEPT !.got = y, !.pc = "moveTickets"]
  <2>1. /\ \A o \in tree : CanUpdate(p, o)
        /\ excl' = [o \in Org |-> IF o \in tree THEN p ELSE excl[o]]
        /\ r.o \in Org /\ req' = [req EXCEPT ![p] = g]
        /\ UNCHANGED <<org, mem, own, gone, ticket, share>> /\ mover = p /\ mover' = mover
    BY <1>1, <1>5 DEF MoveLockSubtree, At, Named, TypedLocks, rows, Holds, Moving
  <2>2. y \in SUBSET Org
    BY DEF Subtree
  <2> HIDE DEF y
  <2>3. g \in ReqState /\ g.pc = "moveTickets" /\ g.o = r.o
    BY <1>1, <2>2 DEF ReqState, Pc, Moving
  <2> HIDE DEF g, tree
  <2>4. /\ req' \in [Request -> ReqState] /\ req'[p] = g
        /\ \A q \in Request \ {p} : req'[q] = req[q]
    BY <1>1, <2>1, <2>3, GotoType
  <2>5. Takes(p, tree) /\ excl' \in [Org -> Request \cup {Nobody}]
    BY <1>1, <2>1 DEF Takes
  <2>6. QED
    BY <2>1, <2>3, <2>4, <2>5, UpdateLockStep DEF Named
<1>6. CASE DeleteLock(p) /\ ~Rollback(p)
  <2> DEFINE g == [r EXCEPT !.pc = "delGuard"]
  <2>1. /\ CanUpdate(p, r.o) /\ excl' = [excl EXCEPT ![r.o] = p]
        /\ r.o \in Org /\ req' = [req EXCEPT ![p] = g]
        /\ UNCHANGED <<org, mem, own, gone, ticket, share, mover>>
    BY <1>1, <1>6 DEF DeleteLock, At, Named, TypedLocks, rows, Moving
  <2>2. g \in ReqState /\ g.pc = "delGuard" /\ g.o = r.o
    BY <1>1 DEF ReqState, Pc
  <2> HIDE DEF g
  <2>3. /\ req' \in [Request -> ReqState] /\ req'[p] = g
        /\ \A q \in Request \ {p} : req'[q] = req[q]
    BY <1>1, <2>1, <2>2, GotoType
  <2>4. Takes(p, {r.o}) /\ excl' \in [Org -> Request \cup {Nobody}]
    BY <1>1, <2>1 DEF Takes
  <2>5. QED
    BY <2>1, <2>2, <2>3, <2>4, UpdateLockStep DEF Named
<1>7. QED
  BY <1>2, <1>3, <1>4, <1>5, <1>6

\* What the statements of a move read, without waiting or having waited.
LEMMA Snapshots ==
  ASSUME IInv, NEW p \in Request, MoveSelectSubtree(p) \/ MoveUpdateOrgs(p)
  PROVE  IInv'
<1> DEFINE r == req[p]
<1>1. /\ TypedLocks /\ r \in ReqState /\ Named(r) /\ Holds(p)
  BY DEF IInv, TypedLocks
<1>2. CASE MoveSelectSubtree(p)
  <2> DEFINE y == Subtree(r.path)
             g == [r EXCEPT !.got = y, !.pc = "moveOrgs"]
  <2>1. /\ req' = [req EXCEPT ![p] = g] /\ r.o \in Org /\ mover = p
        /\ UNCHANGED <<org, mem, own, gone, ticket, locks>>
    BY <1>1, <1>2 DEF MoveSelectSubtree, At, Named, Holds, Moving, TypedLocks, rows
  <2>2. y \in SUBSET Org
    BY DEF Subtree
  <2> HIDE DEF y
  <2>3. g \in ReqState /\ g.pc = "moveOrgs" /\ g.o = r.o
    BY <1>1, <2>2 DEF ReqState, Pc, Moving
  <2> HIDE DEF g
  <2>4. req'[p] = g
    BY <1>1, <2>1, <2>3, GotoType
  <2>5. Holds(p)'
    BY <2>1, <2>3, <2>4 DEF Holds, locks
  <2>6. QED
    BY <2>1, <2>3, <2>5, GotoStep DEF Named
<1>3. CASE MoveUpdateOrgs(p)
  <2> DEFINE tree == {o \in r.got : Live(o)}
             y == {k \in Ticket : ticket[k].status # "none" /\ Under(ticket[k].path, r.path)}
             g == [r EXCEPT !.got = tree, !.tickets = y, !.pc = "moveCommit"]
  <2>1. /\ req' = [req EXCEPT ![p] = g] /\ r.o \in Org /\ mover = p
        /\ UNCHANGED <<org, mem, own, gone, ticket, locks>>
        /\ \A o \in tree : CanUpdate(p, o)
    BY <1>1, <1>3 DEF MoveUpdateOrgs, At, Named, Holds, Moving, TypedLocks, rows
  <2>2. tree \in SUBSET Org /\ y \in SUBSET Ticket /\ \A o \in tree : Live(o)
    BY <1>1 DEF ReqState
  <2> HIDE DEF tree, y
  <2>3. g \in ReqState /\ g.pc = "moveCommit" /\ g.o = r.o /\ g.got = tree
    BY <1>1, <2>2 DEF ReqState, Pc, Moving
  <2> HIDE DEF g
  <2>4. req'[p] = g
    BY <1>1, <2>1, <2>3, GotoType
  <2>5. \A o \in g.got : Live(o)' /\ Sealed(p, o)'
    BY <2>1, <2>2, <2>3 DEF Live, Sealed, CanUpdate, locks
  <2>6. Holds(p)'
    BY <2>1, <2>3, <2>4, <2>5 DEF Holds, locks
  <2>7. QED
    BY <2>1, <2>3, <2>6, GotoStep DEF Named
<1>4. QED
  BY <1>2, <1>3

\* The guards of a delete see what will still be so at its commit.
LEMMA Guarding ==
  ASSUME IInv, NEW p \in Request, DeleteGuards(p)
  PROVE  IInv'
<1> DEFINE r == req[p]
           g == [r EXCEPT !.pc = "delWrite"]
<1>1. CASE Rollback(p)
  BY <1>1, RollbackStep
<1>2. CASE ~Rollback(p)
  <2>1. /\ TypedLocks /\ r \in ReqState /\ Named(r) /\ Holds(p) /\ r.pc = "delGuard"
        /\ Empty(r.o) /\ req' = [req EXCEPT ![p] = g]
        /\ UNCHANGED <<org, mem, own, gone, ticket, locks>>
    BY <1>2 DEF IInv, TypedLocks, DeleteGuards, At, rows
  <2>2. g \in ReqState /\ g.pc = "delWrite" /\ g.o = r.o
    BY <2>1 DEF ReqState, Pc
  <2>3. r.o \in Org /\ excl[r.o] = p /\ Vacant(r.o)
    BY <2>1 DEF Named, Holds, Empty, Vacant
  <2> HIDE DEF g
  <2>4. req'[p] = g
    BY <2>1, <2>2, GotoType
  <2>5. PICK o \in Org : o = g.o /\ excl[o] = p /\ Vacant(o)
    BY <2>2, <2>3
  <2>6. Vacant(o)' /\ excl'[o] = p
    BY <2>1, <2>5 DEF Vacant, locks
  <2>7. Named(g) /\ Holds(p)'
    BY <2>2, <2>4, <2>5, <2>6 DEF Named, Holds, Vacant, Moving
  <2>8. QED
    BY <2>1, <2>2, <2>7, GotoStep
<1>3. QED
  BY <1>1, <1>2

\* FOR SHARE on a live organization, which nobody else has locked.
LEMMA Sharing ==
  ASSUME IInv, NEW p \in Request, LockAliveOrgForShare(p)
  PROVE  IInv'
<1> DEFINE r == req[p]
<1>1. /\ TypedRows /\ TypedLocks /\ Exclusive /\ r \in ReqState /\ Holds(p) /\ r.pc = "share"
  BY DEF IInv, TypedLocks, LockAliveOrgForShare, At
<1>2. PICK o \in r.want \ r.got :
        /\ CanShare(p, o)
        /\ IF Live(o)
           THEN /\ share' = TakeShare(p, o)
                /\ req' = [req EXCEPT ![p].got = @ \cup {o}, ![p].path = org[o].path]
                /\ UNCHANGED <<rows, excl, mover, ops>>
           ELSE Rollback(p)
  BY DEF LockAliveOrgForShare
<1>3. o \in Org
  BY <1>1, <1>2 DEF ReqState
<1>4. CASE ~Live(o)
  BY <1>2, <1>4, RollbackStep
<1>5. CASE Live(o)
  <2> DEFINE g == [r EXCEPT !.got = r.got \cup {o}, !.path = org[o].path]
  <2>1. /\ CanShare(p, o) /\ req' = [req EXCEPT ![p] = g]
        /\ share' = [share EXCEPT ![o] = share[o] \cup {p}]
        /\ UNCHANGED <<org, mem, own, gone, ticket, excl, mover>>
    BY <1>1, <1>2, <1>5 DEF TakeShare, rows, TypedLocks
  <2>2. g \in ReqState /\ g.pc = "share" /\ g.got = r.got \cup {o}
    BY <1>1, <1>3 DEF ReqState, TypedRows, OrgRow
  <2> HIDE DEF g
  <2>3. /\ req' \in [Request -> ReqState] /\ req'[p] = g
        /\ \A q \in Request \ {p} : req'[q] = req[q]
    BY <1>1, <2>1, <2>2, GotoType
  <2>4. /\ share' \in [Org -> SUBSET Request] /\ share'[o] = share[o] \cup {p}
        /\ \A x \in Org \ {o} : share'[x] = share[x]
    BY <1>1, <1>3, <2>1 DEF TypedLocks
  <2>5. Alike /\ TypedRows' /\ TypedLocks'
    BY <1>1, <2>1, <2>3, <2>4 DEF Alike, TypedRows, TypedLocks
  <2>6. Exclusive'
    BY <1>1, <2>1, <2>4 DEF Exclusive, CanShare
  <2>7. Named(req'[p]) /\ Holds(p)'
    <3>1. r.got \subseteq Org
      BY <1>1 DEF ReqState
    <3>2. \A x \in g.got : p \in share'[x] /\ Live(x)'
      BY <1>1, <1>3, <1>5, <2>1, <2>2, <2>4, <3>1 DEF Holds, Live
    <3>3. QED
      BY <2>2, <2>3, <3>2 DEF Named, Holds, Moving
  <2>8. \A q \in Request \ {p} : Untouched(q)
    <3>1. ASSUME NEW q \in Request \ {p}, req[q].pc = "moveCommit", NEW x \in req[q].got
          PROVE  x \in Org /\ x # o
      BY <1>1, <2>1, <3>1 DEF CanShare, Rewritten, At, TypedLocks, ReqState
    <3>2. QED
      BY <2>1, <2>3, <2>4, <2>5, <3>1, AlikeEffect DEF Untouched, Sealed
  <2>9. QED
    BY <2>5, <2>6, <2>7, <2>8, AlikeEffect, TransactionStep
<1>6. QED
  BY <1>4, <1>5

-----------------------------------------------------------------------------
\* Commits.

LEMMA CommitStep ==
  ASSUME IInv, NEW p \in Request, EndTx(p), TypedRows', DeletedIsEmpty',
         \A q \in Request \ {p}, o \in Org :
           /\ (q \in share[o] \/ Sealed(q, o)) /\ Live(o) => Live(o)'
           /\ excl[o] = q /\ Vacant(o) => Vacant(o)'
  PROVE  IInv'
<1>1. \A q \in Request \ {p} : req[q].got \subseteq Org
  BY DEF IInv, TypedLocks, ReqState
<1>2. \A q \in Request \ {p} : Untouched(q)
  BY <1>1, EndEffect DEF Untouched
<1>3. QED
  BY <1>2, EndEffect, TransactionStep

LEMMA InsertStep ==
  ASSUME IInv, NEW p \in Request, InsertOrg(p)
  PROVE  IInv'
<1> DEFINE r == req[p]
           w == [life |-> "live", parent |-> r.parent, path |-> r.root]
<1>1. /\ TypedRows /\ r \in ReqState /\ r.o \in Org /\ EndTx(p)
      /\ UNCHANGED <<mem, own, gone, ticket>> /\ DeletedIsEmpty
      /\ \/ org[r.o].life = "unborn" /\ org' = [org EXCEPT ![r.o] = w]
         \/ UNCHANGED org
  BY DEF IInv, TypedLocks, InsertOrg, At, Named
<1>2. w \in OrgRow /\ w.life = "live"
  BY <1>1 DEF ReqState, OrgRow
<1> HIDE DEF w
<1>3. TypedRows'
  BY <1>1, <1>2 DEF TypedRows
<1>4. \A o \in Org : org'[o].life = org[o].life \/ (org[o].life = "unborn" /\ org'[o].life = "live")
  BY <1>1, <1>2 DEF TypedRows
<1>5. DeletedIsEmpty'
  BY <1>1, <1>4 DEF DeletedIsEmpty
<1>6. \A o \in Org : (Live(o) => Live(o)') /\ (Vacant(o) => Vacant(o)')
  BY <1>1, <1>4 DEF Live, Vacant
<1>7. QED
  BY <1>1, <1>3, <1>5, <1>6, CommitStep

LEMMA MoveStep ==
  ASSUME IInv, NEW p \in Request, MoveCommit(p)
  PROVE  IInv'
<1> DEFINE r == req[p]
<1>1. /\ TypedRows /\ r \in ReqState /\ EndTx(p) /\ UNCHANGED <<mem, own, gone>>
      /\ org' = [o \in Org |->
           IF o \in r.got
           THEN [org[o] EXCEPT !.path = Rebase(@, r.path, r.root),
                               !.parent = IF o = r.o THEN r.parent ELSE @]
           ELSE org[o]]
      /\ ticket' = [k \in Ticket |->
           IF k \in r.tickets THEN [ticket[k] EXCEPT !.path = Rebase(@, r.path, r.root)] ELSE ticket[k]]
  BY DEF IInv, TypedLocks, MoveCommit
<1>2. r.path \in Seq(Org) /\ r.root \in Seq(Org) /\ r.parent \in Org \cup {NoOrg}
  BY <1>1 DEF ReqState
<1>3. ASSUME NEW o \in Org PROVE org'[o] \in OrgRow /\ org'[o].life = org[o].life
  <2>1. org[o] \in OrgRow /\ org[o].path \in Seq(Org)
    BY <1>1 DEF TypedRows, OrgRow
  <2> DEFINE z == Rebase(org[o].path, r.path, r.root)
             y == IF o = r.o THEN r.parent ELSE org[o].parent
  <2>2. z \in Seq(Org) /\ y \in Org \cup {NoOrg}
    BY <1>2, <2>1, RebaseType DEF OrgRow
  <2>3. org'[o] = [org[o] EXCEPT !.path = z, !.parent = y] \/ org'[o] = org[o]
    BY <1>1
  <2> HIDE DEF z, y
  <2>4. QED
    BY <2>1, <2>2, <2>3 DEF OrgRow
<1>4. ASSUME NEW k \in Ticket
      PROVE  /\ ticket'[k] \in TicketRow
             /\ ticket'[k].status = ticket[k].status /\ ticket'[k].org = ticket[k].org
  <2>1. ticket[k] \in TicketRow /\ ticket[k].path \in Seq(Org)
    BY <1>1 DEF TypedRows, TicketRow
  <2> DEFINE z == Rebase(ticket[k].path, r.path, r.root)
  <2>2. z \in Seq(Org)
    BY <1>2, <2>1, RebaseType
  <2>3. ticket'[k] = [ticket[k] EXCEPT !.path = z] \/ ticket'[k] = ticket[k]
    BY <1>1
  <2> HIDE DEF z
  <2>4. QED
    BY <2>1, <2>2, <2>3 DEF TicketRow
<1>5. org' \in [Org -> OrgRow]
  BY <1>1, <1>3
<1>6. ticket' \in [Ticket -> TicketRow]
  BY <1>1, <1>4
<1>7. TypedRows'
  BY <1>1, <1>5, <1>6 DEF TypedRows
<1>8. Alike
  BY <1>1, <1>3, <1>4 DEF Alike
<1>9. QED
  BY <1>1, <1>7, <1>8, AlikeEffect, CommitStep

LEMMA DeleteStep ==
  ASSUME IInv, NEW p \in Request, DeleteCommit(p)
  PROVE  IInv'
<1>1. PICK o \in Org : o = req[p].o
  BY DEF IInv, DeleteCommit, At, Named
<1>2. /\ TypedRows /\ Exclusive /\ DeletedIsEmpty /\ excl[o] = p /\ Vacant(o) /\ EndTx(p)
      /\ org' = [org EXCEPT ![o].life = "deleted"]
      /\ mem' = [mem EXCEPT ![o] = mem[o] \ own[o]]
      /\ own' = [own EXCEPT ![o] = {}]
      /\ UNCHANGED <<ticket, gone>>
  BY <1>1 DEF IInv, DeleteCommit, At, Holds, TypedRows
<1>3. /\ org' \in [Org -> OrgRow] /\ \A x \in Org \ {o} : org'[x] = org[x]
  BY <1>2 DEF TypedRows, OrgRow
<1>4. /\ mem' \in [Org -> SUBSET (User \cup {Nobody})] /\ mem'[o] \subseteq gone
      /\ \A x \in Org \ {o} : mem'[x] = mem[x]
  BY <1>2 DEF TypedRows, Vacant
<1>5. /\ own' \in [Org -> SUBSET (User \cup {Nobody})]
      /\ \A x \in Org \ {o} : own'[x] = own[x]
  BY <1>2 DEF TypedRows
<1>6. TypedRows'
  BY <1>2, <1>3, <1>4, <1>5 DEF TypedRows
<1>7. DeletedIsEmpty'
  BY <1>2, <1>3, <1>4 DEF DeletedIsEmpty, Vacant
<1>8. ASSUME NEW q \in Request \ {p}, NEW x \in Org
      PROVE  /\ (q \in share[x] \/ Sealed(q, x)) /\ Live(x) => Live(x)'
             /\ excl[x] = q /\ Vacant(x) => Vacant(x)'
  <2>1. CASE x = o
    <3>1. q \notin share[o] /\ excl[o] # q /\ ~Sealed(q, o)
      BY <1>2, OrgAssumption DEF Exclusive, Sealed
    <3>2. QED
      BY <2>1, <3>1
  <2>2. CASE x # o
    BY <2>2, <1>2, <1>3, <1>4, <1>5 DEF Live, Vacant
  <2>3. QED
    BY <2>1, <2>2
<1>9. QED
  BY <1>2, <1>6, <1>7, <1>8, CommitStep

\* An organization that is shared is there, and nobody is deleting it.
LEMMA SharedStays ==
  ASSUME IInv, NEW p \in Request, req[p].pc = "share", NEW o \in req[p].got
  PROVE  o \in Org /\ Live(o) /\ \A q \in Request \ {p} : excl[o] # q
<1>1. req[p] \in ReqState /\ Holds(p) /\ Exclusive /\ Nobody \notin Request
  BY OrgAssumption DEF IInv, TypedLocks
<1>2. o \in Org /\ p \in share[o] /\ Live(o)
  BY <1>1 DEF ReqState, Holds
<1>3. QED
  BY <1>1, <1>2 DEF Exclusive

LEMMA MembersStep ==
  ASSUME IInv, NEW p \in Request, CommitMembers(p)
  PROVE  IInv'
<1> DEFINE r == req[p]
<1>1. /\ TypedRows /\ DeletedIsEmpty /\ r \in ReqState /\ r.pc = "share" /\ r.got = r.want
      /\ EndTx(p) /\ UNCHANGED <<org, gone, ticket>>
  BY DEF IInv, TypedLocks, CommitMembers, At
<1>2. /\ mem' = [o \in Org |-> IF o \in r.want THEN mem[o] \cup {r.user}
                               ELSE IF r.op = "set" THEN mem[o] \ {r.user} ELSE mem[o]]
      /\ own' = IF r.op = "set" THEN [o \in Org |-> own[o] \ {r.user}] ELSE own
  BY DEF CommitMembers
<1>3. r.user \in User \cup {Nobody}
  BY <1>1 DEF ReqState
<1>4. TypedRows'
  BY <1>1, <1>2, <1>3 DEF TypedRows
<1>5. \A o \in Org : o \notin r.want =>
        mem'[o] \subseteq mem[o] /\ mem'[o] \ own'[o] \subseteq mem[o] \ own[o]
  BY <1>1, <1>2 DEF TypedRows
<1>6. \A o \in r.want : Live(o) /\ \A q \in Request \ {p} : excl[o] # q
  BY <1>1, SharedStays
<1>7. DeletedIsEmpty'
  BY <1>1, <1>5, <1>6 DEF DeletedIsEmpty, Live
<1>8. ASSUME NEW q \in Request \ {p}, NEW o \in Org
      PROVE  /\ Live(o) => Live(o)'
             /\ excl[o] = q /\ Vacant(o) => Vacant(o)'
  BY <1>1, <1>5, <1>6 DEF Live, Vacant
<1>9. QED
  BY <1>1, <1>4, <1>7, <1>8, CommitStep

LEMMA TicketStep ==
  ASSUME IInv, NEW p \in Request, CommitTicket(p)
  PROVE  IInv'
<1> DEFINE r == req[p]
<1>1. /\ TypedRows /\ DeletedIsEmpty /\ r \in ReqState /\ r.pc = "share" /\ r.got = r.want
      /\ EndTx(p) /\ UNCHANGED <<org, mem, own, gone>>
  BY DEF IInv, TypedLocks, CommitTicket, At
<1>2. CASE UNCHANGED ticket
  BY <1>1, <1>2, AlikeEffect, CommitStep DEF Alike, TypedRows
<1>3. CASE \E o \in r.want :
             ticket' = [ticket EXCEPT ![r.ticket] = [status |-> "open", org |-> o, path |-> r.path]]
  <2>1. PICK o \in r.want :
          ticket' = [ticket EXCEPT ![r.ticket] = [status |-> "open", org |-> o, path |-> r.path]]
    BY <1>3
  <2> DEFINE w == [status |-> "open", org |-> o, path |-> r.path]
  <2>2. o \in Org /\ Live(o) /\ \A q \in Request \ {p} : excl[o] # q
    BY <1>1, SharedStays
  <2>3. w \in TicketRow /\ w.org = o
    BY <1>1, <2>2 DEF TicketRow, ReqState
  <2>4. ticket' = [ticket EXCEPT ![r.ticket] = w]
    BY <2>1
  <2> HIDE DEF w
  <2>5. TypedRows' /\ \A k \in Ticket : ticket'[k] = ticket[k] \/ ticket'[k].org = o
    BY <1>1, <2>3, <2>4 DEF TypedRows
  <2>6. DeletedIsEmpty'
    BY <1>1, <2>2, <2>5 DEF DeletedIsEmpty, Live
  <2>7. ASSUME NEW q \in Request \ {p}, NEW x \in Org
        PROVE  /\ Live(x) => Live(x)'
               /\ excl[x] = q /\ Vacant(x) => Vacant(x)'
    BY <1>1, <2>2, <2>5 DEF Live, Vacant
  <2>8. QED
    BY <1>1, <2>5, <2>6, <2>7, CommitStep
<1>4. QED
  BY <1>2, <1>3 DEF CommitTicket

LEMMA OutsideUntouched ==
  ASSUME IInv, UNCHANGED <<req, locks>>, NEW q \in Request,
         \A o \in Org : (Live(o) => Live(o)') /\ (excl[o] = q /\ Vacant(o) => Vacant(o)')
  PROVE  Untouched(q)
<1>1. req[q].got \subseteq Org
  BY DEF IInv, TypedLocks, ReqState
<1>2. QED
  BY <1>1 DEF Untouched, Sealed, locks

\* Writers that take the row lock and give it back in one step.
LEMMA OutsideSteps ==
  ASSUME IInv, \/ \E k \in Ticket : CloseTicket(k)
               \/ \E o \in Org, u \in User : RemoveMember(o, u)
               \/ \E o \in Org, S \in SUBSET User : SetOwners(o, S)
               \/ \E u \in User : DeleteUser(u)
  PROVE  IInv'
<1>1. TypedRows /\ DeletedIsEmpty /\ Nobody \notin Request
  BY OrgAssumption DEF IInv
<1>2. ASSUME NEW k \in Ticket, CloseTicket(k) PROVE IInv'
  <2> DEFINE w == [ticket[k] EXCEPT !.status = "closed"]
  <2>1. /\ ticket' = [ticket EXCEPT ![k] = w]
        /\ UNCHANGED <<org, mem, own, gone, req, locks>>
    BY <1>1, <1>2 DEF CloseTicket, TypedRows
  <2>2. w \in TicketRow /\ w.status = "closed"
    BY <1>1 DEF TypedRows, TicketRow
  <2> HIDE DEF w
  <2>3. TypedRows' /\ \A j \in Ticket : ticket'[j] = ticket[j] \/ ticket'[j].status = "closed"
    BY <1>1, <2>1, <2>2 DEF TypedRows
  <2>4. DeletedIsEmpty' /\ \A o \in Org : (Live(o) => Live(o)') /\ (Vacant(o) => Vacant(o)')
    BY <1>1, <2>1, <2>3 DEF DeletedIsEmpty, Live, Vacant
  <2>5. QED
    BY <2>1, <2>3, <2>4, OutsideUntouched, OutsideStep
<1>3. ASSUME NEW o \in Org, NEW M \in SUBSET (User \cup {Nobody}),
             NEW N \in SUBSET (User \cup {Nobody}),
             mem' = [mem EXCEPT ![o] = M], own' = [own EXCEPT ![o] = N],
             org[o].life = "deleted" => M \subseteq mem[o],
             excl[o] = Nobody, UNCHANGED <<org, gone, ticket, req, locks>>
      PROVE  IInv'
  <2>1. /\ TypedRows' /\ mem'[o] = M
        /\ \A x \in Org \ {o} : mem'[x] = mem[x] /\ own'[x] = own[x]
    BY <1>1, <1>3 DEF TypedRows
  <2>2. DeletedIsEmpty'
    BY <1>1, <1>3, <2>1 DEF DeletedIsEmpty
  <2>3. ASSUME NEW q \in Request, NEW x \in Org
        PROVE  (Live(x) => Live(x)') /\ (excl[x] = q /\ Vacant(x) => Vacant(x)')
    BY <1>1, <1>3, <2>1 DEF Live, Vacant
  <2>4. QED
    BY <1>3, <2>1, <2>2, <2>3, OutsideUntouched, OutsideStep
<1>4. ASSUME NEW o \in Org, NEW u \in User, RemoveMember(o, u) PROVE IInv'
  <2>1. /\ mem' = [mem EXCEPT ![o] = mem[o] \ {u}] /\ own' = [own EXCEPT ![o] = own[o] \ {u}]
        /\ excl[o] = Nobody /\ UNCHANGED <<org, gone, ticket, req, locks>>
    BY <1>1, <1>4 DEF RemoveMember, Unlocked, TypedRows
  <2>2. /\ mem[o] \ {u} \in SUBSET (User \cup {Nobody})
        /\ own[o] \ {u} \in SUBSET (User \cup {Nobody})
    BY <1>1 DEF TypedRows
  <2>3. QED
    BY <1>3, <2>1, <2>2
<1>5. ASSUME NEW o \in Org, NEW S \in SUBSET User, SetOwners(o, S) PROVE IInv'
  <2>1. /\ mem' = [mem EXCEPT ![o] = mem[o] \cup S] /\ own' = [own EXCEPT ![o] = S]
        /\ excl[o] = Nobody /\ UNCHANGED <<org, gone, ticket, req, locks>>
        /\ Live(o) \/ S = {}
    BY <1>1, <1>5 DEF SetOwners, Unlocked, TypedRows
  <2>2. /\ mem[o] \cup S \in SUBSET (User \cup {Nobody}) /\ S \in SUBSET (User \cup {Nobody})
        /\ org[o].life = "deleted" => mem[o] \cup S \subseteq mem[o]
    BY <1>1, <2>1 DEF TypedRows, Live
  <2>3. QED
    BY <1>3, <2>1, <2>2
<1>6. ASSUME NEW u \in User, DeleteUser(u) PROVE IInv'
  <2>1. /\ mem' = [o \in Org |-> mem[o] \ {u}] /\ own' = [o \in Org |-> own[o] \ {u}]
        /\ gone' = gone \cup {u} /\ UNCHANGED <<org, ticket, req, locks>>
    BY <1>6 DEF DeleteUser
  <2>2. /\ TypedRows'
        /\ \A o \in Org : /\ mem'[o] \subseteq mem[o]
                          /\ mem'[o] \ own'[o] \subseteq mem[o] \ own[o]
    BY <1>1, <2>1 DEF TypedRows
  <2>3. DeletedIsEmpty' /\ \A o \in Org : (Live(o) => Live(o)') /\ (Vacant(o) => Vacant(o)')
    BY <1>1, <2>1, <2>2 DEF DeletedIsEmpty, Live, Vacant
  <2>4. QED
    BY <2>1, <2>2, <2>3, OutsideUntouched, OutsideStep
<1>7. QED
  BY <1>2, <1>4, <1>5, <1>6

-----------------------------------------------------------------------------
LEMMA Steps == ASSUME IInv, Next PROVE IInv'
<1>1. ASSUME NEW p \in Request, Arrive(p) PROVE IInv'
  BY <1>1, Arrivals
<1>2. ASSUME NEW p \in Request, Step(p) PROVE IInv'
  BY <1>2, InsertStep, Locking, Snapshots, MoveStep, Guarding, DeleteStep, Sharing, MembersStep,
     TicketStep, RollbackStep DEF Step, Abort
<1>3. QED
  BY <1>1, <1>2, OutsideSteps DEF Next

LEMMA Starts == ASSUME Init PROVE IInv
<1>1. ASSUME NEW o \in Org PROVE org[o] \in OrgRow /\ org[o].life # "deleted"
  <2> DEFINE q == SeedPath[o]
             l == IF q = <<>> THEN "unborn" ELSE "live"
             a == IF Len(q) > 1 THEN q[Len(q) - 1] ELSE NoOrg
  <2>1. q \in Seq(Org)
    BY OrgAssumption
  <2>2. a \in Org \cup {NoOrg}
    BY <2>1
  <2>3. org[o] = [life |-> l, parent |-> a, path |-> q]
    BY DEF Init
  <2>4. l \in {"unborn", "live"}
    OBVIOUS
  <2> HIDE DEF q, l, a
  <2>5. QED
    BY <2>1, <2>2, <2>3, <2>4 DEF OrgRow
<1>2. org \in [Org -> OrgRow]
  BY <1>1 DEF Init
<1>3. ticket \in [Ticket -> TicketRow] /\ \A k \in Ticket : ticket[k].status = "none"
  <2>1. PICK z \in Seq(Org) : z = <<>>
    BY IdleTypes DEF IdleReq, ReqState
  <2>2. NoTicket = [status |-> "none", org |-> NoOrg, path |-> z]
    BY <2>1 DEF NoTicket
  <2>3. QED
    BY <2>2 DEF Init, TicketRow
<1>4. TypedRows /\ DeletedIsEmpty
  BY <1>1, <1>2, <1>3 DEF Init, TypedRows, DeletedIsEmpty
<1>5. TypedLocks /\ Exclusive /\ \A p \in Request : req[p] = IdleReq
  BY IdleTypes DEF Init, TypedLocks, Exclusive
<1>6. QED
  BY <1>4, <1>5, IdleTypes DEF IInv, Holds, Moving

(* The inductive invariant of the lock protocol.                           *)
THEOREM Invariance == Spec => []IInv
<1>1. Init => IInv
  BY Starts
<1>2. IInv /\ [Next]_vars => IInv'
  <2>1. ASSUME IInv, UNCHANGED vars PROVE IInv'
    <3>1. UNCHANGED <<org, mem, own, gone, ticket, locks, req>>
      BY <2>1 DEF vars, rows
    <3>2. Alike /\ TypedRows'
      BY <2>1, <3>1 DEF Alike, IInv, TypedRows
    <3>3. QED
      BY <2>1, <3>1, <3>2, AlikeEffect, OutsideUntouched, OutsideStep
  <2>2. QED
    BY <2>1, Steps
<1>3. QED
  BY <1>1, <1>2, PTL DEF Spec

(* FOR UPDATE excludes FOR SHARE on every organization row: whoever moves  *)
(* or deletes it is the only one that may hold it shared.                  *)
THEOREM LocksExclude == Spec => []Exclusive
<1>1. IInv => Exclusive
  BY DEF IInv
<1>2. QED
  BY <1>1, Invariance, PTL

(* A deleted organization has no open tickets, and no member rows but those*)
(* of deleted users, whatever creations of tickets, additions of members,  *)
(* deletions of users and moves overlap the delete.                        *)
THEOREM DeletedStaysEmpty == Spec => []DeletedIsEmpty
<1>1. IInv => DeletedIsEmpty
  BY DEF IInv
<1>2. QED
  BY <1>1, Invariance, PTL

-----------------------------------------------------------------------------
\* Paths.

\* A path that leads to o.
Ends(z, o) == z \in Seq(Org) /\ z # <<>> /\ z[Len(z)] = o

LEMMA LenType == ASSUME NEW z \in Seq(Org) PROVE Len(z) \in Nat
OBVIOUS

LEMMA UnderMeans ==
  ASSUME NEW x \in Seq(Org), NEW q \in Seq(Org)
  PROVE  Under(x, q) <=> Len(q) <= Len(x) /\ \A i \in 1..Len(q) : x[i] = q[i]
<1> DEFINE k == Len(q)
           m == Len(x)
           t == SubSeq(x, 1, k)
<1>1. k \in Nat /\ m \in Nat
  BY LenType
<1>2. ASSUME k <= m
      PROVE  t \in Seq(Org) /\ Len(t) = k /\ \A i \in 1..k : t[i] = x[i]
  <2>1. \A i \in 1..k : x[i] \in Org
    BY <1>1, <1>2
  <2> HIDE DEF k
  <2>2. /\ t \in Seq(Org) /\ Len(t) = (IF 1 <= k THEN k - 1 + 1 ELSE 0)
        /\ \A i \in 1..(k - 1 + 1) : t[i] = x[1 + i - 1]
    BY <1>1, <2>1, SubSeqProperties
  <2>3. k - 1 + 1 = k /\ (IF 1 <= k THEN k - 1 + 1 ELSE 0) = k
    BY <1>1
  <2>4. \A i \in 1..k : 1 + i - 1 = i
    BY <1>1
  <2>5. QED
    BY <2>2, <2>3, <2>4
<1>3. ASSUME k <= m, \A i \in 1..k : x[i] = q[i] PROVE t = q
  <2>1. t \in Seq(Org) /\ Len(t) = Len(q) /\ \A i \in 1..Len(t) : t[i] = q[i]
    BY <1>2, <1>3
  <2> HIDE DEF t
  <2>2. QED
    BY <2>1, SeqEqual
<1>4. ASSUME k <= m, t = q PROVE \A i \in 1..k : x[i] = q[i]
  BY <1>2, <1>4
<1>5. QED
  BY <1>3, <1>4 DEF Under

LEMMA AppendMeans ==
  ASSUME NEW x \in Seq(Org), NEW e \in Org, NEW y, y = Append(x, e)
  PROVE  /\ Ends(y, e) /\ Len(y) = Len(x) + 1
         /\ y[Len(x) + 1] = e /\ \A i \in 1..Len(x) : y[i] = x[i]
<1>1. /\ y \in Seq(Org) /\ Len(x) \in Nat /\ Len(y) = Len(x) + 1
      /\ y[Len(x) + 1] = e /\ \A i \in 1..Len(x) : y[i] = x[i]
  OBVIOUS
<1>2. y # <<>>
  BY <1>1
<1>3. QED
  BY <1>1, <1>2 DEF Ends

LEMMA SelfUnder == ASSUME NEW q \in Seq(Org) PROVE Under(q, q)
BY UnderMeans, LenType

\* A child is in the subtree of q if it is its root or its parent is in it.
LEMMA UnderChild ==
  ASSUME NEW x \in Seq(Org), NEW q \in Seq(Org), NEW e \in Org, NEW y, y = Append(x, e), y # q
  PROVE  Under(y, q) <=> Under(x, q)
<1>1. /\ y \in Seq(Org) /\ Len(y) = Len(x) + 1 /\ Len(x) \in Nat /\ Len(q) \in Nat
      /\ \A i \in 1..Len(x) : y[i] = x[i]
  BY AppendMeans, LenType DEF Ends
<1>2. ASSUME Under(y, q) PROVE Under(x, q)
  <2>1. Len(q) <= Len(y) /\ \A i \in 1..Len(q) : y[i] = q[i]
    BY <1>1, <1>2, UnderMeans
  <2>2. Len(q) # Len(y)
    BY <1>1, <2>1, SeqEqual
  <2>3. Len(q) <= Len(x)
    BY <1>1, <2>1, <2>2
  <2>4. \A i \in 1..Len(q) : x[i] = q[i]
    BY <1>1, <2>1, <2>3
  <2>5. QED
    BY <2>3, <2>4, UnderMeans
<1>3. ASSUME Under(x, q) PROVE Under(y, q)
  <2>1. Len(q) <= Len(x) /\ \A i \in 1..Len(q) : x[i] = q[i]
    BY <1>3, UnderMeans
  <2>2. Len(q) <= Len(y) /\ \A i \in 1..Len(q) : y[i] = q[i]
    BY <1>1, <2>1
  <2>3. QED
    BY <1>1, <2>2, UnderMeans
<1>4. QED
  BY <1>2, <1>3

\* new || subpath(path, nlevel(old)), label by label.
Spliced(z, x, q, n) ==
  /\ z \in Seq(Org) /\ Len(z) = Len(n) + (Len(x) - Len(q))
  /\ \A i \in 1..Len(n) : z[i] = n[i]
  /\ \A j \in 1..(Len(x) - Len(q)) : z[Len(n) + j] = x[Len(q) + j]

LEMMA RebaseMeans ==
  ASSUME NEW x \in Seq(Org), NEW q \in Seq(Org), NEW n \in Seq(Org), Len(q) <= Len(x)
  PROVE  Spliced(Rebase(x, q, n), x, q, n)
<1> DEFINE k == Len(q)
           m == Len(x)
           l == Len(n)
           t == SubSeq(x, k + 1, m)
           z == Rebase(x, q, n)
<1>1. k \in Nat /\ m \in Nat /\ l \in Nat /\ k <= m
  BY LenType
<1>2. t \in Seq(Org) /\ Len(t) = m - k /\ \A j \in 1..(m - k) : t[j] = x[k + j]
  <2>1. \A i \in (k + 1)..m : x[i] \in Org
    BY <1>1
  <2> HIDE DEF k, m
  <2>2. k + 1 \in Int /\ m \in Int
    BY <1>1
  <2>3. /\ t \in Seq(Org) /\ Len(t) = (IF k + 1 <= m THEN m - (k + 1) + 1 ELSE 0)
        /\ \A j \in 1..(m - (k + 1) + 1) : t[j] = x[(k + 1) + j - 1]
    BY <2>1, <2>2, SubSeqProperties
  <2>4. m - (k + 1) + 1 = m - k /\ (IF k + 1 <= m THEN m - (k + 1) + 1 ELSE 0) = m - k
    <3>1. CASE k + 1 <= m
      BY <1>1, <3>1
    <3>2. CASE ~(k + 1 <= m)
      BY <1>1, <3>2
    <3>3. QED
      BY <3>1, <3>2
  <2>5. \A j \in 1..(m - k) : (k + 1) + j - 1 = k + j
    BY <1>1
  <2>6. QED
    BY <2>3, <2>4, <2>5
<1>3. z = n \o t
  BY DEF Rebase
<1> HIDE DEF t, k, m, z
<1>4. /\ z \in Seq(Org) /\ Len(z) = Len(n) + Len(t)
       /\ \A i \in 1..(Len(n) + Len(t)) : z[i] = IF i <= Len(n) THEN n[i] ELSE t[i - Len(n)]
  BY <1>2, <1>3, ConcatProperties
<1>5. /\ z \in Seq(Org) /\ Len(z) = l + (m - k)
      /\ \A i \in 1..(l + (m - k)) : z[i] = IF i <= l THEN n[i] ELSE t[i - l]
  BY <1>2, <1>4
<1> HIDE DEF l
<1>6. \A i \in 1..l : i <= l /\ i \in 1..(l + (m - k))
  BY <1>1
<1>7. \A j \in 1..(m - k) : ~(l + j <= l) /\ l + j \in 1..(l + (m - k)) /\ (l + j) - l = j
  BY <1>1
<1>8. \A i \in 1..l : z[i] = n[i]
  BY <1>5, <1>6
<1>9. \A j \in 1..(m - k) : z[l + j] = x[k + j]
  BY <1>2, <1>5, <1>7
<1>10. QED
  BY <1>5, <1>8, <1>9 DEF k, l, m, z, Spliced

LEMMA RebaseSelf ==
  ASSUME NEW q \in Seq(Org), NEW n \in Seq(Org)
  PROVE  Rebase(q, q, n) = n
<1> DEFINE z == Rebase(q, q, n)
<1>1. Len(q) \in Nat /\ Len(n) \in Nat /\ Len(q) - Len(q) = 0 /\ Len(n) + 0 = Len(n)
  BY LenType
<1>2. Spliced(z, q, q, n)
  BY <1>1, RebaseMeans
<1> HIDE DEF z
<1>3. z \in Seq(Org) /\ Len(z) = Len(n) /\ \A i \in 1..Len(n) : z[i] = n[i]
  BY <1>1, <1>2 DEF Spliced
<1>4. z = n
  BY <1>3, SeqEqual
<1>5. QED
  BY <1>4 DEF z

LEMMA RebaseChild ==
  ASSUME NEW x \in Seq(Org), NEW q \in Seq(Org), NEW n \in Seq(Org), NEW e \in Org,
         Under(x, q)
  PROVE  Rebase(Append(x, e), q, n) = Append(Rebase(x, q, n), e)
<1> DEFINE y == Append(x, e)
           u == Rebase(y, q, n)
           z == Rebase(x, q, n)
           w == Append(z, e)
           k == Len(q)
           m == Len(x)
           l == Len(n)
           d == m - k
<1>1. k \in Nat /\ m \in Nat /\ l \in Nat /\ k <= m
  BY LenType, UnderMeans
<1>2. y \in Seq(Org) /\ Len(y) = m + 1 /\ y[m + 1] = e /\ \A i \in 1..m : y[i] = x[i]
  BY AppendMeans DEF Ends
<1> HIDE DEF y
<1>3. Len(q) <= Len(x) /\ Len(q) <= Len(y)
  BY <1>1, <1>2
<1>4. Spliced(z, x, q, n) /\ Spliced(u, y, q, n)
  BY <1>2, <1>3, RebaseMeans
<1> HIDE DEF z, u
<1>5. /\ z \in Seq(Org) /\ Len(z) = l + d /\ \A i \in 1..l : z[i] = n[i]
      /\ \A j \in 1..d : z[l + j] = x[k + j]
  BY <1>4 DEF Spliced
<1>6. /\ u \in Seq(Org) /\ Len(u) = l + (Len(y) - k) /\ \A i \in 1..l : u[i] = n[i]
      /\ \A j \in 1..(Len(y) - k) : u[l + j] = y[k + j]
  BY <1>4 DEF Spliced
<1>7. w \in Seq(Org) /\ Len(w) = Len(z) + 1 /\ w[Len(z) + 1] = e /\ \A i \in 1..Len(z) : w[i] = z[i]
  BY <1>5, AppendMeans DEF Ends
<1> HIDE DEF w
<1> HIDE DEF k, m, l
<1>8. d \in Nat /\ Len(y) - k = d + 1 /\ k + d = m
  BY <1>1, <1>2
<1>9. Len(u) = l + (d + 1) /\ Len(w) = (l + d) + 1 /\ Len(u) = Len(w)
  BY <1>1, <1>5, <1>6, <1>7, <1>8
<1>10. ASSUME NEW i \in 1..Len(u) PROVE u[i] = w[i]
  <2>1. CASE i \in 1..l
    <3>1. i \in 1..Len(z)
      BY <1>1, <1>5, <1>8, <2>1
    <3>2. QED
      BY <2>1, <3>1, <1>5, <1>6, <1>7
  <2>2. CASE i \notin 1..l /\ i # l + (d + 1)
    <3> DEFINE j == i - l
    <3>1. j \in 1..d /\ j \in 1..(d + 1) /\ i = l + j /\ i \in 1..(l + d) /\ k + j \in 1..m
      BY <1>1, <1>8, <1>9, <2>2
    <3> HIDE DEF j
    <3>2. u[i] = y[k + j] /\ y[k + j] = x[k + j] /\ z[i] = x[k + j] /\ w[i] = z[i]
      BY <3>1, <1>2, <1>5, <1>6, <1>7, <1>8
    <3>3. QED
      BY <3>2
  <2>3. CASE i = l + (d + 1)
    <3>1. /\ d + 1 \in 1..(d + 1) /\ k + (d + 1) = m + 1 /\ l + (d + 1) = Len(z) + 1
      BY <1>1, <1>5, <1>8
    <3>2. u[i] = y[k + (d + 1)]
      BY <2>3, <3>1, <1>6, <1>8
    <3>3. QED
      BY <2>3, <3>1, <3>2, <1>2, <1>7
  <2>4. QED
    BY <2>1, <2>2, <2>3
<1>11. u = w
  BY <1>6, <1>7, <1>9, <1>10, SeqEqual
<1>12. QED
  BY <1>11 DEF u, w, y, z

\* What is below the moved organization keeps its own code.
LEMMA RebaseEnds ==
  ASSUME NEW x, NEW o \in Org, NEW q \in Seq(Org), NEW n \in Seq(Org), n # <<>>,
         Ends(x, o), Under(x, q), x # q
  PROVE  Ends(Rebase(x, q, n), o)
<1> DEFINE z == Rebase(x, q, n)
           k == Len(q)
           m == Len(x)
           l == Len(n)
<1>1. x \in Seq(Org) /\ k \in Nat /\ m \in Nat /\ l \in Nat /\ x[m] = o
  BY LenType DEF Ends
<1>2. k <= m /\ \A i \in 1..k : x[i] = q[i]
  BY <1>1, UnderMeans
<1>3. k # m
  BY <1>1, <1>2, SeqEqual
<1>4. Spliced(z, x, q, n)
  BY <1>1, <1>2, RebaseMeans
<1> DEFINE d == m - k
<1> HIDE DEF z
<1>5. z \in Seq(Org) /\ Len(z) = l + d /\ \A j \in 1..d : z[l + j] = x[k + j]
  BY <1>4 DEF Spliced
<1> HIDE DEF k, m, l
<1>6. d \in 1..d /\ k + d = m /\ l + d # 0
  BY <1>1, <1>2, <1>3
<1> HIDE DEF d
<1>7. z[Len(z)] = x[m] /\ Len(z) # 0
  BY <1>5, <1>6
<1>8. z # <<>>
  BY <1>5, <1>7
<1>9. QED
  BY <1>1, <1>5, <1>7, <1>8 DEF Ends, z

-----------------------------------------------------------------------------
\* The tree.

Follows(o) ==
  Live(o) /\ o \notin raced =>
    IF org[o].parent = NoOrg THEN org[o].path = <<o>>
    ELSE /\ Live(org[o].parent)
         /\ org[o].path = Append(org[org[o].parent].path, o)
         /\ ~(o \in Virtual /\ org[o].parent \in Virtual)

\* A path ends in the code of its organization.
Labelled(o) == Live(o) => Ends(org[o].path, o)

\* A ticket belongs to an organization that exists or existed.
Placed(k) ==
  ticket[k].status # "none" =>
    /\ ticket[k].org \in Org /\ org[ticket[k].org].life # "unborn"
    /\ Live(ticket[k].org) /\ ticket[k].org \notin raced
         => ticket[k].path = org[ticket[k].org].path

Childless(o) == \A c \in Org : Live(c) => org[c].parent # o

\* A new place below the parent that a move has locked.
Attached(p) ==
  LET r == req[p] IN
  /\ r.parent \in Org /\ excl[r.parent] = p /\ Live(r.parent)
  /\ r.root = Append(org[r.parent].path, r.o)
  /\ ~Under(org[r.parent].path, r.path)
  /\ ~(r.o \in Virtual /\ r.parent \in Virtual)

\* The rows a move rewrites are rows of the subtree, and the parent of one
\* that has not raced is among them.
Cut(p) ==
  LET r == req[p] IN
  /\ r.o \in r.got
  /\ \A o \in r.got : org[o].life # "unborn" /\ Under(org[o].path, r.path)
  /\ \A o \in r.got : o # r.o /\ Live(o) /\ o \notin raced => org[o].parent \in r.got

\* The tickets a move rewrites are those of the rows it rewrites, the raced
\* ones aside.
Carried(p) ==
  LET r == req[p] IN
  /\ \A k \in r.tickets : ticket[k].status # "none" /\ Under(ticket[k].path, r.path)
  /\ \A k \in Ticket :
       ticket[k].status # "none" /\ ticket[k].org \in r.got /\ ticket[k].org \notin raced
         => k \in r.tickets

\* What a transaction has read under its locks is still so.
Aims(p) ==
  LET r == req[p] IN
  /\ r.pc = "insert" =>
       /\ Ends(r.root, r.o)
       /\ IF r.parent = NoOrg THEN r.root = <<r.o>>
          ELSE ~(r.o \in Virtual /\ r.parent \in Virtual)
  /\ r.pc \in Moving => excl[r.o] = p /\ Live(r.o) /\ r.path = org[r.o].path
  /\ r.pc \in Moving \ {"moveParent"} =>
       IF r.parent = NoOrg THEN r.root = <<r.o>> ELSE Attached(p)
  /\ r.pc \in Updating => Cut(p)
  /\ r.pc = "moveCommit" => Carried(p)
  /\ r.pc = "delWrite" => Childless(r.o)
  /\ r.pc = "share" /\ r.op = "ticket" =>
       /\ r.got \subseteq r.want /\ \A a, b \in r.want : a = b
       /\ \A o \in r.got : r.path = org[o].path

PathInv ==
  /\ \A o \in Org : Follows(o) /\ Labelled(o)
  /\ \A k \in Ticket : Placed(k)
  /\ \A p \in Request : Aims(p)

\* What a step leaves to the transaction that has the advisory lock.
Settled(q) ==
  /\ raced \subseteq raced'
  /\ \A o \in Org : org[o].life # "unborn" =>
       /\ org'[o].path = org[o].path /\ org'[o].parent = org[o].parent
       /\ org'[o].life # "unborn" /\ (Live(o)' => Live(o))
  /\ \A k \in Ticket :
       IF ticket[k].status = "none"
       THEN ticket'[k].status # "none" /\ req[q].pc = "moveCommit" => ticket'[k].org \notin req[q].got
       ELSE /\ ticket'[k].status # "none"
            /\ ticket'[k].org = ticket[k].org /\ ticket'[k].path = ticket[k].path

\* What a step leaves to another transaction.
Apart(q) ==
  /\ req'[q] = req[q]
  /\ \A o \in Org :
       /\ excl[o] = q => excl'[o] = q /\ (Childless(o) => Childless(o)')
       /\ (excl[o] = q \/ q \in share[o]) /\ Live(o) => org'[o] = org[o]
  /\ mover = q => Settled(q)

LEMMA AimsKept ==
  ASSUME IInv, NEW q \in Request, Aims(q), Apart(q)
  PROVE  Aims(q)'
<1> DEFINE r == req[q]
<1>1. r \in ReqState /\ Named(r) /\ Holds(q) /\ req'[q] = r
  BY DEF IInv, TypedLocks, Apart
<1>2. r.pc = "insert" =>
        /\ Ends(r.root, r.o)
        /\ IF r.parent = NoOrg THEN r.root = <<r.o>>
           ELSE ~(r.o \in Virtual /\ r.parent \in Virtual)
  BY DEF Aims
<1>3. ASSUME r.pc \in Moving
      PROVE  excl'[r.o] = q /\ Live(r.o)' /\ r.path = org'[r.o].path
  <2>1. r.o \in Org /\ excl[r.o] = q /\ Live(r.o) /\ r.path = org[r.o].path
    BY <1>1, <1>3 DEF Named, Aims, Moving
  <2>2. QED
    BY <2>1 DEF Apart, Live
<1>4. ASSUME r.pc \in Moving \ {"moveParent"}
      PROVE  (IF r.parent = NoOrg THEN r.root = <<r.o>> ELSE Attached(q))'
  <2>1. CASE r.parent = NoOrg
    BY <1>1, <1>4, <2>1 DEF Aims
  <2>2. CASE r.parent # NoOrg
    <3>1. Attached(q)
      BY <1>4, <2>2 DEF Aims
    <3>2. excl'[r.parent] = q /\ org'[r.parent] = org[r.parent]
      BY <3>1 DEF Attached, Apart
    <3>3. Attached(q)'
      BY <1>1, <3>1, <3>2 DEF Attached, Live
    <3>4. QED
      BY <1>1, <2>2, <3>3
  <2>3. QED
    BY <2>1, <2>2
<1>5. ASSUME r.pc = "delWrite" PROVE Childless(r.o)'
  BY <1>1, <1>5 DEF Named, Holds, Aims, Apart
<1>6. ASSUME r.pc = "share", r.op = "ticket"
      PROVE  /\ r.got \subseteq r.want /\ \A a, b \in r.want : a = b
             /\ \A o \in r.got : r.path = org'[o].path
  <2>1. /\ r.got \subseteq r.want /\ \A a, b \in r.want : a = b
        /\ \A o \in r.got : r.path = org[o].path
    BY <1>6 DEF Aims
  <2>2. \A o \in r.got : o \in Org /\ q \in share[o] /\ Live(o)
    BY <1>1, <1>6 DEF Holds, ReqState
  <2>3. \A o \in r.got : org'[o] = org[o]
    BY <2>2 DEF Apart
  <2>4. QED
    BY <2>1, <2>3
<1>7. ASSUME r.pc \in Updating PROVE Cut(q)'
  <2>1. /\ Settled(q) /\ r.got \subseteq Org
        /\ r.o \in r.got /\ \A o \in r.got : org[o].life # "unborn" /\ Under(org[o].path, r.path)
        /\ \A o \in r.got : o # r.o /\ Live(o) /\ o \notin raced => org[o].parent \in r.got
    BY <1>1, <1>7 DEF Aims, Cut, Holds, Apart, Updating, Moving, ReqState
  <2>2. \A o \in r.got : /\ org'[o].path = org[o].path /\ org'[o].parent = org[o].parent
                         /\ org'[o].life # "unborn" /\ (Live(o)' => Live(o))
    BY <2>1 DEF Settled
  <2>3. raced \subseteq raced'
    BY <2>1 DEF Settled
  <2> HIDE DEF r
  <2>4. QED
    BY <1>1, <2>1, <2>2, <2>3 DEF Cut
<1>8. ASSUME r.pc = "moveCommit" PROVE Carried(q)'
  <2>1. /\ Settled(q) /\ r.tickets \subseteq Ticket
        /\ \A k \in r.tickets : ticket[k].status # "none" /\ Under(ticket[k].path, r.path)
        /\ \A k \in Ticket :
             ticket[k].status # "none" /\ ticket[k].org \in r.got /\ ticket[k].org \notin raced
               => k \in r.tickets
    BY <1>1, <1>8 DEF Aims, Carried, Holds, Apart, Moving, ReqState
  <2>2. ASSUME NEW k \in r.tickets PROVE ticket'[k].status # "none" /\ Under(ticket'[k].path, r.path)
    BY <2>1, <2>2 DEF Settled
  <2>3. ASSUME NEW k \in Ticket, ticket'[k].status # "none", ticket'[k].org \in r.got,
               ticket'[k].org \notin raced'
        PROVE  k \in r.tickets
    BY <1>8, <2>1, <2>3 DEF Settled
  <2> HIDE DEF r
  <2>4. QED
    BY <1>1, <2>2, <2>3 DEF Carried
<1> HIDE DEF r
<1>9. QED
  BY <1>1, <1>2, <1>3, <1>4, <1>5, <1>6, <1>7, <1>8 DEF Aims, r

LEMMA PathStep ==
  ASSUME IInv, PathInv, NEW p \in Request, Aims(p)',
         \A q \in Request \ {p} : Apart(q),
         \A o \in Org : Follows(o)' /\ Labelled(o)', \A k \in Ticket : Placed(k)'
  PROVE  PathInv'
<1>1. ASSUME NEW q \in Request PROVE Aims(q)'
  <2>1. CASE q = p
    BY <2>1
  <2>2. CASE q # p
    BY <2>2, AimsKept DEF PathInv
  <2>3. QED
    BY <2>1, <2>2
<1>2. QED
  BY <1>1 DEF PathInv

\* The tree and the tickets stay as they are.
LEMMA StillStep ==
  ASSUME IInv, PathInv, NEW p \in Request, Aims(p)', UNCHANGED <<org, raced, ticket>>,
         \A q \in Request \ {p} : /\ req'[q] = req[q]
                                  /\ \A o \in Org : excl[o] = q => excl'[o] = q
  PROVE  PathInv'
<1>1. \A q \in Request \ {p} : Apart(q)
  BY DEF Apart, Settled, Childless, Live
<1>2. \A o \in Org : Follows(o)' /\ Labelled(o)'
  BY DEF PathInv, Follows, Labelled, Live
<1>3. \A k \in Ticket : Placed(k)'
  BY DEF PathInv, Placed, Live
<1>4. QED
  BY <1>1, <1>2, <1>3, PathStep

\* A transaction that has ended aims at nothing.
LEMMA EndAims ==
  ASSUME IInv, NEW p \in Request, EndTx(p)
  PROVE  /\ Aims(p)'
         /\ \A q \in Request \ {p} : /\ req'[q] = req[q]
                                     /\ \A o \in Org : excl[o] = q => excl'[o] = q
<1>1. req'[p] = IdleReq
  BY DEF EndTx, IInv, TypedLocks
<1>2. Aims(p)'
  BY <1>1, IdleTypes DEF Aims, Moving, Updating
<1>3. QED
  BY <1>2, EndEffect

LEMMA PathRollback ==
  ASSUME IInv, PathInv, NEW p \in Request, Rollback(p)
  PROVE  PathInv'
BY EndAims, StillStep DEF Rollback, rows

LEMMA PathMembers ==
  ASSUME IInv, PathInv, NEW p \in Request, CommitMembers(p)
  PROVE  PathInv'
BY EndAims, StillStep DEF CommitMembers

\* A request is accepted.
LEMMA PathBegin ==
  ASSUME IInv, PathInv, NEW p \in Request, NEW r, Begin(p, r),
         \/ r.pc \in {"moveLock", "delLock"}
         \/ r.pc = "share" /\ r.got = {} /\ (r.op = "ticket" => \A a, b \in r.want : a = b)
         \/ /\ r.pc = "insert" /\ Ends(r.root, r.o)
            /\ IF r.parent = NoOrg THEN r.root = <<r.o>>
               ELSE ~(r.o \in Virtual /\ r.parent \in Virtual)
  PROVE  PathInv'
<1>1. /\ req'[p] = r /\ \A q \in Request \ {p} : req'[q] = req[q]
      /\ UNCHANGED <<org, raced, ticket, excl>>
  BY DEF Begin, rows, locks, IInv, TypedLocks
<1>2. Aims(p)'
  BY <1>1 DEF Aims, Moving, Updating
<1>3. QED
  BY <1>1, <1>2, StillStep

LEMMA PathArrivals ==
  ASSUME IInv, PathInv, NEW p \in Request, Arrive(p)
  PROVE  PathInv'
<1>1. ASSUME NEW o \in Org, NEW par \in Org \cup {NoOrg}, Create(p, o, par) PROVE PathInv'
  <2> DEFINE z == IF par = NoOrg THEN <<o>> ELSE Append(org[par].path, o)
             r == [CreateRequest(o, par) EXCEPT !.pc = "insert", !.root = z]
  <2>1. Ends(z, o)
    <3>1. CASE par = NoOrg
      <4>1. <<o>> \in Seq(Org) /\ Len(<<o>>) = 1 /\ <<o>>[1] = o /\ <<o>> # <<>>
        OBVIOUS
      <4>2. QED
        BY <3>1, <4>1 DEF Ends
    <3>2. CASE par # NoOrg
      <4>1. org[par].path \in Seq(Org)
        BY <3>2 DEF IInv, TypedRows, OrgRow
      <4>2. Ends(Append(org[par].path, o), o)
        BY <4>1, AppendMeans
      <4>3. QED
        BY <3>2, <4>2
    <3>3. QED
      BY <3>1, <3>2
  <2>2. /\ Begin(p, r) /\ (par = NoOrg => z = <<o>>)
        /\ par # NoOrg => ~(o \in Virtual /\ par \in Virtual)
    BY <1>1 DEF Create
  <2>3. z \in Seq(Org)
    BY <2>1 DEF Ends
  <2> HIDE DEF z
  <2>4. r.pc = "insert" /\ r.o = o /\ r.parent = par /\ r.root = z
    BY <2>3, IdleTypes DEF CreateRequest, ReqState
  <2> HIDE DEF r
  <2>5. QED
    BY <2>1, <2>2, <2>4, PathBegin
<1>2. ASSUME NEW o \in Org, NEW par \in Org \cup {NoOrg}, Move(p, o, par) PROVE PathInv'
  <2> DEFINE r == [MoveRequest(o, par) EXCEPT !.pc = "moveLock"]
  <2>1. Begin(p, r) /\ r.pc = "moveLock"
    BY <1>2, IdleTypes DEF Move, MoveRequest, ReqState
  <2> HIDE DEF r
  <2>2. QED
    BY <2>1, PathBegin
<1>3. ASSUME NEW o \in Org, Delete(p, o) PROVE PathInv'
  <2> DEFINE r == [IdleReq EXCEPT !.op = "delete", !.pc = "delLock", !.o = o]
  <2>1. Begin(p, r) /\ r.pc = "delLock"
    BY <1>3, IdleTypes DEF Delete, ReqState
  <2> HIDE DEF r
  <2>2. QED
    BY <2>1, PathBegin
<1>4. IdleReq.got = {}
  BY DEF IdleReq
<1>5. ASSUME NEW u \in User, NEW o \in Org, AddMember(p, u, o) PROVE PathInv'
  <2> DEFINE r == [IdleReq EXCEPT !.op = "add", !.pc = "share", !.user = u, !.want = {o}]
  <2>1. Begin(p, r) /\ r.pc = "share" /\ r.got = {} /\ r.op = "add"
    BY <1>4, <1>5, IdleTypes DEF AddMember, ReqState
  <2> HIDE DEF r
  <2>2. QED
    BY <2>1, PathBegin
<1>6. ASSUME NEW u \in User, NEW S \in SUBSET Org, SetUserOrgs(p, u, S) PROVE PathInv'
  <2> DEFINE r == [IdleReq EXCEPT !.op = "set", !.pc = "share", !.user = u, !.want = S]
  <2>1. Begin(p, r) /\ r.pc = "share" /\ r.got = {} /\ r.op = "set"
    BY <1>4, <1>6, IdleTypes DEF SetUserOrgs, ReqState
  <2> HIDE DEF r
  <2>2. QED
    BY <2>1, PathBegin
<1>7. ASSUME NEW k \in Ticket, NEW o \in Org, CreateTicket(p, k, o) PROVE PathInv'
  <2> DEFINE r == [IdleReq EXCEPT !.op = "ticket", !.pc = "share", !.ticket = k, !.want = {o}]
  <2>1. Begin(p, r) /\ r.pc = "share" /\ r.got = {} /\ r.want = {o}
    BY <1>4, <1>7, IdleTypes DEF CreateTicket, ReqState
  <2> HIDE DEF r
  <2>2. QED
    BY <2>1, PathBegin
<1>8. QED
  BY <1>1, <1>2, <1>3, <1>5, <1>6, <1>7 DEF Arrive

\* What is below a live organization and has not raced has its parent there.
LEMMA SubtreeClosed ==
  ASSUME IInv, PathInv, NEW a \in Org, Live(a), NEW q, q = org[a].path, NEW G, G = Subtree(q)
  PROVE  /\ a \in G
         /\ \A o \in G : o \in Org /\ org[o].life # "unborn" /\ Under(org[o].path, q)
         /\ \A o \in G : o # a /\ Live(o) /\ o \notin raced => org[o].parent \in G
<1>1. q \in Seq(Org) /\ Ends(q, a) /\ Under(q, q)
  BY SelfUnder DEF PathInv, Labelled, Ends
<1>2. \A o \in Org : o \in G <=> Live(o) /\ Under(org[o].path, q)
  BY DEF Subtree
<1>3. G \subseteq Org
  BY DEF Subtree
<1>4. ASSUME NEW o \in G, o # a, o \notin raced PROVE org[o].parent \in G
  <2>1. o \in Org /\ Live(o) /\ Under(org[o].path, q) /\ Follows(o) /\ Ends(org[o].path, o)
    BY <1>2, <1>3, <1>4 DEF PathInv, Labelled
  <2>2. PICK x \in Seq(Org) : x = org[o].path
    BY <2>1 DEF Ends
  <2>3. x # q
    BY <1>1, <1>4, <2>1, <2>2 DEF Ends
  <2>4. CASE org[o].parent = NoOrg
    <3>1. <<>> \in Seq(Org)
      OBVIOUS
    <3>2. PICK z \in Seq(Org) : z = <<>> /\ Len(z) = 0
      BY <3>1
    <3>3. x = Append(z, o)
      BY <1>4, <2>1, <2>2, <2>4, <3>2 DEF Follows
    <3>4. Under(z, q)
      BY <1>1, <2>1, <2>2, <2>3, <3>3, UnderChild
    <3>5. Len(q) \in Nat /\ Len(q) # 0
      BY <1>1, LenType DEF Ends
    <3>6. QED
      BY <3>2, <3>4, <3>5 DEF Under
  <2>5. CASE org[o].parent # NoOrg
    <3>1. PICK c \in Org : c = org[o].parent
      BY <2>1, <2>5 DEF IInv, TypedRows, OrgRow
    <3>2. Live(c) /\ x = Append(org[c].path, o) /\ org[c].path \in Seq(Org)
      BY <1>4, <2>1, <2>2, <2>5, <3>1 DEF Follows, IInv, TypedRows, OrgRow
    <3>3. Under(org[c].path, q)
      BY <1>1, <2>1, <2>2, <2>3, <3>2, UnderChild
    <3>4. QED
      BY <1>2, <3>1, <3>2, <3>3
  <2>6. QED
    BY <2>4, <2>5
<1>5. QED
  BY <1>1, <1>2, <1>3, <1>4 DEF Live

\* A transaction locks rows nobody else has locked.
LEMMA PathLocking ==
  ASSUME IInv, PathInv, NEW p \in Request,
         MoveLock(p) \/ MoveLockParent(p) \/ MoveLockSubtree(p) \/ DeleteLock(p)
  PROVE  PathInv'
<1> DEFINE r == req[p]
<1>1. /\ TypedRows /\ TypedLocks /\ r \in ReqState /\ Named(r) /\ Aims(p) /\ Holds(p)
      /\ excl \in [Org -> Request \cup {Nobody}] /\ Nobody \notin Request
  BY OrgAssumption DEF IInv, TypedLocks, PathInv
<1>2. CASE Rollback(p)
  BY <1>2, PathRollback
<1>3. CASE MoveLock(p) /\ ~Rollback(p)
  <2> DEFINE c == IF r.parent = NoOrg THEN "moveTree" ELSE "moveParent"
             z == <<r.o>>
             g == [r EXCEPT !.path = org[r.o].path, !.root = z, !.pc = c]
  <2>1. /\ CanUpdate(p, r.o) /\ excl' = [excl EXCEPT ![r.o] = p] /\ r.o \in Org /\ Live(r.o)
        /\ UNCHANGED <<org, raced, ticket>> /\ req' = [req EXCEPT ![p] = g]
    BY <1>1, <1>3 DEF MoveLock, At, Named, rows, TypedLocks
  <2>2. /\ c \in {"moveTree", "moveParent"} /\ (c = "moveTree" => r.parent = NoOrg)
        /\ z \in Seq(Org) /\ org[r.o].path \in Seq(Org)
    BY <1>1, <2>1 DEF TypedRows, OrgRow
  <2>3. z = <<r.o>>
    OBVIOUS
  <2> HIDE DEF c, z
  <2>4. /\ g \in ReqState /\ g.pc = c /\ g.o = r.o /\ g.parent = r.parent
        /\ g.path = org[r.o].path /\ g.root = z
    BY <1>1, <2>2 DEF ReqState, Pc, Moving
  <2> HIDE DEF g
  <2>5. req'[p] = g /\ \A q \in Request \ {p} : req'[q] = req[q]
    BY <1>1, <2>1, <2>4, GotoType
  <2>6. excl'[r.o] = p /\ \A q \in Request \ {p}, o \in Org : excl[o] = q => excl'[o] = q
    BY <1>1, <2>1 DEF CanUpdate
  <2>7. org'[g.o].life = "live" /\ org'[g.o].path = g.path /\ excl'[g.o] = p
    BY <2>1, <2>4, <2>6 DEF Live
  <2>8. Aims(p)'
    BY <2>2, <2>3, <2>4, <2>5, <2>7 DEF Aims, Live, Childless, Moving, Updating
  <2>9. QED
    BY <2>1, <2>5, <2>6, <2>8, StillStep
<1>4. CASE MoveLockParent(p) /\ ~Rollback(p)
  <2> DEFINE z == NewRoot(r.o, r.parent)
             g == [r EXCEPT !.pc = "moveTree", !.root = z]
  <2>1. /\ CanUpdate(p, r.parent) /\ excl' = [excl EXCEPT ![r.parent] = p]
        /\ r.o \in Org /\ r.parent \in Org /\ Live(r.parent) /\ r.pc = "moveParent"
        /\ ~Under(org[r.parent].path, r.path) /\ ~(r.o \in Virtual /\ r.parent \in Virtual)
        /\ UNCHANGED <<org, raced, ticket>> /\ req' = [req EXCEPT ![p] = g]
    BY <1>1, <1>4 DEF MoveLockParent, At, Named, rows, TypedLocks
  <2>2. excl[r.o] = p /\ Live(r.o) /\ r.path = org[r.o].path
    BY <1>1, <2>1 DEF Aims, Moving
  <2>3. z \in Seq(Org) /\ z = Append(org[r.parent].path, r.o)
    <3>1. org[r.parent].path \in Seq(Org)
      BY <1>1, <2>1 DEF TypedRows, OrgRow
    <3>2. QED
      BY <3>1, <2>1 DEF NewRoot
  <2> HIDE DEF z
  <2>4. /\ g \in ReqState /\ g.pc = "moveTree" /\ g.o = r.o /\ g.parent = r.parent
        /\ g.path = r.path /\ g.root = z
    BY <1>1, <2>3 DEF ReqState, Pc, Moving
  <2> HIDE DEF g
  <2>5. req'[p] = g /\ \A q \in Request \ {p} : req'[q] = req[q]
    BY <1>1, <2>1, <2>4, GotoType
  <2>6. /\ excl'[r.parent] = p /\ excl'[r.o] = p
        /\ \A q \in Request \ {p}, o \in Org : excl[o] = q => excl'[o] = q
    BY <1>1, <2>1, <2>2 DEF CanUpdate
  <2>7. Attached(p)'
    BY <2>1, <2>3, <2>4, <2>5, <2>6 DEF Attached, Live
  <2>8. org'[g.o].life = "live" /\ org'[g.o].path = g.path /\ excl'[g.o] = p /\ g.parent # NoOrg
    BY <2>1, <2>2, <2>4, <2>6, OrgAssumption DEF Live
  <2>9. Aims(p)'
    BY <2>4, <2>5, <2>7, <2>8 DEF Aims, Live, Childless, Moving, Updating
  <2>10. QED
    BY <2>1, <2>5, <2>6, <2>9, StillStep
<1>5. CASE MoveLockSubtree(p)
  <2> DEFINE tree == {o \in r.got : Live(o)}
             y == Subtree(r.path)
             g == [r EXCEPT !.got = y, !.pc = "moveTickets"]
  <2>1. /\ \A o \in tree : CanUpdate(p, o)
        /\ excl' = [o \in Org |-> IF o \in tree THEN p ELSE excl[o]]
        /\ r.o \in Org /\ r.pc = "moveOrgs" /\ req' = [req EXCEPT ![p] = g]
        /\ UNCHANGED <<org, raced, ticket>>
    BY <1>1, <1>5 DEF MoveLockSubtree, At, Named, TypedLocks, rows
  <2>2. y \in SUBSET Org /\ y = Subtree(r.path)
    BY DEF Subtree
  <2> HIDE DEF y
  <2>3. /\ g \in ReqState /\ g.pc = "moveTickets" /\ g.o = r.o /\ g.parent = r.parent
        /\ g.path = r.path /\ g.root = r.root /\ g.got = y
    BY <1>1, <2>2 DEF ReqState, Pc, Moving
  <2> HIDE DEF g, tree
  <2>4. req'[p] = g /\ \A q \in Request \ {p} : req'[q] = req[q]
    BY <1>1, <2>1, <2>3, GotoType
  <2>5. /\ excl[r.o] = p /\ Live(r.o) /\ r.path = org[r.o].path
        /\ IF r.parent = NoOrg THEN r.root = <<r.o>> ELSE Attached(p)
    BY <1>1, <2>1 DEF Aims, Moving
  <2>6. \A q \in Request, o \in Org : excl[o] = q => excl'[o] = q
    BY <1>1, <2>1 DEF CanUpdate
  <2>7. excl'[g.o] = p /\ org'[g.o].life = "live" /\ g.path = org'[g.o].path
    BY <2>1, <2>3, <2>5, <2>6 DEF Live
  <2>8. ASSUME r.parent # NoOrg PROVE Attached(p)'
    <3>1. Attached(p)
      BY <2>5, <2>8
    <3>2. QED
      BY <2>1, <2>3, <2>4, <2>6, <3>1 DEF Attached, Live
  <2>9. Cut(p)'
    <3>1. /\ r.o \in y
          /\ \A o \in y : org[o].life # "unborn" /\ Under(org[o].path, r.path)
          /\ \A o \in y : o # r.o /\ Live(o) /\ o \notin raced => org[o].parent \in y
      BY <2>1, <2>5, <2>2, SubtreeClosed
    <3>2. QED
      BY <2>1, <2>3, <2>4, <3>1 DEF Cut, Live
  <2>10. Aims(p)'
    BY <2>3, <2>4, <2>5, <2>7, <2>8, <2>9 DEF Aims, Live, Childless, Moving, Updating
  <2>11. QED
    BY <2>1, <2>4, <2>6, <2>10, StillStep
<1>6. CASE DeleteLock(p) /\ ~Rollback(p)
  <2> DEFINE g == [r EXCEPT !.pc = "delGuard"]
  <2>1. /\ CanUpdate(p, r.o) /\ excl' = [excl EXCEPT ![r.o] = p]
        /\ r.o \in Org /\ req' = [req EXCEPT ![p] = g]
        /\ UNCHANGED <<org, raced, ticket>>
    BY <1>1, <1>6 DEF DeleteLock, At, Named, TypedLocks, rows
  <2>2. g \in ReqState /\ g.pc = "delGuard"
    BY <1>1 DEF ReqState, Pc
  <2> HIDE DEF g
  <2>3. req'[p] = g /\ \A q \in Request \ {p} : req'[q] = req[q]
    BY <1>1, <2>1, <2>2, GotoType
  <2>4. \A q \in Request \ {p}, o \in Org : excl[o] = q => excl'[o] = q
    BY <1>1, <2>1 DEF CanUpdate
  <2>5. Aims(p)'
    BY <2>2, <2>3 DEF Aims, Live, Childless, Moving, Updating
  <2>6. QED
    BY <2>1, <2>3, <2>4, <2>5, StillStep
<1>7. QED
  BY <1>2, <1>3, <1>4, <1>5, <1>6

\* The statements of a move that only read.
LEMMA PathSnapshots ==
  ASSUME IInv, PathInv, NEW p \in Request, MoveSelectSubtree(p) \/ MoveUpdateOrgs(p)
  PROVE  PathInv'
<1> DEFINE r == req[p]
<1>1. /\ TypedLocks /\ r \in ReqState /\ Named(r) /\ Holds(p) /\ Aims(p)
  BY DEF IInv, TypedLocks, PathInv
<1>2. ASSUME NEW g \in ReqState, req' = [req EXCEPT ![p] = g], UNCHANGED <<org, raced, ticket, excl>>,
             r.pc \in Moving \ {"moveParent"}, g.pc \in Moving \ {"moveParent"}, g.o = r.o,
             g.parent = r.parent, g.path = r.path, g.root = r.root,
             g.pc \in Updating => Cut(p)', g.pc = "moveCommit" => Carried(p)'
      PROVE  PathInv'
  <2>1. req'[p] = g /\ \A q \in Request \ {p} : req'[q] = req[q]
    BY <1>1, <1>2, GotoType
  <2>2. /\ excl[r.o] = p /\ Live(r.o) /\ r.path = org[r.o].path
        /\ IF r.parent = NoOrg THEN r.root = <<r.o>> ELSE Attached(p)
    BY <1>1, <1>2 DEF Aims
  <2>3. ASSUME r.parent # NoOrg PROVE Attached(p)'
    BY <1>2, <2>1, <2>2, <2>3 DEF Attached, Live
  <2>4. Aims(p)'
    BY <1>2, <2>1, <2>2, <2>3 DEF Aims, Live, Moving
  <2>5. QED
    BY <1>2, <2>1, <2>4, StillStep
<1>3. CASE MoveSelectSubtree(p)
  <2> DEFINE y == Subtree(r.path)
             g == [r EXCEPT !.got = y, !.pc = "moveOrgs"]
  <2>1. /\ req' = [req EXCEPT ![p] = g] /\ r.pc = "moveTree" /\ UNCHANGED <<org, raced, ticket, excl>>
    BY <1>1, <1>3 DEF MoveSelectSubtree, At, TypedLocks, rows, locks
  <2>2. y \in SUBSET Org
    BY DEF Subtree
  <2> HIDE DEF y
  <2>3. /\ g \in ReqState /\ g.pc = "moveOrgs" /\ g.o = r.o
        /\ g.parent = r.parent /\ g.path = r.path /\ g.root = r.root
    BY <1>1, <2>2 DEF ReqState, Pc, Moving
  <2> HIDE DEF g
  <2>4. QED
    BY <1>2, <2>1, <2>3 DEF Moving, Updating
<1>4. CASE MoveUpdateOrgs(p)
  <2> DEFINE tree == {o \in r.got : Live(o)}
             y == {k \in Ticket : ticket[k].status # "none" /\ Under(ticket[k].path, r.path)}
             g == [r EXCEPT !.got = tree, !.tickets = y, !.pc = "moveCommit"]
  <2>1. /\ req' = [req EXCEPT ![p] = g] /\ r.pc = "moveTickets" /\ UNCHANGED <<org, raced, ticket, excl>>
    BY <1>1, <1>4 DEF MoveUpdateOrgs, At, TypedLocks, rows, locks
  <2>2. /\ tree \in SUBSET Org /\ \A o \in Org : o \in tree <=> o \in r.got /\ Live(o)
        /\ y \in SUBSET Ticket
        /\ \A k \in Ticket : k \in y <=> ticket[k].status # "none" /\ Under(ticket[k].path, r.path)
    BY <1>1 DEF ReqState
  <2> HIDE DEF tree, y
  <2>3. /\ g \in ReqState /\ g.pc = "moveCommit" /\ g.o = r.o /\ g.got = tree /\ g.tickets = y
        /\ g.parent = r.parent /\ g.path = r.path /\ g.root = r.root
    BY <1>1, <2>2 DEF ReqState, Pc, Moving
  <2> HIDE DEF g
  <2>4. req'[p] = g
    BY <1>1, <2>1, <2>3, GotoType
  <2>5. Cut(p) /\ Live(r.o) /\ r.got \subseteq Org
    BY <1>1, <2>1 DEF Aims, Moving, Updating, ReqState
  <2>6. /\ r.o \in tree
        /\ \A o \in tree : org[o].life # "unborn" /\ Under(org[o].path, r.path)
    BY <2>2, <2>5 DEF Cut
  <2>7. ASSUME NEW o \in tree, o # r.o, o \notin raced PROVE org[o].parent \in tree
    <3>1. o \in Org /\ Live(o) /\ org[o].parent \in r.got /\ Follows(o)
      BY <2>2, <2>5, <2>7 DEF Cut, PathInv
    <3>2. Live(org[o].parent)
      BY <2>5, <2>7, <3>1, OrgAssumption DEF Follows
    <3>3. QED
      BY <2>2, <2>5, <3>1, <3>2
  <2>8. Cut(p)'
    BY <2>1, <2>3, <2>4, <2>6, <2>7 DEF Cut, Live
  <2>9. ASSUME NEW k \in Ticket, ticket[k].status # "none", ticket[k].org \in tree,
               ticket[k].org \notin raced
        PROVE  k \in y
    <3>1. Placed(k) /\ Live(ticket[k].org)
      BY <2>2, <2>9 DEF PathInv
    <3>2. ticket[k].path = org[ticket[k].org].path
      BY <2>9, <3>1 DEF Placed
    <3>3. QED
      BY <2>2, <2>6, <2>9, <3>2
  <2>10. Carried(p)'
    BY <2>1, <2>2, <2>3, <2>4, <2>9 DEF Carried
  <2>11. QED
    BY <1>2, <2>1, <2>3, <2>8, <2>10 DEF Moving, Updating
<1>5. QED
  BY <1>3, <1>4

LEMMA PathGuards ==
  ASSUME IInv, PathInv, NEW p \in Request, DeleteGuards(p)
  PROVE  PathInv'
<1> DEFINE r == req[p]
           g == [r EXCEPT !.pc = "delWrite"]
<1>1. CASE Rollback(p)
  BY <1>1, PathRollback
<1>2. CASE ~Rollback(p)
  <2>1. /\ TypedLocks /\ r \in ReqState /\ Empty(r.o) /\ req' = [req EXCEPT ![p] = g]
        /\ UNCHANGED <<org, raced, ticket, excl>>
    BY <1>2 DEF IInv, TypedLocks, DeleteGuards, rows, locks
  <2>2. g \in ReqState /\ g.pc = "delWrite" /\ g.o = r.o
    BY <2>1 DEF ReqState, Pc
  <2> HIDE DEF g
  <2>3. req'[p] = g /\ \A q \in Request \ {p} : req'[q] = req[q]
    BY <2>1, <2>2, GotoType
  <2>4. \A c \in Org : org'[c].life = "live" => org'[c].parent # g.o
    BY <2>1, <2>2 DEF Empty, Childless, Live
  <2>5. Aims(p)'
    BY <2>2, <2>3, <2>4 DEF Aims, Live, Childless, Moving, Updating
  <2>6. QED
    BY <2>1, <2>3, <2>5, StillStep
<1>3. QED
  BY <1>1, <1>2

LEMMA PathSharing ==
  ASSUME IInv, PathInv, NEW p \in Request, LockAliveOrgForShare(p)
  PROVE  PathInv'
<1> DEFINE r == req[p]
<1>1. /\ TypedRows /\ TypedLocks /\ r \in ReqState /\ r.pc = "share" /\ Aims(p)
  BY DEF IInv, TypedLocks, LockAliveOrgForShare, At, PathInv
<1>2. PICK o \in r.want \ r.got :
        /\ CanShare(p, o)
        /\ IF Live(o)
           THEN /\ share' = TakeShare(p, o)
                /\ req' = [req EXCEPT ![p].got = @ \cup {o}, ![p].path = org[o].path]
                /\ UNCHANGED <<rows, excl, mover, ops>>
           ELSE Rollback(p)
  BY DEF LockAliveOrgForShare
<1>3. o \in Org
  BY <1>1, <1>2 DEF ReqState
<1>4. CASE ~Live(o)
  BY <1>2, <1>4, PathRollback
<1>5. CASE Live(o)
  <2> DEFINE g == [r EXCEPT !.got = r.got \cup {o}, !.path = org[o].path]
  <2>1. req' = [req EXCEPT ![p] = g] /\ UNCHANGED <<org, raced, ticket, excl>>
    BY <1>1, <1>2, <1>5 DEF rows, TypedLocks
  <2>2. /\ g \in ReqState /\ g.pc = "share" /\ g.got = r.got \cup {o} /\ g.want = r.want
        /\ g.op = r.op /\ g.path = org[o].path
    BY <1>1, <1>3 DEF ReqState, TypedRows, OrgRow
  <2> HIDE DEF g
  <2>3. req'[p] = g /\ \A q \in Request \ {p} : req'[q] = req[q]
    BY <1>1, <2>1, <2>2, GotoType
  <2>4. ASSUME g.op = "ticket"
        PROVE  /\ g.got \subseteq g.want /\ \A a, b \in g.want : a = b
               /\ \A x \in g.got : g.path = org'[x].path
    <3>1. r.got \subseteq r.want /\ \A a, b \in r.want : a = b
      BY <1>1, <2>2, <2>4 DEF Aims
    <3>2. \A x \in g.got : x = o
      BY <1>2, <2>2, <3>1
    <3>3. QED
      BY <1>2, <2>1, <2>2, <3>1, <3>2
  <2>5. Aims(p)'
    BY <2>2, <2>3, <2>4 DEF Aims, Live, Childless, Moving, Updating
  <2>6. QED
    BY <2>1, <2>3, <2>5, StillStep
<1>6. QED
  BY <1>4, <1>5

-----------------------------------------------------------------------------
\* The commits that write the tree.

\* A new row is a leaf, below a parent nobody has locked for update.
LEMMA PathInsert ==
  ASSUME IInv, PathInv, NEW p \in Request, InsertOrg(p)
  PROVE  PathInv'
<1> DEFINE r == req[p]
<1>1. PICK a \in Org : a = r.o
  BY DEF IInv, InsertOrg, At, Named
<1>2. PICK b \in Org \cup {NoOrg}, n \in Seq(Org) : b = r.parent /\ n = r.root
  BY DEF IInv, TypedLocks, ReqState
<1>3. /\ EndTx(p) /\ UNCHANGED ticket /\ r.pc = "insert" /\ TypedRows
      /\ b # NoOrg => CanRefer(p, b)
  BY <1>2 DEF InsertOrg, At, IInv
<1>4. CASE org[a].life # "unborn"
  BY <1>1, <1>3, <1>4, EndAims, StillStep DEF InsertOrg
<1>5. CASE org[a].life = "unborn"
  <2> DEFINE w == [life |-> "live", parent |-> b, path |-> n]
  <2>1. /\ org' = [org EXCEPT ![a] = w]
        /\ raced' = IF b # NoOrg /\ (~Live(b) \/ n # Append(org[b].path, a))
                    THEN raced \cup {a} ELSE raced
    BY <1>1, <1>2, <1>5 DEF InsertOrg
  <2>2. w.life = "live" /\ w.parent = b /\ w.path = n
    OBVIOUS
  <2> HIDE DEF w
  <2>3. org'[a] = w /\ \A o \in Org \ {a} : org'[o] = org[o]
    BY <1>3, <2>1 DEF TypedRows
  <2>4. Ends(n, a) /\ (b = NoOrg => n = <<a>>) /\ (b # NoOrg => ~(a \in Virtual /\ b \in Virtual))
    BY <1>1, <1>2, <1>3 DEF PathInv, Aims
  <2>5. \A o \in Org : Live(o) => o # a
    BY <1>5 DEF Live
  <2>6. ASSUME NEW o \in Org PROVE Follows(o)'
    <3>1. CASE o = a
      <4>1. ASSUME a \notin raced', b # NoOrg
            PROVE  /\ org'[b].life = "live" /\ n = Append(org'[b].path, a)
        <5>1. b \in Org /\ Live(b) /\ n = Append(org[b].path, a)
          BY <2>1, <4>1
        <5>2. org'[b] = org[b]
          BY <2>3, <2>5, <5>1
        <5>3. QED
          BY <5>1, <5>2 DEF Live
      <4>2. QED
        BY <3>1, <2>2, <2>3, <2>4, <4>1 DEF Follows, Live
    <3>2. CASE o # a
      <4>1. org'[o] = org[o] /\ (o \notin raced' => o \notin raced)
        BY <2>1, <2>3, <3>2
      <4>2. Follows(o) /\ org[o].parent \in Org \cup {NoOrg}
        BY <1>3 DEF PathInv, TypedRows, OrgRow
      <4>3. ASSUME org[o].parent # NoOrg, Live(org[o].parent)
            PROVE  org'[org[o].parent] = org[org[o].parent]
        BY <2>3, <2>5, <4>2, <4>3
      <4>4. QED
        BY <4>1, <4>2, <4>3 DEF Follows, Live
    <3>3. QED
      BY <3>1, <3>2
  <2>7. \A o \in Org : Labelled(o)'
    BY <2>2, <2>3, <2>4 DEF PathInv, Labelled, Live
  <2>8. ASSUME NEW k \in Ticket PROVE Placed(k)'
    <3>1. Placed(k) /\ ticket'[k] = ticket[k]
      BY <1>3 DEF PathInv
    <3>2. ASSUME ticket[k].status # "none" PROVE org'[ticket[k].org] = org[ticket[k].org]
      BY <1>5, <2>3, <3>1, <3>2 DEF Placed
    <3>3. raced \subseteq raced'
      BY <2>1
    <3>4. QED
      BY <3>1, <3>2, <3>3 DEF Placed, Live
  <2>9. ASSUME NEW q \in Request \ {p} PROVE Apart(q)
    <3>1. \A o \in Org : excl[o] = q => o # b
      BY <1>3, <2>9, OrgAssumption DEF CanRefer
    <3>2. ASSUME NEW o \in Org, excl[o] = q, Childless(o) PROVE Childless(o)'
      BY <2>2, <2>3, <3>1, <3>2 DEF Childless, Live
    <3>3. QED
      <4>1. Settled(q)
        BY <1>3, <1>5, <2>1, <2>3 DEF Settled, Live
      <4>2. QED
        BY <1>3, <2>3, <2>5, <3>2, <4>1, EndAims DEF Apart
  <2>10. QED
    BY <1>3, <2>6, <2>7, <2>8, <2>9, EndAims, PathStep
<1>6. QED
  BY <1>4, <1>5

\* A deleted organization has no children left.
LEMMA PathDelete ==
  ASSUME IInv, PathInv, NEW p \in Request, DeleteCommit(p)
  PROVE  PathInv'
<1>1. PICK a \in Org : a = req[p].o
  BY DEF IInv, DeleteCommit, At, Named
<1>2. /\ TypedRows /\ Exclusive /\ excl[a] = p /\ Childless(a) /\ EndTx(p)
      /\ org' = [org EXCEPT ![a].life = "deleted"] /\ UNCHANGED <<ticket, raced>>
  BY <1>1 DEF IInv, DeleteCommit, At, Holds, PathInv, Aims
<1>3. /\ \A o \in Org : org'[o].path = org[o].path /\ org'[o].parent = org[o].parent
      /\ org'[a].life = "deleted" /\ \A o \in Org \ {a} : org'[o] = org[o]
  BY <1>2 DEF TypedRows, OrgRow
<1>4. ASSUME NEW o \in Org, Live(o)' PROVE Live(o) /\ org[o].parent # a
  BY <1>2, <1>3, <1>4 DEF Live, Childless
<1>5. ASSUME NEW o \in Org PROVE Follows(o)'
  <2>1. Follows(o) /\ org[o].parent \in Org \cup {NoOrg} /\ org'[o].parent = org[o].parent
    BY <1>2, <1>3 DEF PathInv, TypedRows, OrgRow
  <2>2. ASSUME Live(o)', org[o].parent # NoOrg PROVE org'[org[o].parent] = org[org[o].parent]
    BY <1>3, <1>4, <2>1, <2>2
  <2>3. QED
    BY <1>2, <1>3, <1>4, <2>1, <2>2 DEF Follows, Live
<1>6. \A o \in Org : Labelled(o)'
  BY <1>3, <1>4 DEF PathInv, Labelled
<1>7. ASSUME NEW k \in Ticket PROVE Placed(k)'
  BY <1>2, <1>3 DEF PathInv, Placed, Live
<1>8. ASSUME NEW q \in Request \ {p} PROVE Apart(q)
  <2>1. excl[a] # q /\ q \notin share[a]
    BY <1>2, <1>8, OrgAssumption DEF Exclusive
  <2>2. \A o \in Org : Childless(o) => Childless(o)'
    BY <1>3, <1>4 DEF Childless
  <2>3. Settled(q)
    BY <1>2, <1>3, <1>4 DEF Settled
  <2>4. QED
    BY <1>2, <1>3, <2>1, <2>2, <2>3, EndAims DEF Apart
<1>9. QED
  BY <1>2, <1>5, <1>6, <1>7, <1>8, EndAims, PathStep

\* A new ticket carries the path of an organization that is held shared.
LEMMA PathTicket ==
  ASSUME IInv, PathInv, NEW p \in Request, CommitTicket(p)
  PROVE  PathInv'
<1> DEFINE r == req[p]
<1>1. /\ TypedRows /\ r.pc = "share" /\ r.op = "ticket" /\ r.got = r.want
      /\ EndTx(p) /\ UNCHANGED <<org, raced>> /\ Aims(p) /\ Holds(p)
  BY DEF IInv, CommitTicket, At, PathInv
<1>2. CASE UNCHANGED ticket
  BY <1>1, <1>2, EndAims, StillStep
<1>3. CASE /\ ticket[r.ticket].status = "none"
           /\ \E o \in r.want :
             ticket' = [ticket EXCEPT ![r.ticket] = [status |-> "open", org |-> o, path |-> r.path]]
  <2>1. PICK o \in r.want :
          ticket' = [ticket EXCEPT ![r.ticket] = [status |-> "open", org |-> o, path |-> r.path]]
    BY <1>3
  <2> DEFINE w == [status |-> "open", org |-> o, path |-> r.path]
  <2>2. o \in Org /\ Live(o) /\ r.path = org[o].path /\ p \in share[o]
    BY <1>1, SharedStays DEF Aims, Holds
  <2>3. w.org = o /\ w.path = org[o].path
    BY <2>2
  <2>4. ticket' = [ticket EXCEPT ![r.ticket] = w]
    BY <2>1
  <2> HIDE DEF w
  <2>5. ASSUME NEW k \in Ticket PROVE Placed(k)'
    <3>1. ticket'[k] = ticket[k] \/ ticket'[k] = w
      BY <1>1, <2>4 DEF TypedRows
    <3>2. QED
      BY <1>1, <2>2, <2>3, <3>1 DEF PathInv, Placed, Live
  <2>6. \A x \in Org : Follows(x)' /\ Labelled(x)'
    BY <1>1 DEF PathInv, Follows, Labelled, Live
  <2>7. ASSUME NEW q \in Request \ {p} PROVE Apart(q)
    <3>1. req[q].pc = "moveCommit" => o \notin req[q].got
      BY <2>2, <2>7 DEF IInv, Holds, Sealed
    <3>2. \A k \in Ticket : ticket'[k] = ticket[k] \/ (ticket[k].status = "none" /\ ticket'[k] = w)
      BY <1>1, <1>3, <2>4 DEF TypedRows
    <3>3. Settled(q)
      BY <1>1, <2>3, <3>1, <3>2 DEF Settled, Live
    <3>4. QED
      BY <1>1, <3>3, EndAims DEF Apart, Childless, Live
  <2>8. QED
    BY <1>1, <2>5, <2>6, <2>7, EndAims, PathStep
<1>4. QED
  BY <1>2, <1>3 DEF CommitTicket

\* A step outside the transactions moves no ticket.
LEMMA PathOutside ==
  ASSUME IInv, PathInv, UNCHANGED <<org, raced, req, excl>>,
         \A k \in Ticket : /\ ticket'[k].org = ticket[k].org /\ ticket'[k].path = ticket[k].path
                           /\ ticket[k].status = "none" <=> ticket'[k].status = "none"
  PROVE  PathInv'
<1>1. \A q \in Request : Aims(q)'
  BY AimsKept DEF PathInv, Apart, Settled, Childless, Live
<1>2. \A o \in Org : Follows(o)' /\ Labelled(o)'
  BY DEF PathInv, Follows, Labelled, Live
<1>3. \A k \in Ticket : Placed(k)'
  BY DEF PathInv, Placed, Live
<1>4. QED
  BY <1>1, <1>2, <1>3 DEF PathInv

LEMMA PathOutsideSteps ==
  ASSUME IInv, PathInv, \/ \E k \in Ticket : CloseTicket(k)
                        \/ \E o \in Org, u \in User : RemoveMember(o, u)
                        \/ \E o \in Org, S \in SUBSET User : SetOwners(o, S)
                        \/ \E u \in User : DeleteUser(u)
  PROVE  PathInv'
<1>1. ASSUME NEW k \in Ticket, CloseTicket(k) PROVE PathInv'
  <2>1. /\ ticket[k].status = "open" /\ ticket' = [ticket EXCEPT ![k].status = "closed"]
        /\ UNCHANGED <<org, raced, req, excl>> /\ TypedRows
    BY <1>1 DEF CloseTicket, locks, IInv
  <2>2. \A j \in Ticket : /\ ticket'[j].org = ticket[j].org /\ ticket'[j].path = ticket[j].path
                          /\ ticket[j].status = "none" <=> ticket'[j].status = "none"
    BY <2>1 DEF TypedRows, TicketRow
  <2>3. QED
    BY <2>1, <2>2, PathOutside
<1>2. ASSUME NEW o \in Org, NEW u \in User, RemoveMember(o, u) PROVE PathInv'
  BY <1>2, PathOutside DEF RemoveMember, locks
<1>3. ASSUME NEW o \in Org, NEW S \in SUBSET User, SetOwners(o, S) PROVE PathInv'
  BY <1>3, PathOutside DEF SetOwners, locks
<1>4. ASSUME NEW u \in User, DeleteUser(u) PROVE PathInv'
  BY <1>4, PathOutside DEF DeleteUser, locks
<1>5. QED
  BY <1>1, <1>2, <1>3, <1>4

\* What the commit of a move does, with the request's fields named: G and W
\* are the rows and the tickets it rewrites.
Cascade(p, a, q, n, b, G, W) ==
  /\ \A o \in Org :
       org'[o] = IF o \in G
                 THEN [org[o] EXCEPT !.path = Rebase(org[o].path, q, n),
                                     !.parent = IF o = a THEN b ELSE org[o].parent]
                 ELSE org[o]
  /\ \A k \in Ticket :
       ticket'[k] = IF k \in W THEN [ticket[k] EXCEPT !.path = Rebase(ticket[k].path, q, n)]
                    ELSE ticket[k]
  /\ raced' = raced \cup (Subtree(q) \ G)
  /\ Live(a) /\ q = org[a].path /\ a \in G
  /\ \A o \in G : o \in Org /\ Live(o) /\ Sealed(p, o) /\ Under(org[o].path, q)
  /\ \A o \in G : o # a /\ o \notin raced => org[o].parent \in G
  /\ \A k \in W : ticket[k].status # "none" /\ Under(ticket[k].path, q)
  /\ \A k \in Ticket :
       ticket[k].status # "none" /\ ticket[k].org \in G /\ ticket[k].org \notin raced => k \in W
  /\ IF b = NoOrg THEN n = <<a>>
     ELSE /\ b \in Org /\ excl[b] = p /\ Live(b) /\ n = Append(org[b].path, a)
          /\ ~Under(org[b].path, q) /\ ~(a \in Virtual /\ b \in Virtual)

LEMMA MoveCascades ==
  ASSUME IInv, PathInv, NEW p \in Request, MoveCommit(p)
  PROVE  /\ EndTx(p) /\ mover = p
         /\ \E a \in Org, q \in Seq(Org), n \in Seq(Org), b \in Org \cup {NoOrg},
               G \in SUBSET Org, W \in SUBSET Ticket : Cascade(p, a, q, n, b, G, W)
<1> DEFINE r == req[p]
<1>1. /\ r \in ReqState /\ r.o \in Org /\ r.pc = "moveCommit" /\ Aims(p) /\ Holds(p) /\ EndTx(p)
  BY DEF IInv, TypedLocks, MoveCommit, At, Named, PathInv
<1>2. PICK a \in Org, q \in Seq(Org), n \in Seq(Org), b \in Org \cup {NoOrg} :
        a = r.o /\ q = r.path /\ n = r.root /\ b = r.parent
  BY <1>1 DEF ReqState
<1>3. PICK G \in SUBSET Org, W \in SUBSET Ticket : G = r.got /\ W = r.tickets
  BY <1>1 DEF ReqState
<1>4. /\ Live(a) /\ q = org[a].path
      /\ IF b = NoOrg THEN n = <<a>>
         ELSE /\ b \in Org /\ excl[b] = p /\ Live(b) /\ n = Append(org[b].path, a)
              /\ ~Under(org[b].path, q) /\ ~(a \in Virtual /\ b \in Virtual)
  BY <1>1, <1>2 DEF Aims, Attached, Moving
<1>5. Cut(p) /\ Carried(p) /\ mover = p /\ \A o \in G : Live(o) /\ Sealed(p, o)
  BY <1>1, <1>3 DEF Aims, Holds, Moving, Updating
<1>6. /\ a \in G /\ \A o \in G : Under(org[o].path, q)
      /\ \A o \in G : o # a /\ o \notin raced => org[o].parent \in G
  BY <1>2, <1>3, <1>5 DEF Cut
<1>7. /\ \A k \in W : ticket[k].status # "none" /\ Under(ticket[k].path, q)
      /\ \A k \in Ticket :
           ticket[k].status # "none" /\ ticket[k].org \in G /\ ticket[k].org \notin raced => k \in W
  BY <1>2, <1>3, <1>5 DEF Carried
<1>8. /\ org' = [o \in Org |->
           IF o \in G
           THEN [org[o] EXCEPT !.path = Rebase(org[o].path, q, n),
                               !.parent = IF o = a THEN b ELSE org[o].parent]
           ELSE org[o]]
      /\ ticket' = [k \in Ticket |->
           IF k \in W THEN [ticket[k] EXCEPT !.path = Rebase(ticket[k].path, q, n)]
           ELSE ticket[k]]
      /\ raced' = raced \cup (Subtree(q) \ G)
  BY <1>2, <1>3 DEF MoveCommit
<1>9. Cascade(p, a, q, n, b, G, W)
  BY <1>4, <1>5, <1>6, <1>7, <1>8 DEF Cascade
<1>10. QED
  BY <1>1, <1>5, <1>9

\* Row by row.
LEMMA CascadeRows ==
  ASSUME IInv, NEW p \in Request, NEW a \in Org, NEW q \in Seq(Org), NEW n \in Seq(Org),
         NEW b \in Org \cup {NoOrg}, NEW G, NEW W,
         Cascade(p, a, q, n, b, G, W), NEW o \in Org
  PROVE  /\ org'[o].life = org[o].life
         /\ o # a => org'[o].parent = org[o].parent
         /\ o \in G => org'[o].path = Rebase(org[o].path, q, n)
         /\ o \notin G => org'[o] = org[o]
         /\ o = a => org'[o].parent = b /\ org'[o].path = n
<1>1. org[o] \in OrgRow /\ org[o].path \in Seq(Org)
  BY DEF IInv, TypedRows, OrgRow
<1> DEFINE z == Rebase(org[o].path, q, n)
           y == IF o = a THEN b ELSE org[o].parent
<1>2. CASE o \in G
  <2>1. org'[o] = [org[o] EXCEPT !.path = z, !.parent = y]
    BY <1>2 DEF Cascade
  <2>2. o = a => z = n
    BY RebaseSelf DEF Cascade
  <2>3. (o = a => y = b) /\ (o # a => y = org[o].parent)
    OBVIOUS
  <2> HIDE DEF z, y
  <2>4. org'[o].life = org[o].life /\ org'[o].path = z /\ org'[o].parent = y
    BY <1>1, <2>1 DEF OrgRow
  <2>5. QED
    BY <1>2, <2>2, <2>3, <2>4 DEF z
<1>3. CASE o \notin G
  BY <1>3 DEF Cascade
<1>4. QED
  BY <1>2, <1>3

\* All the rows at once.
LEMMA CascadeTree ==
  ASSUME IInv, NEW p \in Request, NEW a \in Org, NEW q \in Seq(Org), NEW n \in Seq(Org),
         NEW b \in Org \cup {NoOrg}, NEW G, NEW W,
         Cascade(p, a, q, n, b, G, W)
  PROVE  /\ \A o \in Org : org'[o].life = org[o].life
         /\ \A o \in Org : o \notin G => org'[o] = org[o]
         /\ \A o \in Org : ~Under(org[o].path, q) => o \notin G
         /\ \A o \in Org : Live(o) /\ o \notin raced' /\ o \notin G => ~Under(org[o].path, q)
         /\ \A o \in Org : o # a => org'[o].parent = org[o].parent
         /\ \A o \in G : org'[o].path = Rebase(org[o].path, q, n)
         /\ org'[a].parent = b /\ org'[a].path = n
         /\ raced \subseteq raced' /\ (b # NoOrg => excl[b] = p)
<1>1. \A o \in Org : org'[o].life = org[o].life
  BY CascadeRows
<1>2. \A o \in Org : o \notin G => org'[o] = org[o]
  BY CascadeRows
<1>3. \A o \in Org : ~Under(org[o].path, q) => o \notin G
  BY DEF Cascade
<1>4. \A o \in Org : Live(o) /\ o \notin raced' /\ o \notin G => ~Under(org[o].path, q)
  BY DEF Cascade, Subtree
<1>5. raced \subseteq raced' /\ (b # NoOrg => excl[b] = p)
  BY DEF Cascade
<1>6. \A o \in Org : /\ o # a => org'[o].parent = org[o].parent
                     /\ o \in G => org'[o].path = Rebase(org[o].path, q, n)
                     /\ o = a => org'[o].parent = b /\ org'[o].path = n
  BY CascadeRows
<1>7. G \subseteq Org
  BY DEF Cascade
<1>8. QED
  BY <1>1, <1>2, <1>3, <1>4, <1>5, <1>6, <1>7

\* The moved organization gets its new place, the rest of the subtree
\* follows it unless it has raced, and what is outside has its parent outside.
LEMMA CascadeFollows ==
  ASSUME IInv, PathInv, NEW p \in Request, NEW a \in Org, NEW q \in Seq(Org),
         NEW n \in Seq(Org), NEW b \in Org \cup {NoOrg}, NEW G,
         NEW W, Cascade(p, a, q, n, b, G, W), NEW o \in Org
  PROVE  Follows(o)'
<1>1. G \subseteq Org
  BY DEF Cascade
<1>2. /\ \A x \in Org : org'[x].life = org[x].life
      /\ \A x \in Org : x \notin G => org'[x] = org[x]
      /\ \A x \in Org : ~Under(org[x].path, q) => x \notin G
      /\ \A x \in Org : Live(x) /\ x \notin raced' /\ x \notin G => ~Under(org[x].path, q)
      /\ \A x \in Org : x # a => org'[x].parent = org[x].parent
      /\ \A x \in G : org'[x].path = Rebase(org[x].path, q, n)
      /\ org'[a].parent = b /\ org'[a].path = n
      /\ raced \subseteq raced' /\ (b # NoOrg => excl[b] = p)
  BY CascadeTree
<1>3. Live(a) /\ q = org[a].path /\ Ends(q, a)
  BY DEF Cascade, PathInv, Labelled
<1>4. CASE o = a
  <2>1. org'[a].parent = b /\ org'[a].path = n
    BY <1>2
  <2>2. ASSUME b # NoOrg
        PROVE  /\ org'[b].life = "live" /\ n = Append(org'[b].path, a)
               /\ ~(a \in Virtual /\ b \in Virtual)
    <3>1. /\ b \in Org /\ Live(b) /\ n = Append(org[b].path, a)
          /\ ~Under(org[b].path, q) /\ ~(a \in Virtual /\ b \in Virtual)
      BY <2>2 DEF Cascade
    <3>2. org'[b] = org[b]
      BY <3>1, <1>2
    <3>3. QED
      BY <3>1, <3>2 DEF Live
  <2>3. b = NoOrg => n = <<a>>
    BY DEF Cascade
  <2>4. QED
    BY <1>4, <2>1, <2>2, <2>3 DEF Follows, Live
<1>5. CASE o # a
  <2> SUFFICES ASSUME Live(o)', o \notin raced' PROVE Follows(o)'
    BY DEF Follows
  <2>1. Live(o) /\ o \notin raced /\ Follows(o)
    BY <1>2 DEF Live, PathInv
  <2>2. PICK c \in Org \cup {NoOrg} : c = org[o].parent
    BY DEF IInv, TypedRows, OrgRow
  <2>3. PICK x \in Seq(Org) : x = org[o].path
    BY DEF IInv, TypedRows, OrgRow
  <2>4. org'[o].parent = c
    BY <1>5, <2>2, <1>2
  <2>5. CASE o \in G
    <3>1. c \in G
      BY <1>5, <2>1, <2>2, <2>5 DEF Cascade
    <3>2. c \in Org /\ c # NoOrg /\ Live(c) /\ Under(org[c].path, q)
      BY <3>1, OrgAssumption DEF Cascade
    <3>3. /\ c \in Org /\ c # NoOrg /\ Live(c) /\ Under(org[c].path, q)
          /\ x = Append(org[c].path, o) /\ ~(o \in Virtual /\ c \in Virtual)
      BY <2>1, <2>2, <2>3, <3>2 DEF Follows
    <3>4. PICK u \in Seq(Org) : u = org[c].path
      BY <3>3 DEF IInv, TypedRows, OrgRow
    <3>5. org'[o].path = Rebase(x, q, n) /\ org'[c].path = Rebase(u, q, n)
      BY <2>3, <2>5, <3>1, <3>3, <3>4, <1>2
    <3>6. Rebase(x, q, n) = Append(Rebase(u, q, n), o)
      BY <3>3, <3>4, RebaseChild
    <3>7. org'[c].life = "live"
      BY <3>3, <1>2 DEF Live
    <3>8. QED
      BY <2>4, <3>3, <3>5, <3>6, <3>7 DEF Follows, Live
  <2>6. CASE o \notin G /\ c = NoOrg
    <3>1. org'[o] = org[o]
      BY <2>6, <1>2
    <3>2. QED
      BY <2>1, <2>2, <2>6, <3>1 DEF Follows
  <2>7. CASE o \notin G /\ c # NoOrg
    <3>1. /\ c \in Org /\ Live(c) /\ x = Append(org[c].path, o)
          /\ ~(o \in Virtual /\ c \in Virtual)
      BY <2>1, <2>2, <2>3, <2>7 DEF Follows
    <3>2. PICK u \in Seq(Org) : u = org[c].path
      BY <3>1 DEF IInv, TypedRows, OrgRow
    <3>3. x # q
      BY <1>3, <1>5, <2>1, <2>3 DEF PathInv, Labelled, Ends
    <3>4. ~Under(x, q)
      BY <2>1, <2>3, <2>7, <1>2
    <3>5. ~Under(u, q)
      BY <2>3, <3>1, <3>2, <3>3, <3>4, UnderChild
    <3>6. org'[o] = org[o] /\ org'[c] = org[c]
      BY <2>7, <3>1, <3>2, <3>5, <1>2
    <3>7. QED
      BY <2>2, <2>3, <2>7, <3>1, <3>6 DEF Follows, Live
  <2>8. QED
    BY <2>5, <2>6, <2>7
<1>6. QED
  BY <1>4, <1>5

LEMMA PathMove ==
  ASSUME IInv, PathInv, NEW p \in Request, MoveCommit(p)
  PROVE  PathInv'
<1>1. PICK a \in Org, q \in Seq(Org), n \in Seq(Org), b \in Org \cup {NoOrg},
           G \in SUBSET Org, W \in SUBSET Ticket : Cascade(p, a, q, n, b, G, W)
  BY MoveCascades
<1>2. G \subseteq Org
  BY <1>1 DEF Cascade
<1>3. /\ \A x \in Org : org'[x].life = org[x].life
      /\ \A x \in Org : x \notin G => org'[x] = org[x]
      /\ \A x \in Org : ~Under(org[x].path, q) => x \notin G
      /\ \A x \in Org : Live(x) /\ x \notin raced' /\ x \notin G => ~Under(org[x].path, q)
      /\ \A x \in Org : x # a => org'[x].parent = org[x].parent
      /\ \A x \in G : org'[x].path = Rebase(org[x].path, q, n)
      /\ org'[a].parent = b /\ org'[a].path = n
      /\ raced \subseteq raced' /\ (b # NoOrg => excl[b] = p)
  BY <1>1, CascadeTree
<1>4. EndTx(p) /\ mover = p /\ Live(a) /\ q = org[a].path /\ Ends(q, a)
  BY <1>1, MoveCascades DEF Cascade, PathInv, Labelled
<1>5. Ends(n, a)
  <2>1. CASE b = NoOrg
    <3>1. <<a>> \in Seq(Org) /\ Len(<<a>>) = 1 /\ <<a>>[1] = a /\ <<a>> # <<>>
      OBVIOUS
    <3>2. n = <<a>>
      BY <1>1, <2>1 DEF Cascade
    <3>3. QED
      BY <3>1, <3>2 DEF Ends
  <2>2. CASE b # NoOrg
    <3>1. b \in Org /\ n = Append(org[b].path, a) /\ org[b].path \in Seq(Org)
      BY <1>1, <2>2 DEF Cascade, IInv, TypedRows, OrgRow
    <3>2. QED
      BY <3>1, AppendMeans
  <2>3. QED
    BY <2>1, <2>2
<1>6. ASSUME NEW o \in Org PROVE Labelled(o)'
  <2> SUFFICES ASSUME Live(o)' PROVE Ends(org'[o].path, o)
    BY DEF Labelled
  <2>1. Live(o) /\ Ends(org[o].path, o)
    BY <1>1, <1>3 DEF Live, PathInv, Labelled
  <2>2. CASE o = a
    BY <1>1, <1>5, <2>2, <1>3
  <2>3. CASE o # a /\ o \in G
    <3>1. /\ org'[o].path = Rebase(org[o].path, q, n) /\ org[o].path # q
          /\ Under(org[o].path, q)
      BY <1>1, <1>4, <2>1, <2>3, <1>3 DEF Ends, Cascade
    <3>2. Ends(Rebase(org[o].path, q, n), o)
      BY <1>5, <2>1, <3>1, RebaseEnds DEF Ends
    <3>3. QED
      BY <3>1, <3>2
  <2>4. CASE o \notin G
    BY <1>1, <2>1, <2>4, <1>3
  <2>5. QED
    BY <2>2, <2>3, <2>4
<1>7. ASSUME NEW k \in Ticket PROVE Placed(k)'
  <2>1. /\ ticket[k] \in TicketRow /\ ticket[k].path \in Seq(Org) /\ Placed(k)
    BY DEF IInv, TypedRows, TicketRow, PathInv
  <2> DEFINE z == Rebase(ticket[k].path, q, n)
  <2>2. ticket'[k] = IF k \in W THEN [ticket[k] EXCEPT !.path = z] ELSE ticket[k]
    BY <1>1 DEF Cascade
  <2> HIDE DEF z
  <2>3. /\ ticket'[k].status = ticket[k].status /\ ticket'[k].org = ticket[k].org
        /\ ticket'[k].path = IF k \in W THEN z ELSE ticket[k].path
    BY <2>1, <2>2 DEF TicketRow
  <2>4. ASSUME ticket[k].status # "none", org'[ticket[k].org].life = "live",
               ticket[k].org \notin raced'
        PROVE  ticket'[k].path = org'[ticket[k].org].path
    <3>1. PICK o \in Org : o = ticket[k].org
      BY <2>1, <2>4 DEF Placed
    <3>2. Live(o) /\ o \notin raced
      BY <1>1, <2>4, <3>1, <1>3 DEF Live
    <3>3. ticket[k].path = org[o].path
      BY <2>1, <2>4, <3>1, <3>2 DEF Placed
    <3>4. CASE o \in G
      <4>1. k \in W
        BY <1>1, <2>4, <3>1, <3>2, <3>4 DEF Cascade
      <4>2. QED
        BY <1>1, <2>3, <3>1, <3>3, <3>4, <4>1, <1>3 DEF z
    <3>5. CASE o \notin G
      <4>1. ~Under(org[o].path, q)
        BY <1>1, <2>4, <3>1, <3>2, <3>5, <1>3
      <4>2. k \notin W
        BY <1>1, <3>3, <4>1 DEF Cascade
      <4>3. QED
        BY <1>1, <2>3, <3>1, <3>3, <3>5, <4>2, <1>3
    <3>6. QED
      BY <3>4, <3>5
  <2>5. ticket[k].status # "none" =>
          ticket[k].org \in Org /\ org'[ticket[k].org].life # "unborn"
    BY <1>1, <2>1, <1>3 DEF Placed
  <2>6. QED
    BY <2>3, <2>4, <2>5 DEF Placed, Live
<1>8. ASSUME NEW x \in Request \ {p} PROVE Apart(x)
  <2>1. ASSUME NEW o \in Org, excl[o] = x, Childless(o) PROVE Childless(o)'
    <3>1. b # o
      BY <1>1, <1>8, <2>1, <1>3, OrgAssumption
    <3>2. QED
      BY <1>1, <2>1, <3>1, <1>3 DEF Childless, Live
  <2>2. ASSUME NEW o \in Org, excl[o] = x \/ x \in share[o] PROVE org'[o] = org[o]
    <3>1. o \notin G
      BY <1>1, <1>8, <2>2, OrgAssumption DEF Cascade, Sealed
    <3>2. QED
      BY <1>1, <3>1, <1>3
  <2>3. QED
    BY <1>4, <1>8, <2>1, <2>2, EndAims DEF Apart
<1>9. \A o \in Org : Follows(o)'
  BY <1>1, CascadeFollows
<1>10. QED
  BY <1>4, <1>6, <1>7, <1>8, <1>9, EndAims, PathStep

-----------------------------------------------------------------------------
LEMMA PathSteps == ASSUME IInv, PathInv, Next PROVE PathInv'
<1>1. ASSUME NEW p \in Request, Arrive(p) PROVE PathInv'
  BY <1>1, PathArrivals
<1>2. ASSUME NEW p \in Request, Step(p) PROVE PathInv'
  BY <1>2, PathInsert, PathLocking, PathSnapshots, PathMove, PathGuards, PathDelete, PathSharing,
     PathMembers, PathTicket, PathRollback DEF Step, Abort
<1>3. QED
  BY <1>1, <1>2, PathOutsideSteps DEF Next

LEMMA PathStarts == ASSUME Init PROVE PathInv
<1>1. \A p \in Request : Aims(p)
  BY IdleTypes DEF Init, Aims, Moving, Updating
<1>2. \A k \in Ticket : Placed(k)
  BY DEF Init, Placed, NoTicket
<1>3. ASSUME NEW o \in Org PROVE Follows(o) /\ Labelled(o)
  <2>1. PICK q \in Seq(Org) : q = SeedPath[o]
    BY OrgAssumption
  <2>2. /\ org[o].life = IF q = <<>> THEN "unborn" ELSE "live"
        /\ org[o].parent = IF Len(q) > 1 THEN q[Len(q) - 1] ELSE NoOrg
        /\ org[o].path = q
    BY <2>1 DEF Init
  <2>3. CASE q = <<>>
    BY <2>2, <2>3 DEF Follows, Labelled, Live
  <2>4. CASE q # <<>>
    <3>1. Ends(q, o)
      BY <2>1, <2>4, OrgAssumption DEF Ends
    <3>2. CASE Len(q) > 1
      <4> DEFINE m == Len(q) - 1
                 c == q[m]
                 t == SubSeq(q, 1, m)
      <4>1. m \in Nat /\ m >= 1 /\ Len(q) = m + 1 /\ c \in Org /\ c # NoOrg
        <5>1. Len(q) \in Nat
          BY LenType
        <5>2. m \in 1..Len(q) /\ m \in Nat /\ m >= 1 /\ Len(q) = m + 1
          BY <3>2, <5>1
        <5>3. QED
          BY <5>2, OrgAssumption
      <4>2. SeedPath[c] = t /\ ~(o \in Virtual /\ c \in Virtual)
        BY <2>1, <2>4, <3>2, OrgAssumption
      <4>3. t \in Seq(Org) /\ Len(t) = m /\ \A i \in 1..m : t[i] = q[i]
        <5>1. \A i \in 1..m : q[i] \in Org
          BY <4>1
        <5> HIDE DEF m
        <5>2. /\ t \in Seq(Org) /\ Len(t) = (IF 1 <= m THEN m - 1 + 1 ELSE 0)
              /\ \A i \in 1..(m - 1 + 1) : t[i] = q[1 + i - 1]
          BY <4>1, <5>1, SubSeqProperties
        <5>3. m - 1 + 1 = m /\ (IF 1 <= m THEN m - 1 + 1 ELSE 0) = m
              /\ \A i \in 1..m : 1 + i - 1 = i
          BY <4>1
        <5>4. QED
          BY <5>2, <5>3
      <4>4. org[o].parent = c
        BY <2>2, <3>2
      <4> HIDE DEF t, c
      <4>5. t # <<>>
        BY <4>1, <4>3
      <4>6. Live(c) /\ org[c].path = t
        BY <4>1, <4>2, <4>5 DEF Init, Live
      <4>7. q = Append(t, o)
        <5>1. PICK y : y = Append(t, o)
          OBVIOUS
        <5>2. y \in Seq(Org) /\ Len(y) = m + 1 /\ y[m + 1] = o /\ \A i \in 1..m : y[i] = t[i]
          BY <4>3, <5>1, AppendMeans DEF Ends
        <5>3. q[m + 1] = o
          BY <3>1, <4>1 DEF Ends
        <5> HIDE DEF m
        <5>4. \A i \in 1..(m + 1) : i \in 1..m \/ i = m + 1
          BY <4>1
        <5>5. \A i \in 1..Len(q) : q[i] = y[i]
          BY <4>1, <4>3, <5>2, <5>3, <5>4
        <5>6. QED
          BY <4>1, <5>1, <5>2, <5>5, SeqEqual
      <4>8. QED
        BY <2>2, <3>1, <4>1, <4>2, <4>4, <4>6, <4>7 DEF Follows, Labelled
    <3>3. CASE ~(Len(q) > 1)
      <4>1. q = <<o>>
        <5>1. Len(q) \in Nat /\ Len(q) # 0
          BY <2>4, LenType
        <5>2. Len(q) = 1
          BY <3>3, <5>1
        <5>3. q[1] = o
          BY <3>1, <5>2 DEF Ends
        <5>4. QED
          BY <5>2, <5>3
      <4>2. QED
        BY <2>2, <3>1, <3>3, <4>1 DEF Follows, Labelled
    <3>4. QED
      BY <3>2, <3>3
  <2>5. QED
    BY <2>3, <2>4
<1>4. QED
  BY <1>1, <1>2, <1>3 DEF PathInv

(* The inductive invariant of the tree, on top of the lock protocol's.     *)
THEOREM PathInvariance == Spec => []PathInv
<1>1. Init => PathInv
  BY PathStarts
<1>2. IInv /\ PathInv /\ [Next]_vars => PathInv'
  <2>1. ASSUME IInv, PathInv, UNCHANGED vars PROVE PathInv'
    <3>1. UNCHANGED <<org, raced, req, excl, ticket>>
      BY <2>1 DEF vars, rows, locks
    <3>2. QED
      BY <2>1, <3>1, PathOutside
  <2>2. QED
    BY <2>1, PathSteps
<1>3. QED
  BY <1>1, <1>2, Invariance, PTL DEF Spec

(* A live organization has a live parent or none, and its path is that of  *)
(* its parent and its own code, whatever creations, moves and deletions    *)
(* overlap, unless Create's INSERT raced a change of the parent, or came   *)
(* between the statements of a Move below a row that Move had not locked.  *)
THEOREM TreeIsConsistent == Spec => []PathsFollowParents
<1>1. PathInv => PathsFollowParents
  BY DEF PathInv, Follows, PathsFollowParents
<1>2. QED
  BY <1>1, PathInvariance, PTL

(* A ticket of a live organization carries that organization's path, the   *)
(* same organizations aside: the shared lock of ticket Create holds off    *)
(* the cascade of Move, and its UPDATE of the rows the shared lock.        *)
THEOREM TicketsFollow == Spec => []TicketPathsFollow
<1>1. PathInv => TicketPathsFollow
  BY DEF PathInv, Placed, TicketPathsFollow
<1>2. QED
  BY <1>1, PathInvariance, PTL
=============================================================================
