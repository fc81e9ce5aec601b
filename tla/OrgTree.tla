------------------------------ MODULE OrgTree ------------------------------
(***************************************************************************)
(* The organization tree and what hangs on it.  An organization row holds  *)
(* parent_id and, redundantly, its ltree path from the root; user_orgs     *)
(* rows and tickets refer to it, and a ticket copies the path once more.   *)
(* Requests run as PostgreSQL transactions under READ COMMITTED with row   *)
(* locks: Delete and Move take FOR UPDATE, the writers of memberships and  *)
(* tickets FOR SHARE, and the foreign key of an inserted child takes       *)
(* FOR KEY SHARE on its parent.  One step is one statement, which takes    *)
(* its own snapshot and may wait for row locks, with the statements after  *)
(* it that neither wait nor read.  A row that was written is locked until  *)
(* the commit, which is the step where the others see the writes.          *)
(*                                                                         *)
(* The ltree label of an organization is its code, unique among the live   *)
(* ones; here it is the organization itself, and a deleted code is not     *)
(* used again.  Who may do what is another component; only admitted        *)
(* requests appear.  A member row is told apart from an owner row because  *)
(* a delete clears the latter, and from the row of a soft-deleted user     *)
(* because a delete does not count that one.  The templates that copy the  *)
(* path too are in TicketType.                                             *)
(***************************************************************************)
EXTENDS Integers, FiniteSets, Sequences

CONSTANTS Org,       \* organizations
          NoOrg,     \* parent_id IS NULL
          System,    \* is_system organizations
          Virtual,   \* is_virtual organizations
          SeedPath,  \* SeedPath[o] : the path of o at the start, <<>> if it does not exist
          User, Ticket,
          Request,   \* requests that can be in progress at once
          Nobody,    \* no request
          Offered,   \* the operations clients ask for in this model
          MaxDepth,  \* maxOrgPathDepth (20 in the code)
          MaxOps     \* bound on requests

Op == {"create", "move", "delete", "add", "set", "ticket"}

ASSUME OrgAssumption ==
  /\ NoOrg \notin Org /\ Nobody \notin Request
  /\ System \subseteq Org /\ Virtual \subseteq Org
  /\ SeedPath \in [Org -> Seq(Org)]
  /\ \A o \in Org : LET q == SeedPath[o] IN
       q # <<>> =>
         /\ q[Len(q)] = o
         /\ Len(q) > 1 =>
              /\ SeedPath[q[Len(q) - 1]] = SubSeq(q, 1, Len(q) - 1)
              /\ ~(o \in Virtual /\ q[Len(q) - 1] \in Virtual)
  /\ Offered \subseteq Op
  /\ MaxDepth \in Nat /\ MaxOps \in Nat

VARIABLES
  org,     \* org[o] : its row: life (unborn, live, deleted), parent, path
  mem,     \* mem[o] : users with a user_orgs row
  own,     \* own[o] : those whose row says org_member_role = 'owner'
  gone,    \* users with deleted_at set
  ticket,  \* ticket[k] : status (none, open, closed), org, org_path
  excl,    \* excl[o] : the transaction holding FOR UPDATE on o, or Nobody
  share,   \* share[o] : the transactions holding FOR SHARE on o
  mover,   \* the holder of the advisory lock 'org:move', or Nobody
  req,     \* req[p] : the request in progress
  raced,   \* organizations inserted with a path that was not current any more, or
           \* left behind by a Move that rewrote their parent's (auxiliary)
  ops

rows == <<org, mem, own, gone, ticket, raced>>
locks == <<excl, share, mover>>
vars == <<rows, locks, req, ops>>

IdleReq == [op |-> "create", pc |-> "idle", o |-> NoOrg, parent |-> NoOrg, path |-> <<>>,
            root |-> <<>>, user |-> Nobody, ticket |-> Nobody, want |-> {}, got |-> {},
            tickets |-> {}]
NoTicket == [status |-> "none", org |-> NoOrg, path |-> <<>>]

Live(o) == org[o].life = "live"

(* Types, and that the path of an organization ends in its own label. *)
TypeOK ==
  /\ \A o \in Org :
       /\ org[o].life \in {"unborn", "live", "deleted"}
       /\ org[o].parent \in Org \cup {NoOrg}
       /\ org[o].path \in Seq(Org)
       /\ org[o].life # "unborn" => org[o].path # <<>> /\ org[o].path[Len(org[o].path)] = o
  /\ mem \in [Org -> SUBSET User]
  /\ \A o \in Org : own[o] \subseteq mem[o]
  /\ gone \subseteq User
  /\ \A k \in Ticket : ticket[k].status \in {"none", "open", "closed"}
  /\ excl \in [Org -> Request \cup {Nobody}]
  /\ share \in [Org -> SUBSET Request]
  /\ mover \in Request \cup {Nobody}
  /\ \A p \in Request : req[p].op \in Op
  /\ raced \subseteq Org
  /\ ops \in 0..MaxOps

Init ==
  /\ org = [o \in Org |->
       LET q == SeedPath[o] IN
       [life |-> IF q = <<>> THEN "unborn" ELSE "live",
        parent |-> IF Len(q) > 1 THEN q[Len(q) - 1] ELSE NoOrg,
        path |-> q]]
  /\ mem = [o \in Org |-> {}] /\ own = [o \in Org |-> {}] /\ gone = {}
  /\ ticket = [k \in Ticket |-> NoTicket]
  /\ excl = [o \in Org |-> Nobody] /\ share = [o \in Org |-> {}] /\ mover = Nobody
  /\ req = [p \in Request |-> IdleReq]
  /\ raced = {} /\ ops = 0

-----------------------------------------------------------------------------
(* Requests and locks. *)

At(p, pc) == req[p].pc = pc
Count == ops < MaxOps /\ ops' = ops + 1
Begin(p, r) ==
  /\ At(p, "idle") /\ r.op \in Offered /\ Count
  /\ req' = [req EXCEPT ![p] = r]
  /\ UNCHANGED <<rows, locks>>

\* o is among the rows that the UPDATE of a Move other than p's has locked,
\* FOR NO KEY UPDATE.
Rewritten(p, o) ==
  \E q \in Request \ {p} : At(q, "moveCommit") /\ o \in req[q].got

\* FOR UPDATE or an UPDATE, FOR SHARE, and the foreign key's FOR KEY SHARE,
\* which waits for the first alone.
CanUpdate(p, o) == excl[o] \in {p, Nobody} /\ share[o] \subseteq {p} /\ ~Rewritten(p, o)
CanShare(p, o) == excl[o] \in {p, Nobody} /\ ~Rewritten(p, o)
CanRefer(p, o) == excl[o] \in {p, Nobody}

\* A transaction of one step can update the row.
Unlocked(o) ==
  /\ excl[o] = Nobody /\ share[o] = {}
  /\ \A q \in Request : At(q, "moveCommit") => o \notin req[q].got

\* Commit or rollback: every lock of p goes.
EndTx(p) ==
  /\ excl' = [o \in Org |-> IF excl[o] = p THEN Nobody ELSE excl[o]]
  /\ share' = [o \in Org |-> share[o] \ {p}]
  /\ mover' = IF mover = p THEN Nobody ELSE mover
  /\ req' = [req EXCEPT ![p] = IdleReq]

\* An early return, an error, a deadlock victim, a client that hangs up or a
\* process that dies: nothing is written.
Rollback(p) == EndTx(p) /\ UNCHANGED <<rows, ops>>
Abort(p) == ~At(p, "idle") /\ Rollback(p)

-----------------------------------------------------------------------------
(* OrgService.Create: the parent is read without a lock, the path built from *)
(* it, and the row inserted by a statement of its own.                       *)

CreateRequest(o, par) == [IdleReq EXCEPT !.op = "create", !.o = o, !.parent = par]
Create(p, o, par) ==
  /\ org[o].life = "unborn"
  /\ par = NoOrg => o \notin Virtual
  /\ par # NoOrg => /\ Live(par)
                    /\ Len(org[par].path) + 1 <= MaxDepth
                    /\ ~(o \in Virtual /\ par \in Virtual)
  /\ Begin(p, [CreateRequest(o, par) EXCEPT !.pc = "insert",
                 !.root = IF par = NoOrg THEN <<o>> ELSE Append(org[par].path, o)])

\* The INSERT: idx_org_code admits one live row per code; the foreign key
\* waits for FOR UPDATE on the parent but looks at neither path nor deleted_at.
InsertOrg(p) ==
  LET r == req[p] IN
  /\ At(p, "insert")
  /\ r.parent # NoOrg => CanRefer(p, r.parent)
  /\ IF org[r.o].life = "unborn"
     THEN /\ org' = [org EXCEPT ![r.o] = [life |-> "live", parent |-> r.parent, path |-> r.root]]
          /\ raced' = IF r.parent # NoOrg /\ (~Live(r.parent)
                             \/ r.root # Append(org[r.parent].path, r.o))
                      THEN raced \cup {r.o} ELSE raced
     ELSE UNCHANGED <<org, raced>>
  /\ EndTx(p)
  /\ UNCHANGED <<mem, own, gone, ticket, ops>>

-----------------------------------------------------------------------------
(* OrgRepo.Move. *)

\* ltree: p <@ q.
Under(p, q) == Len(q) <= Len(p) /\ SubSeq(p, 1, Len(q)) = q

\* Mutant of Subtree: the moved row only.
SameNode(q) == {o \in Org : Live(o) /\ org[o].path = q}

\* WHERE path <@ q AND deleted_at IS NULL.
Subtree(q) == {o \in Org : Live(o) /\ Under(org[o].path, q)}

\* new || subpath(path, nlevel(old)).
Rebase(path, old, new) == new \o SubSeq(path, Len(old) + 1, Len(path))

\* parentPath + "." + code.
NewRoot(o, par) == Append(org[par].path, o)

MoveRequest(o, par) == [IdleReq EXCEPT !.op = "move", !.o = o, !.parent = par]
Move(p, o, par) ==
  /\ Live(o) /\ par # o
  /\ Begin(p, [MoveRequest(o, par) EXCEPT !.pc = "moveLock"])

\* The advisory lock, then the moving row FOR UPDATE, read under the lock.
MoveLock(p) ==
  LET r == req[p] IN
  /\ At(p, "moveLock") /\ mover = Nobody /\ CanUpdate(p, r.o)
  /\ IF Live(r.o) /\ r.o \notin System
     THEN /\ mover' = p
          /\ excl' = [excl EXCEPT ![r.o] = p]
          /\ req' = [req EXCEPT ![p].path = org[r.o].path, ![p].root = <<r.o>>,
                       ![p].pc = IF r.parent = NoOrg THEN "moveTree" ELSE "moveParent"]
          /\ UNCHANGED <<rows, share, ops>>
     ELSE Rollback(p)

\* The new parent FOR UPDATE; no cycle, no virtual group under another.
MoveLockParent(p) ==
  LET r == req[p] IN
  /\ At(p, "moveParent") /\ CanUpdate(p, r.parent)
  /\ IF /\ Live(r.parent)
        /\ ~Under(org[r.parent].path, r.path)
        /\ ~(r.o \in Virtual /\ r.parent \in Virtual)
     THEN /\ excl' = [excl EXCEPT ![r.parent] = p]
          /\ req' = [req EXCEPT ![p].pc = "moveTree", ![p].root = NewRoot(r.o, r.parent)]
          /\ UNCHANGED <<rows, share, mover, ops>>
     ELSE Rollback(p)

\* The old subtree FOR UPDATE: the rows of the statement's snapshot ...
MoveSelectSubtree(p) ==
  /\ At(p, "moveTree")
  /\ req' = [req EXCEPT ![p].got = Subtree(req[p].path), ![p].pc = "moveOrgs"]
  /\ UNCHANGED <<rows, locks, ops>>

\* ... are locked, those that are live still, and UPDATE organizations takes
\* its snapshot: a row inserted since is in it, without a lock.
MoveLockSubtree(p) ==
  LET tree == {o \in req[p].got : Live(o)} IN
  /\ At(p, "moveOrgs")
  /\ \A o \in tree : CanUpdate(p, o)
  /\ excl' = [o \in Org |-> IF o \in tree THEN p ELSE excl[o]]
  /\ req' = [req EXCEPT ![p].got = Subtree(req[p].path), ![p].pc = "moveTickets"]
  /\ UNCHANGED <<rows, share, mover, ops>>

\* UPDATE organizations has its rows, those that are live still, and UPDATE
\* tickets takes its snapshot.
MoveUpdateOrgs(p) ==
  LET r == req[p]
      tree == {o \in r.got : Live(o)}
  IN
  /\ At(p, "moveTickets")
  /\ \A o \in tree : CanUpdate(p, o)
  /\ req' = [req EXCEPT ![p].got = tree,
                         ![p].tickets = {k \in Ticket : /\ ticket[k].status # "none"
                                                         /\ Under(ticket[k].path, r.path)},
                         ![p].pc = "moveCommit"]
  /\ UNCHANGED <<rows, locks, ops>>

\* The rows of the two snapshots are written; an organization inserted after
\* the first stays behind.
MoveCommit(p) ==
  LET r == req[p] IN
  /\ At(p, "moveCommit")
  /\ org' = [o \in Org |->
       IF o \in r.got
       THEN [org[o] EXCEPT !.path = Rebase(@, r.path, r.root),
                           !.parent = IF o = r.o THEN r.parent ELSE @]
       ELSE org[o]]
  /\ ticket' = [k \in Ticket |->
       IF k \in r.tickets THEN [ticket[k] EXCEPT !.path = Rebase(@, r.path, r.root)]
       ELSE ticket[k]]
  /\ raced' = raced \cup (Subtree(r.path) \ r.got)
  /\ EndTx(p)
  /\ UNCHANGED <<mem, own, gone, ops>>

-----------------------------------------------------------------------------
(* OrgService.DeleteOrgDelegated and OrgRepo.DeleteVgWithOwnerCleanup. *)

Delete(p, o) ==
  /\ Live(o) /\ o \notin System
  /\ Begin(p, [IdleReq EXCEPT !.op = "delete", !.pc = "delLock", !.o = o])

DeleteLock(p) ==
  LET o == req[p].o IN
  /\ At(p, "delLock") /\ CanUpdate(p, o)
  /\ IF Live(o)
     THEN /\ excl' = [excl EXCEPT ![o] = p]
          /\ req' = [req EXCEPT ![p].pc = "delGuard"]
          /\ UNCHANGED <<rows, share, mover, ops>>
     ELSE Rollback(p)

\* After the owner rows are cleared: no child, no member whose user is not
\* deleted, no open ticket.
Empty(o) ==
  /\ \A c \in Org : Live(c) => org[c].parent # o
  /\ mem[o] \ own[o] \subseteq gone
  /\ \A k \in Ticket : ticket[k].status = "open" => ticket[k].org # o

DeleteGuards(p) ==
  /\ At(p, "delGuard")
  /\ IF Empty(req[p].o)
     THEN req' = [req EXCEPT ![p].pc = "delWrite"] /\ UNCHANGED <<rows, locks, ops>>
     ELSE Rollback(p)

DeleteCommit(p) ==
  LET o == req[p].o IN
  /\ At(p, "delWrite")
  /\ org' = [org EXCEPT ![o].life = "deleted"]
  /\ mem' = [mem EXCEPT ![o] = @ \ own[o]]
  /\ own' = [own EXCEPT ![o] = {}]
  /\ EndTx(p)
  /\ UNCHANGED <<gone, ticket, raced, ops>>

-----------------------------------------------------------------------------
(* Memberships and tickets: FOR SHARE on every organization concerned.  That *)
(* the user exists is read before the transaction and not again.             *)

AddMember(p, u, o) ==
  /\ Live(o) /\ u \notin gone
  /\ Begin(p, [IdleReq EXCEPT !.op = "add", !.pc = "share", !.user = u, !.want = {o}])

SetUserOrgs(p, u, S) ==
  /\ u \notin gone /\ \A o \in S : Live(o)
  /\ Begin(p, [IdleReq EXCEPT !.op = "set", !.pc = "share", !.user = u, !.want = S])

CreateTicket(p, k, o) ==
  /\ ticket[k].status = "none" /\ Live(o)
  /\ Begin(p, [IdleReq EXCEPT !.op = "ticket", !.pc = "share", !.ticket = k, !.want = {o}])

\* Mutant of TakeShare: a plain SELECT.
TakeNothing(p, o) == share

TakeShare(p, o) == [share EXCEPT ![o] = @ \cup {p}]

\* lockAliveOrgForShareTx and FindByIDForShareTx: wait, then read the row as
\* it is now; a deleted one ends the transaction.
LockAliveOrgForShare(p) ==
  /\ At(p, "share")
  /\ \E o \in req[p].want \ req[p].got :
       /\ CanShare(p, o)
       /\ IF Live(o)
          THEN /\ share' = TakeShare(p, o)
               /\ req' = [req EXCEPT ![p].got = @ \cup {o}, ![p].path = org[o].path]
               /\ UNCHANGED <<rows, excl, mover, ops>>
          ELSE Rollback(p)

\* AddMemberWithRole: an existing row keeps its role.  SetUserOrgsTx: the
\* user's rows are deleted and inserted again with the default role.
CommitMembers(p) ==
  LET r == req[p] IN
  /\ At(p, "share") /\ r.op \in {"add", "set"} /\ r.got = r.want
  /\ mem' = [o \in Org |-> IF o \in r.want THEN mem[o] \cup {r.user}
                           ELSE IF r.op = "set" THEN mem[o] \ {r.user} ELSE mem[o]]
  /\ own' = IF r.op = "set" THEN [o \in Org |-> own[o] \ {r.user}] ELSE own
  /\ EndTx(p)
  /\ UNCHANGED <<org, gone, ticket, raced, ops>>

\* The ticket copies the path that was read under the lock.
CommitTicket(p) ==
  LET r == req[p] IN
  /\ At(p, "share") /\ r.op = "ticket" /\ r.got = r.want
  /\ IF ticket[r.ticket].status = "none"
     THEN \E o \in r.want :
            ticket' = [ticket EXCEPT ![r.ticket] = [status |-> "open", org |-> o, path |-> r.path]]
     ELSE UNCHANGED ticket
  /\ EndTx(p)
  /\ UNCHANGED <<org, mem, own, gone, raced, ops>>

\* Ticket Close; it takes no lock on the organization.  (It would wait for a
\* Move that is about to commit the ticket's path; the status is all it writes.)
CloseTicket(k) ==
  /\ ticket[k].status = "open" /\ "ticket" \in Offered
  /\ ticket' = [ticket EXCEPT ![k].status = "closed"]
  /\ UNCHANGED <<org, mem, own, gone, raced, locks, req, ops>>

\* RemoveMember, SetOwnersTx and SoftDeleteTx of a user update the rows of the
\* organizations besides the member rows, so they finish when nobody else has
\* those locked.  The owners of SetOwners were looked up before its
\* transaction and may be gone by now.
RemoveMember(o, u) ==
  /\ "add" \in Offered /\ Count
  /\ Unlocked(o) /\ u \in mem[o]
  /\ mem' = [mem EXCEPT ![o] = @ \ {u}]
  /\ own' = [own EXCEPT ![o] = @ \ {u}]
  /\ UNCHANGED <<org, gone, ticket, raced, locks, req>>

SetOwners(o, S) ==
  /\ "add" \in Offered /\ Count
  /\ Unlocked(o)
  /\ Live(o) \/ S = {}
  /\ mem' = [mem EXCEPT ![o] = @ \cup S]
  /\ own' = [own EXCEPT ![o] = S]
  /\ UNCHANGED <<org, gone, ticket, raced, locks, req>>

DeleteUser(u) ==
  /\ "add" \in Offered /\ Count
  /\ u \notin gone
  /\ \A o \in Org : u \in own[o] => Unlocked(o)
  /\ mem' = [o \in Org |-> mem[o] \ {u}]
  /\ own' = [o \in Org |-> own[o] \ {u}]
  /\ gone' = gone \cup {u}
  /\ UNCHANGED <<org, ticket, raced, locks, req>>

-----------------------------------------------------------------------------
Arrive(p) ==
  \/ \E o \in Org, par \in Org \cup {NoOrg} : Create(p, o, par) \/ Move(p, o, par)
  \/ \E o \in Org : Delete(p, o)
  \/ \E u \in User, o \in Org : AddMember(p, u, o)
  \/ \E u \in User, S \in SUBSET Org : SetUserOrgs(p, u, S)
  \/ \E k \in Ticket, o \in Org : CreateTicket(p, k, o)

Step(p) ==
  \/ InsertOrg(p)
  \/ MoveLock(p) \/ MoveLockParent(p) \/ MoveSelectSubtree(p)
  \/ MoveLockSubtree(p) \/ MoveUpdateOrgs(p) \/ MoveCommit(p)
  \/ DeleteLock(p) \/ DeleteGuards(p) \/ DeleteCommit(p)
  \/ LockAliveOrgForShare(p) \/ CommitMembers(p) \/ CommitTicket(p)
  \/ Abort(p)

Next ==
  \/ \E p \in Request : Arrive(p) \/ Step(p)
  \/ \E k \in Ticket : CloseTicket(k)
  \/ \E o \in Org, u \in User : RemoveMember(o, u)
  \/ \E o \in Org, S \in SUBSET User : SetOwners(o, S)
  \/ \E u \in User : DeleteUser(u)

Spec == Init /\ [][Next]_vars

-----------------------------------------------------------------------------
(* The two records of the tree agree: a live organization has a live parent *)
(* or none, and its path is its parent's path and its own code, whatever    *)
(* Moves, Deletes and Creates overlap.  The exceptions are an organization  *)
(* whose parent moved or went between Create's read and its INSERT, and one *)
(* inserted, while a Move rewrites the subtree, below a row of it that came *)
(* too late for the Move's FOR UPDATE.                                      *)
PathsFollowParents ==
  \A o \in Org : Live(o) /\ o \notin raced =>
    LET par == org[o].parent IN
    IF par = NoOrg THEN org[o].path = <<o>>
    ELSE /\ Live(par)
         /\ org[o].path = Append(org[par].path, o)
         /\ ~(o \in Virtual /\ par \in Virtual)

(* A ticket of a live organization carries that organization's path, though *)
(* Move reads the two tables in snapshots of their own: the FOR SHARE of    *)
(* ticket Create against the locks of Move.  The exceptions are the tickets *)
(* of the same organizations.                                               *)
TicketPathsFollow ==
  \A k \in Ticket :
    ticket[k].status # "none" /\ Live(ticket[k].org) /\ ticket[k].org \notin raced
      => ticket[k].path = org[ticket[k].org].path

(* A deleted organization has no open ticket, and no member row of a user   *)
(* that is not deleted: FOR SHARE of the writers against FOR UPDATE of the  *)
(* delete.                                                                  *)
DeletedIsEmpty ==
  \A o \in Org : org[o].life = "deleted" =>
    /\ mem[o] \subseteq gone
    /\ \A k \in Ticket : ticket[k].status = "open" => ticket[k].org # o
=============================================================================
