-------------------------- MODULE TicketLifecycle --------------------------
(***************************************************************************)
(* Tickets and what hangs on them (comments, events, relations) under      *)
(* concurrent requests.  Every operation of ticket.Service reads outside   *)
(* its transaction and writes inside it: each request is a read step, for  *)
(* status changes a step that reads the type's transition graph, and the   *)
(* transaction.  A transaction locks the ticket row with its first         *)
(* statement and is one step here; Delete takes two locks one after the    *)
(* other and is two, and what it wrote first keeps its place among the     *)
(* rows that others commit in between.                                     *)
(*                                                                         *)
(* Who may do what (authorizeCheck) is another component: a request that   *)
(* is refused changes nothing, so only admitted requests appear, and the   *)
(* check's reading of the ticket is the existence test at the start.       *)
(* The data a patch writes is a value per field; a user is a name.         *)
(***************************************************************************)
EXTENDS Integers, FiniteSets, Sequences

CONSTANTS Ticket,     \* ticket ids
          Request,    \* requests that can be in progress at once
          User,       \* assignees
          NoUser,     \* assigned_to IS NULL
          Field,      \* title, description, priority
          Graph,      \* the transition graphs an administrator may configure
          Offered,    \* the operations clients ask for in this model
          MaxOps      \* bound on requests

Status == {"open", "assigned", "closed"}   \* the ones some operation writes
Op == {"create", "update", "close", "assign", "delete", "comment", "relate"}

ASSUME TicketAssumption ==
  /\ Ticket # {} /\ NoUser \notin User
  /\ Graph \subseteq SUBSET (Status \X Status)
  /\ Graph # {}
  /\ Offered \subseteq Op
  /\ MaxOps \in Nat

VARIABLES
  row,       \* row[t] : the tickets row of t, with its life: unborn, live, deleted
  comments,  \* comments[t] : number of ticket_comments rows
  events,    \* events[t] : the ticket_events rows written about t, by id; "deleting"
             \* is the row of a deletion still open, "undone" the id of one aborted
  rels,      \* ticket_relations: <<source, target>> pairs (one relation type)
  graph,     \* transitions of the ticket type
  req,       \* req[p] : the request in progress
  keyShare,  \* keyShare[t] : uncommitted transactions holding FOR KEY SHARE on t
  patched,   \* patched[t] : the last value committed by a patch, per field (auxiliary)
  ops

vars == <<row, comments, events, rels, graph, req, keyShare, patched, ops>>

\* The row Create inserts.
NewRow == [life |-> "live", status |-> "open", assignee |-> NoUser,
           field |-> [f \in Field |-> 0]]
IdleReq == [op |-> "create", pc |-> "idle", t |-> CHOOSE t \in Ticket : TRUE,
            other |-> CHOOSE t \in Ticket : TRUE, user |-> NoUser,
            patch |-> {}, value |-> 0, seen |-> NewRow]

Event(a, from, to) == [action |-> a, from |-> from, to |-> to]
Live(t) == row[t].life = "live"

TypeOK ==
  /\ row \in [Ticket -> [life : {"unborn", "live", "deleted"}, status : Status,
                         assignee : User \cup {NoUser}, field : [Field -> 0..MaxOps]]]
  /\ comments \in [Ticket -> Nat]
  /\ \A t \in Ticket : \A i \in 1..Len(events[t]) :
       events[t][i].action \in {"created", "updated", "status_changed", "assigned",
                                "deleting", "undone", "deleted", "comment", "note"}
  /\ rels \subseteq Ticket \X Ticket
  /\ graph \in Graph
  /\ \A p \in Request : req[p].op \in Op /\ req[p].t \in Ticket
  /\ keyShare \in [Ticket -> SUBSET Request]
  /\ ops \in 0..MaxOps

Init ==
  /\ row = [t \in Ticket |-> [NewRow EXCEPT !.life = "unborn"]]
  /\ comments = [t \in Ticket |-> 0]
  /\ events = [t \in Ticket |-> <<>>]
  /\ rels = {}
  /\ graph \in Graph
  /\ req = [p \in Request |-> IdleReq]
  /\ keyShare = [t \in Ticket |-> {}]
  /\ patched = [t \in Ticket |-> [f \in Field |-> 0]]
  /\ ops = 0

At(p, op, pc) == req[p].op = op /\ req[p].pc = pc
Goto(p, pc) == req' = [req EXCEPT ![p].pc = pc]
End(p) == req' = [req EXCEPT ![p] = IdleReq]
Log(t, e) == events' = [events EXCEPT ![t] = Append(@, e)]
Begin(p, r) ==
  /\ req[p].pc = "idle" /\ r.op \in Offered /\ ops < MaxOps
  /\ ops' = ops + 1
  /\ req' = [req EXCEPT ![p] = r]

\* GetByID with the early return for closed tickets that Update, Close and
\* Assign share.
Load(p, t, r) ==
  /\ Live(t) /\ row[t].status # "closed"
  /\ Begin(p, [r EXCEPT !.t = t, !.seen = row[t]])
  /\ UNCHANGED <<row, comments, events, rels, graph, keyShare, patched>>

-----------------------------------------------------------------------------
\* Create: insert the row and the created event in one transaction.
Create(t) ==
  /\ "create" \in Offered /\ ops < MaxOps
  /\ ops' = ops + 1
  /\ row[t].life = "unborn"
  /\ row' = [row EXCEPT ![t] = NewRow]
  /\ Log(t, Event("created", "", ""))
  /\ UNCHANGED <<comments, rels, graph, req, keyShare, patched>>

\* Update: a patch names the fields it sets; the value is the request's own.
Update(p, t, fs) ==
  Load(p, t, [IdleReq EXCEPT !.op = "update", !.pc = "commit", !.patch = fs,
                             !.value = ops + 1])

\* Mutant of StillOpen: the WHERE clause names the id only.
StillThere(t) == Live(t)

\* WHERE id = $1 AND status <> 'closed'.
StillOpen(t) == Live(t) /\ row[t].status # "closed"

\* Mutant of PatchedField: the whole row is written back as it was read.
WholeRowBack(r, old) ==
  [f \in Field |-> IF f \in r.patch THEN r.value ELSE r.seen.field[f]]

\* UpdateTx: COALESCE per field, WHERE status <> 'closed'.
PatchedField(r, old) == [f \in Field |-> IF f \in r.patch THEN r.value ELSE old[f]]

CommitUpdate(p) ==
  LET r == req[p] IN
  /\ At(p, "update", "commit")
  /\ IF StillOpen(r.t)
     THEN /\ row' = [row EXCEPT ![r.t].field = PatchedField(r, row[r.t].field)]
          /\ patched' = [patched EXCEPT ![r.t] =
               [f \in Field |-> IF f \in r.patch THEN r.value ELSE @[f]]]
          /\ Log(r.t, Event("updated", "", ""))
     ELSE UNCHANGED <<row, patched, events>>
  /\ End(p)
  /\ UNCHANGED <<comments, rels, graph, keyShare, ops>>

-----------------------------------------------------------------------------
Close(p, t) == Load(p, t, [IdleReq EXCEPT !.op = "close", !.pc = "graph"])

\* The status Assign means to leave behind, from the row it read.
NewStatus(seen, u) ==
  CASE seen.status = "open" /\ u # NoUser -> "assigned"
    [] seen.status = "assigned" /\ u = NoUser -> "open"
    [] OTHER -> seen.status

Assign(p, t, u) ==
  Load(p, t, [IdleReq EXCEPT !.op = "assign", !.user = u,
                !.pc = IF NewStatus(row[t], u) # row[t].status THEN "graph" ELSE "commit"])

Target(r) == IF r.op = "close" THEN "closed" ELSE NewStatus(r.seen, r.user)

\* GetTicketType, FromTicketType and AssertTransition.
AssertTransition(p) ==
  LET r == req[p] IN
  /\ r.pc = "graph"
  /\ IF <<r.seen.status, Target(r)>> \in graph THEN Goto(p, "commit") ELSE End(p)
  /\ UNCHANGED <<row, comments, events, rels, graph, keyShare, patched, ops>>

\* Mutant of StatusMatches: no compare-and-set.
AnyStatus(r) == TRUE

\* UpdateStatusTx's WHERE status = $2.
StatusMatches(r) == row[r.t].status = r.seen.status

\* UpdateStatusTx, the event and the optional closing comment.
CommitClose(p) ==
  LET r == req[p] IN
  /\ At(p, "close", "commit")
  /\ IF Live(r.t) /\ StatusMatches(r)
     THEN /\ row' = [row EXCEPT ![r.t].status = "closed"]
          /\ Log(r.t, Event("status_changed", r.seen.status, "closed"))
          /\ \E n \in {0, 1} : comments' = [comments EXCEPT ![r.t] = @ + n]
     ELSE UNCHANGED <<row, events, comments>>
  /\ End(p)
  /\ UNCHANGED <<rels, graph, keyShare, patched, ops>>

\* UpdateAssignedToTx (WHERE status <> 'closed'), UpdateStatusTx only if the
\* status is to change, the event with the assignee read before.
CommitAssign(p) ==
  LET r == req[p]
      new == Target(r)
      moves == new # r.seen.status
  IN
  /\ At(p, "assign", "commit")
  /\ IF StillOpen(r.t) /\ (moves => StatusMatches(r))
     THEN /\ row' = [row EXCEPT ![r.t].assignee = r.user,
                                ![r.t].status = IF moves THEN new ELSE @]
          /\ Log(r.t, Event("assigned", r.seen.assignee, r.user))
     ELSE UNCHANGED <<row, events>>
  /\ End(p)
  /\ UNCHANGED <<comments, rels, graph, keyShare, patched, ops>>

\* UpdateTicketType replaces the transition graph at any time.
UpdateTicketType(g) ==
  /\ graph' = g
  /\ UNCHANGED <<row, comments, events, rels, req, keyShare, patched, ops>>

-----------------------------------------------------------------------------
\* CreateComment and CreateNote: open and closed tickets alike.
CreateComment(p, t) ==
  /\ Live(t)
  /\ Begin(p, [IdleReq EXCEPT !.op = "comment", !.pc = "commit", !.t = t])
  /\ UNCHANGED <<row, comments, events, rels, graph, keyShare, patched>>

\* The comment's foreign key waits for a deleting transaction and fails if it
\* committed.
CommitComment(p) ==
  LET t == req[p].t IN
  /\ At(p, "comment", "commit")
  /\ IF Live(t)
     THEN /\ comments' = [comments EXCEPT ![t] = @ + 1]
          /\ \E a \in {"comment", "note"} : Log(t, Event(a, "", ""))
     ELSE UNCHANGED <<comments, events>>
  /\ End(p)
  /\ UNCHANGED <<row, rels, graph, keyShare, patched, ops>>

\* CreateRelation: both tickets are visible, then ExistsRelationBetween.
CreateRelation(p, s, t) ==
  /\ s # t /\ Live(s) /\ Live(t)
  /\ Begin(p, [IdleReq EXCEPT !.op = "relate", !.pc = "dup", !.t = s, !.other = t])
  /\ UNCHANGED <<row, comments, events, rels, graph, keyShare, patched>>

Related(s, t) == <<s, t>> \in rels \/ <<t, s>> \in rels

ExistsRelationBetween(p) ==
  /\ At(p, "relate", "dup")
  /\ IF Related(req[p].t, req[p].other) THEN End(p) ELSE Goto(p, "commit")
  /\ UNCHANGED <<row, comments, events, rels, graph, keyShare, patched, ops>>

\* Mutant of IndexAdmits: no unique index.
NoIndex(s, t) == TRUE

\* uq_ticket_relations_normalized, over LEAST and GREATEST of the two ids.
IndexAdmits(s, t) == ~Related(s, t)

\* The INSERT: the normalized unique index and both foreign keys decide.
InsertRelation(p) ==
  LET s == req[p].t
      t == req[p].other
  IN
  /\ At(p, "relate", "commit")
  /\ rels' = IF Live(s) /\ Live(t) /\ IndexAdmits(s, t) THEN rels \cup {<<s, t>>} ELSE rels
  /\ End(p)
  /\ UNCHANGED <<row, comments, events, graph, keyShare, patched, ops>>

-----------------------------------------------------------------------------
Delete(p, t) ==
  /\ Live(t)
  /\ Begin(p, [IdleReq EXCEPT !.op = "delete", !.pc = "event", !.t = t])
  /\ UNCHANGED <<row, comments, events, rels, graph, keyShare, patched>>

\* The row the deletion p has inserted in its open transaction, and what
\* becomes of it when the transaction ends.
Deleting(p) == Event("deleting", p, "")
Settle(t, p, a) ==
  events' = [events EXCEPT ![t] =
    [i \in DOMAIN @ |-> IF @[i] = Deleting(p) THEN Event(a, "", "") ELSE @[i]]]

\* First statement: the deleted event, whose id is fixed here.  Its foreign key
\* takes FOR KEY SHARE on the ticket, or reports that the ticket is gone (404).
DeleteInsertEvent(p) ==
  LET t == req[p].t IN
  /\ At(p, "delete", "event")
  /\ IF Live(t)
     THEN /\ keyShare' = [keyShare EXCEPT ![t] = @ \cup {p}]
          /\ Log(t, Deleting(p))
          /\ Goto(p, "row")
     ELSE End(p) /\ UNCHANGED <<events, keyShare>>
  /\ UNCHANGED <<row, comments, rels, graph, patched, ops>>

\* Mutant of Cascade: only the source's foreign key cascades.
CascadeSource(t) == {r \in rels : r[1] # t}

\* ON DELETE CASCADE of both foreign keys of ticket_relations.
Cascade(t) == {r \in rels : t \notin {r[1], r[2]}}

\* Second statement and commit: DELETE needs the row exclusively; comments and
\* relations go by cascade, the events stay (SET NULL).
DeleteRow(p) ==
  LET t == req[p].t IN
  /\ At(p, "delete", "row")
  /\ keyShare[t] = {p}
  /\ row' = [row EXCEPT ![t].life = "deleted"]
  /\ comments' = [comments EXCEPT ![t] = 0]
  /\ rels' = Cascade(t)
  /\ Settle(t, p, "deleted")
  /\ keyShare' = [keyShare EXCEPT ![t] = {}]
  /\ End(p)
  /\ UNCHANGED <<graph, patched, ops>>

\* Two deletes hold KEY SHARE and each waits for the other: PostgreSQL aborts
\* one of them with 40P01, which Delete passes on as an internal error.
DeleteDeadlock(p) ==
  LET t == req[p].t IN
  /\ At(p, "delete", "row")
  /\ \E q \in keyShare[t] \ {p} : At(q, "delete", "row")
  /\ keyShare' = [keyShare EXCEPT ![t] = @ \ {p}]
  /\ Settle(t, p, "undone")
  /\ End(p)
  /\ UNCHANGED <<row, comments, rels, graph, patched, ops>>

-----------------------------------------------------------------------------
Step(p) ==
  \/ CommitUpdate(p) \/ AssertTransition(p) \/ CommitClose(p) \/ CommitAssign(p)
  \/ CommitComment(p) \/ ExistsRelationBetween(p) \/ InsertRelation(p)
  \/ DeleteInsertEvent(p) \/ DeleteRow(p) \/ DeleteDeadlock(p)

Arrive(p, t) ==
  \/ \E fs \in SUBSET Field \ {{}} : Update(p, t, fs)
  \/ Close(p, t)
  \/ \E u \in User \cup {NoUser} : Assign(p, t, u)
  \/ CreateComment(p, t)
  \/ \E s \in Ticket : CreateRelation(p, s, t)
  \/ Delete(p, t)

Next ==
  \/ \E t \in Ticket : Create(t)
  \/ \E p \in Request : Step(p) \/ \E t \in Ticket : Arrive(p, t)
  \/ \E g \in Graph : UpdateTicketType(g)

Spec == Init /\ [][Next]_vars

-----------------------------------------------------------------------------
EventsOf(t, a) == {i \in 1..Len(events[t]) : events[t][i].action = a}

(* A closed ticket stays closed and keeps its assignee and its fields until *)
(* it is deleted, whatever requests had read it while it was open: the      *)
(* WHERE clauses of UpdateTx, UpdateAssignedToTx and UpdateStatusTx.        *)
ClosedIsFinal ==
  [][\A t \in Ticket :
       (Live(t) /\ row[t].status = "closed" /\ row'[t].life = "live")
         => row'[t] = row[t]]_row

(* A ticket is closed if and only if exactly one status_changed event says  *)
(* so, and that event's from_value is never closed: concurrent Close        *)
(* requests leave no second close in the audit trail.                       *)
ClosedByOneEvent ==
  \A t \in Ticket :
    LET closes == EventsOf(t, "status_changed") IN
    /\ Cardinality(closes) = (IF row[t].status = "closed" THEN 1 ELSE 0)
    /\ \A i \in closes : events[t][i].from # "closed"

(* Deletion is audited exactly once: of the deletions of a ticket that      *)
(* overlap, each of which inserts its event before it has the row, one      *)
(* event becomes visible, and none without the row being gone.  Neither     *)
(* comments nor relations stay, even of requests that saw the ticket before *)
(* it went; an event committed between the two statements may follow the    *)
(* deletion's.                                                              *)
DeletionLeavesOneEvent ==
  \A t \in Ticket :
    IF row[t].life = "deleted"
    THEN /\ Cardinality(EventsOf(t, "deleted")) = 1
         /\ comments[t] = 0
         /\ \A r \in rels : t \notin {r[1], r[2]}
    ELSE EventsOf(t, "deleted") = {}

(* Concurrent patches of different fields do not undo each other: each      *)
(* field has the value of the last patch that named it.                     *)
NoLostPatch == \A t \in Ticket : Live(t) => row[t].field = patched[t]

(* There is at most one relation between two tickets, in either direction,  *)
(* although the duplicate check runs outside the insert.                    *)
OneRelationPerPair ==
  \A s, t \in Ticket : ~(<<s, t>> \in rels /\ <<t, s>> \in rels)

\* Create's comment: an assignee given at creation would leave an open ticket
\* with an assignee, so assignment goes through Assign.
OpenMeansUnassigned ==
  \A t \in Ticket : Live(t) /\ row[t].status = "open" => row[t].assignee = NoUser
=============================================================================
