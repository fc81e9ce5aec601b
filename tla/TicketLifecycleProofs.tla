----------------------- MODULE TicketLifecycleProofs -----------------------
(***************************************************************************)
(* Proofs about TicketLifecycle, for any number of tickets and overlapping *)
(* requests and any transition graphs.                                     *)
(***************************************************************************)
EXTENDS TicketLifecycle, FiniteSetTheorems, TLAPS

RowType == [life : {"unborn", "live", "deleted"}, status : Status,
            assignee : User \cup {NoUser}, field : [Field -> 0..MaxOps]]
Actions == {"created", "updated", "status_changed", "assigned", "deleting", "undone",
            "deleted", "comment", "note"}
Value == Status \cup {""} \cup User \cup {NoUser} \cup Request
EventType == [action : Actions, from : Value, to : Value]
ReqState == [op : Op, pc : {"idle", "commit", "graph", "dup", "event", "row"}, t : Ticket,
             other : Ticket, user : User \cup {NoUser}, patch : SUBSET Field,
             value : 0..MaxOps, seen : RowType]

Typed ==
  /\ row \in [Ticket -> RowType]
  /\ comments \in [Ticket -> Nat]
  /\ events \in [Ticket -> Seq(EventType)]
  /\ rels \subseteq Ticket \X Ticket
  /\ graph \in Graph
  /\ keyShare \in [Ticket -> SUBSET Request]
  /\ patched \in [Ticket -> [Field -> 0..MaxOps]]
  /\ ops \in 0..MaxOps

\* What the early returns leave of requests: the row they act on was not
\* closed when they read it, and no ticket is related to itself.
Admissible(r) ==
  /\ r \in ReqState
  /\ r.op \in {"update", "close", "assign"} /\ r.pc # "idle" => r.seen.status # "closed"
  /\ r.op = "relate" /\ r.pc # "idle" => r.t # r.other

\* A ticket that was never created has the row it will be inserted with, but
\* for its life.
Unborn(t) == row[t].life = "unborn" => row[t] = [NewRow EXCEPT !.life = "unborn"]
\* The events of one ticket tell how it was closed,
Closing(t) ==
  LET closes == EventsOf(t, "status_changed") IN
  IF row[t].status = "closed"
  THEN \E i \in closes : closes = {i} /\ events[t][i].from # "closed"
  ELSE closes = {}
\* and how it ended.
Ending(t) ==
  IF row[t].life = "deleted"
  THEN /\ \E i : EventsOf(t, "deleted") = {i}
       /\ comments[t] = 0
       /\ \A r \in rels : t \notin {r[1], r[2]}
  ELSE EventsOf(t, "deleted") = {}
\* The lock that a deletion takes first, it takes on a ticket that is there,
\* and nobody else deletes the ticket meanwhile.
Held(t) == keyShare[t] # {} => Live(t)
Kept(t) == row[t].field = patched[t]
Sound(t) == Unborn(t) /\ Closing(t) /\ Ending(t) /\ Held(t) /\ Kept(t)

Admitted == req \in [Request -> ReqState] /\ \A p \in Request : Admissible(req[p])

IInv == Typed /\ Admitted /\ OneRelationPerPair /\ \A t \in Ticket : Sound(t)

\* The rows a deletion has inserted and not settled: exactly one where the
\* request holds the lock, and only a deletion between its two statements
\* holds one.
Entries(t, p) == {i \in 1..Len(events[t]) : events[t][i] = Deleting(p)}
Pledged(t, p) ==
  IF p \in keyShare[t]
  THEN At(p, "delete", "row") /\ req[p].t = t /\ \E i : Entries(t, p) = {i}
  ELSE Entries(t, p) = {}
Pledges == \A t \in Ticket : \A p \in Request : Pledged(t, p)

-----------------------------------------------------------------------------
\* Data.

LEMMA Types ==
  /\ NewRow \in RowType /\ [NewRow EXCEPT !.life = "unborn"] \in RowType
  /\ IdleReq \in ReqState /\ Admissible(IdleReq) /\ IdleReq.pc = "idle"
<1>1. NewRow \in RowType /\ [NewRow EXCEPT !.life = "unborn"] \in RowType
  BY TicketAssumption DEF NewRow, RowType, Status
<1>2. (CHOOSE t \in Ticket : TRUE) \in Ticket
  BY TicketAssumption
<1>3. IdleReq \in ReqState /\ IdleReq.pc = "idle"
  BY <1>1, <1>2, TicketAssumption DEF IdleReq, ReqState, Op
<1>4. QED
  BY <1>1, <1>3 DEF Admissible

LEMMA Appended ==
  ASSUME NEW s \in Seq(EventType), NEW e \in EventType, NEW z, z = Append(s, e)
  PROVE  /\ Len(s) \in Nat /\ z \in Seq(EventType) /\ Len(z) = Len(s) + 1
         /\ z[Len(s) + 1] = e
         /\ \A i \in 1..Len(s) : z[i] = s[i]
  OBVIOUS

\* A new event comes last and leaves the others alone.
LEMMA LogEffect ==
  ASSUME Typed, NEW t \in Ticket, NEW e \in EventType, Log(t, e)
  PROVE  /\ events' \in [Ticket -> Seq(EventType)]
         /\ \A u \in Ticket \ {t} : events'[u] = events[u]
         /\ Len(events[t]) \in Nat /\ Len(events'[t]) = Len(events[t]) + 1
         /\ events'[t][Len(events[t]) + 1] = e
         /\ \A i \in 1..Len(events[t]) : events'[t][i] = events[t][i]
         /\ \A a : EventsOf(t, a)' = EventsOf(t, a) \cup
                      (IF e.action = a THEN {Len(events[t]) + 1} ELSE {})
<1>1. events' = [events EXCEPT ![t] = Append(events[t], e)]
  BY DEF Log
<1>2. events[t] \in Seq(EventType) /\ events'[t] = Append(events[t], e)
  BY <1>1 DEF Typed
<1>3. /\ Len(events[t]) \in Nat /\ events'[t] \in Seq(EventType)
      /\ Len(events'[t]) = Len(events[t]) + 1
      /\ events'[t][Len(events[t]) + 1] = e
      /\ \A i \in 1..Len(events[t]) : events'[t][i] = events[t][i]
  BY <1>2, Appended
<1>4. /\ events' \in [Ticket -> Seq(EventType)]
      /\ \A u \in Ticket \ {t} : events'[u] = events[u]
  BY <1>1, <1>3 DEF Typed
<1>5. ASSUME NEW a
      PROVE  EventsOf(t, a)' = EventsOf(t, a) \cup
                (IF e.action = a THEN {Len(events[t]) + 1} ELSE {})
  <2> DEFINE n == Len(events[t])
  <2>1. 1..(n + 1) = (1..n) \cup {n + 1}
    BY <1>3
  <2>2. EventsOf(t, a)' = {i \in 1..(n + 1) : events'[t][i].action = a}
    BY <1>3 DEF EventsOf
  <2>3. EventsOf(t, a) = {i \in 1..n : events[t][i].action = a}
    BY DEF EventsOf
  <2> HIDE DEF n
  <2>4. QED
    BY <1>3, <2>1, <2>2, <2>3 DEF n
<1>6. QED
  BY <1>3, <1>4, <1>5

-----------------------------------------------------------------------------
\* Kinds of steps.

Others(t) ==
  \A u \in Ticket \ {t} :
    /\ row'[u] = row[u] /\ comments'[u] = comments[u] /\ events'[u] = events[u]
    /\ keyShare'[u] = keyShare[u] /\ patched'[u] = patched[u]

\* What a step leaves alone stays sound.
LEMMA OthersStep ==
  ASSUME NEW u, Sound(u), rels' \subseteq rels,
         row'[u] = row[u], comments'[u] = comments[u], events'[u] = events[u],
         keyShare'[u] = keyShare[u], patched'[u] = patched[u]
  PROVE  Sound(u)'
<1>1. \A a : EventsOf(u, a)' = EventsOf(u, a)
  BY DEF EventsOf
<1>2. Closing(u)'
  BY <1>1 DEF Sound, Closing
<1>3. Ending(u)'
  BY <1>1 DEF Sound, Ending
<1>4. Unborn(u)' /\ Held(u)' /\ Kept(u)'
  BY DEF Sound, Unborn, Held, Kept, Live
<1>5. QED
  BY <1>2, <1>3, <1>4 DEF Sound

\* A step about one ticket.
LEMMA TicketStep ==
  ASSUME IInv, NEW t \in Ticket, Typed', Admitted', Others(t), rels' \subseteq rels, Sound(t)'
  PROVE  IInv'
<1>1. ASSUME NEW u \in Ticket PROVE Sound(u)'
  <2>1. CASE u = t
    BY <2>1
  <2>2. CASE u # t
    BY <2>2, OthersStep DEF IInv, Others
  <2>3. QED
    BY <2>1, <2>2
<1>2. OneRelationPerPair'
  BY DEF IInv, OneRelationPerPair
<1>3. QED
  BY <1>1, <1>2 DEF IInv

\* A step about no ticket.
LEMMA QuietStep ==
  ASSUME IInv, UNCHANGED <<row, comments, events, rels, keyShare, patched>>,
         graph' \in Graph, ops' \in 0..MaxOps, Admitted'
  PROVE  IInv'
<1>1. \A u \in Ticket : Sound(u)'
  BY OthersStep DEF IInv
<1>2. Typed' /\ OneRelationPerPair'
  BY DEF IInv, Typed, OneRelationPerPair
<1>3. QED
  BY <1>1, <1>2 DEF IInv

-----------------------------------------------------------------------------
\* Requests.

\* A step changes the state of one request.
Moves(p, r) == req' = [req EXCEPT ![p] = r]

LEMMA MoveStep ==
  ASSUME Admitted, NEW p \in Request, NEW r, Admissible(r), Moves(p, r)
  PROVE  Admitted'
<1>1. \A q \in Request : req'[q] = IF q = p THEN r ELSE req[q]
  BY DEF Moves, Admitted
<1>2. r \in ReqState
  BY DEF Admissible
<1>3. req' \in [Request -> ReqState]
  BY <1>1, <1>2 DEF Moves, Admitted
<1>4. \A q \in Request : Admissible(req'[q])
  BY <1>1 DEF Admitted
<1>5. QED
  BY <1>3, <1>4 DEF Admitted, Admissible

LEMMA EndStep ==
  ASSUME Admitted, NEW p \in Request, End(p)
  PROVE  Admitted'
BY MoveStep, Types DEF End, Moves

\* The request moves on to its transaction or to the next lock.
LEMMA GotoStep ==
  ASSUME Admitted, NEW p \in Request, NEW pc \in {"commit", "row"}, Goto(p, pc),
         req[p].pc # "idle"
  PROVE  Admitted'
<1> DEFINE r == [req[p] EXCEPT !.pc = pc]
<1>1. req[p] \in ReqState /\ Admissible(req[p])
  BY DEF Admitted
<1>2. /\ r \in ReqState /\ r.op = req[p].op /\ r.t = req[p].t /\ r.other = req[p].other
      /\ r.seen = req[p].seen
  BY <1>1 DEF ReqState
<1>3. Moves(p, r)
  BY DEF Goto, Moves, Admitted
<1> HIDE DEF r
<1>4. Admissible(r)
  BY <1>1, <1>2 DEF Admissible
<1>5. QED
  BY <1>3, <1>4, MoveStep

\* A request begins.
LEMMA BeginStep ==
  ASSUME IInv, NEW p \in Request, NEW r, Admissible(r), Begin(p, r),
         UNCHANGED <<row, comments, events, rels, graph, keyShare, patched>>
  PROVE  IInv'
<1>1. Admitted'
  BY MoveStep DEF Begin, Moves, IInv
<1>2. ops' \in 0..MaxOps /\ graph' \in Graph
  BY TicketAssumption DEF IInv, Typed, Begin
<1>3. QED
  BY <1>1, <1>2, QuietStep

LEMMA LoadStep ==
  ASSUME IInv, NEW p \in Request, NEW t \in Ticket, NEW r \in ReqState,
         r.op \in {"update", "close", "assign"}, Load(p, t, r)
  PROVE  IInv'
<1> DEFINE g == [r EXCEPT !.t = t, !.seen = row[t]]
<1>1. row[t] \in RowType /\ row[t].status # "closed"
  BY DEF IInv, Typed, Load
<1>2. g \in ReqState /\ g.op = r.op /\ g.seen = row[t]
  BY <1>1 DEF ReqState
<1>3. /\ Begin(p, g)
      /\ UNCHANGED <<row, comments, events, rels, graph, keyShare, patched>>
  BY DEF Load
<1> HIDE DEF g
<1>4. Admissible(g)
  BY <1>1, <1>2 DEF Admissible
<1>5. QED
  BY <1>3, <1>4, BeginStep

\* What a request that is about to be admitted has set.
LEMMA Fresh ==
  ASSUME NEW op \in Op, NEW pc \in {"commit", "graph", "dup", "event"}
  PROVE  LET r == [IdleReq EXCEPT !.op = op, !.pc = pc] IN
         /\ r \in ReqState /\ r.op = op /\ r.pc = pc
BY Types DEF ReqState

LEMMA Arrivals ==
  ASSUME IInv, NEW p \in Request, NEW t \in Ticket, Arrive(p, t)
  PROVE  IInv'
<1>1. ASSUME NEW fs \in SUBSET Field, Update(p, t, fs)
      PROVE  IInv'
  <2> DEFINE r == [IdleReq EXCEPT !.op = "update", !.pc = "commit", !.patch = fs,
                                  !.value = ops + 1]
  <2>1. Load(p, t, r)
    BY <1>1 DEF Update
  <2>2. ops + 1 \in 0..MaxOps
    BY <2>1, TicketAssumption DEF Load, Begin, IInv, Typed
  <2>3. r \in ReqState /\ r.op = "update"
    BY <2>2, Types DEF ReqState, Op
  <2> HIDE DEF r
  <2>4. QED
    BY <2>1, <2>3, LoadStep
<1>2. ASSUME Close(p, t)
      PROVE  IInv'
  <2> DEFINE r == [IdleReq EXCEPT !.op = "close", !.pc = "graph"]
  <2>1. r \in ReqState /\ r.op = "close" /\ Load(p, t, r)
    BY <1>2, Fresh DEF Op, Close
  <2> HIDE DEF r
  <2>2. QED
    BY <2>1, LoadStep
<1>3. ASSUME NEW u \in User \cup {NoUser}, Assign(p, t, u)
      PROVE  IInv'
  <2> DEFINE pc == IF NewStatus(row[t], u) # row[t].status THEN "graph" ELSE "commit"
             r == [IdleReq EXCEPT !.op = "assign", !.user = u, !.pc = pc]
  <2>1. pc \in {"commit", "graph"} /\ Load(p, t, r)
    BY <1>3 DEF Assign
  <2> HIDE DEF pc
  <2>2. r \in ReqState /\ r.op = "assign"
    BY <2>1, Types DEF ReqState, Op
  <2> HIDE DEF r
  <2>3. QED
    BY <2>1, <2>2, LoadStep
<1>4. ASSUME CreateComment(p, t)
      PROVE  IInv'
  <2> DEFINE r == [IdleReq EXCEPT !.op = "comment", !.pc = "commit", !.t = t]
  <2>1. r \in ReqState /\ r.op = "comment"
    BY Types DEF ReqState, Op
  <2>2. /\ Begin(p, r)
        /\ UNCHANGED <<row, comments, events, rels, graph, keyShare, patched>>
    BY <1>4 DEF CreateComment
  <2> HIDE DEF r
  <2>3. Admissible(r)
    BY <2>1 DEF Admissible
  <2>4. QED
    BY <2>2, <2>3, BeginStep
<1>5. ASSUME NEW s \in Ticket, CreateRelation(p, s, t)
      PROVE  IInv'
  <2> DEFINE r == [IdleReq EXCEPT !.op = "relate", !.pc = "dup", !.t = s, !.other = t]
  <2>1. r \in ReqState /\ r.op = "relate" /\ r.t = s /\ r.other = t
    BY Types DEF ReqState, Op
  <2>2. /\ s # t /\ Begin(p, r)
        /\ UNCHANGED <<row, comments, events, rels, graph, keyShare, patched>>
    BY <1>5 DEF CreateRelation
  <2> HIDE DEF r
  <2>3. Admissible(r)
    BY <2>1, <2>2 DEF Admissible
  <2>4. QED
    BY <2>2, <2>3, BeginStep
<1>6. ASSUME Delete(p, t)
      PROVE  IInv'
  <2> DEFINE r == [IdleReq EXCEPT !.op = "delete", !.pc = "event", !.t = t]
  <2>1. r \in ReqState /\ r.op = "delete"
    BY Types DEF ReqState, Op
  <2>2. /\ Begin(p, r)
        /\ UNCHANGED <<row, comments, events, rels, graph, keyShare, patched>>
    BY <1>6 DEF Delete
  <2> HIDE DEF r
  <2>3. Admissible(r)
    BY <2>1 DEF Admissible
  <2>4. QED
    BY <2>2, <2>3, BeginStep
<1>7. QED
  BY <1>1, <1>2, <1>3, <1>4, <1>5, <1>6 DEF Arrive

-----------------------------------------------------------------------------
\* Steps about one ticket.

LEMMA LogUnheard ==
  ASSUME Typed, NEW t \in Ticket, NEW e \in EventType, Log(t, e),
         e.action \notin {"status_changed", "deleted"}
  PROVE  /\ events' \in [Ticket -> Seq(EventType)]
         /\ \A u \in Ticket \ {t} : events'[u] = events[u]
         /\ EventsOf(t, "status_changed")' = EventsOf(t, "status_changed")
         /\ EventsOf(t, "deleted")' = EventsOf(t, "deleted")
         /\ \A i \in EventsOf(t, "status_changed") : events'[t][i] = events[t][i]
BY LogEffect DEF EventsOf

\* An event that is no close and no deletion, written about a ticket that is
\* there, keeps what its events tell.
LEMMA Telling ==
  ASSUME Typed, NEW t \in Ticket, NEW e \in EventType, Log(t, e), Sound(t),
         Live(t), row'[t].life = "live",
         e.action \notin {"status_changed", "deleted"},
         row[t].status = "closed" <=> row'[t].status = "closed"
  PROVE  Closing(t)' /\ Ending(t)'
<1>1. /\ EventsOf(t, "status_changed")' = EventsOf(t, "status_changed")
      /\ EventsOf(t, "deleted")' = EventsOf(t, "deleted")
      /\ \A i \in EventsOf(t, "status_changed") : events'[t][i] = events[t][i]
  BY LogUnheard
<1>2. Closing(t)'
  BY <1>1 DEF Sound, Closing
<1>3. Ending(t)'
  BY <1>1 DEF Sound, Ending, Live
<1>4. QED
  BY <1>2, <1>3

LEMMA CreateStep ==
  ASSUME IInv, NEW t \in Ticket, Create(t)
  PROVE  IInv'
<1> DEFINE e == Event("created", "", "")
<1>1. e \in EventType /\ e.action = "created"
  BY DEF Event, EventType, Actions, Value
<1>2. Log(t, e)
  BY DEF Create
<1>3. /\ ops < MaxOps /\ ops' = ops + 1
      /\ row[t].life = "unborn" /\ row' = [row EXCEPT ![t] = NewRow]
      /\ UNCHANGED <<comments, rels, graph, req, keyShare, patched>>
  BY DEF Create
<1> HIDE DEF e
<1>4. Typed /\ Sound(t) /\ Admitted
  BY DEF IInv
<1>5. /\ events' \in [Ticket -> Seq(EventType)]
      /\ \A u \in Ticket \ {t} : events'[u] = events[u]
      /\ EventsOf(t, "status_changed")' = EventsOf(t, "status_changed")
      /\ EventsOf(t, "deleted")' = EventsOf(t, "deleted")
  BY <1>1, <1>2, <1>4, LogUnheard
<1>6. row'[t] = NewRow /\ \A u \in Ticket \ {t} : row'[u] = row[u]
  BY <1>3, <1>4 DEF Typed
<1>7. NewRow.status = "open" /\ NewRow.life = "live"
  BY DEF NewRow
<1>8. row[t].status = "open" /\ row[t].field = NewRow.field
  BY <1>3, <1>4 DEF Sound, Unborn, NewRow
<1>9. Typed'
  <2>1. row' \in [Ticket -> RowType]
    BY <1>3, <1>4, Types DEF Typed
  <2>2. ops' \in 0..MaxOps
    BY <1>3, <1>4, TicketAssumption DEF Typed
  <2>3. QED
    BY <2>1, <2>2, <1>3, <1>4, <1>5 DEF Typed
<1>10. Closing(t)' /\ Ending(t)'
  BY <1>4, <1>5, <1>6, <1>7, <1>8, <1>3 DEF Sound, Closing, Ending
<1>11. Unborn(t)' /\ Held(t)' /\ Kept(t)'
  BY <1>3, <1>4, <1>6, <1>7, <1>8 DEF Sound, Unborn, Held, Kept, Live
<1>12. Admitted' /\ Others(t) /\ rels' \subseteq rels
  BY <1>3, <1>4, <1>5, <1>6 DEF Others, Admitted, Admissible
<1>13. QED
  BY <1>9, <1>10, <1>11, <1>12, TicketStep DEF Sound

LEMMA UpdateStep ==
  ASSUME IInv, NEW p \in Request, CommitUpdate(p)
  PROVE  IInv'
<1> DEFINE r == req[p]
           e == Event("updated", "", "")
<1>1. Typed /\ Admitted /\ r \in ReqState /\ End(p)
  BY DEF IInv, Admitted, CommitUpdate
<1>2. Admitted'
  BY <1>1, EndStep
<1>3. CASE ~StillOpen(r.t)
  <2>1. UNCHANGED <<row, comments, events, rels, keyShare, patched, graph, ops>>
    BY <1>3 DEF CommitUpdate
  <2>2. QED
    BY <2>1, <1>1, <1>2, QuietStep DEF Typed
<1>4. CASE StillOpen(r.t)
  <2>1. PICK t \in Ticket : t = r.t
    BY <1>1 DEF ReqState
  <2>2. /\ Sound(t) /\ Live(t) /\ row[t].status # "closed"
        /\ row[t] \in RowType /\ patched[t] \in [Field -> 0..MaxOps]
    BY <1>4, <1>1, <2>1 DEF IInv, StillOpen, Typed
  <2> DEFINE f == PatchedField(r, row[t].field)
             g == [x \in Field |-> IF x \in r.patch THEN r.value ELSE patched[t][x]]
             w == [row[t] EXCEPT !.field = f]
  <2>3. /\ row' = [row EXCEPT ![t] = w] /\ patched' = [patched EXCEPT ![t] = g]
        /\ Log(t, e) /\ UNCHANGED <<comments, rels, graph, keyShare, ops>>
    BY <1>4, <2>1 DEF CommitUpdate
  <2>4. f = g /\ f \in [Field -> 0..MaxOps]
    BY <1>1, <2>2 DEF Sound, Kept, PatchedField, RowType, ReqState
  <2> HIDE DEF f, g
  <2>5. /\ w \in RowType /\ w.field = f /\ w.life = row[t].life
        /\ w.status = row[t].status
    BY <2>2, <2>4 DEF RowType
  <2> HIDE DEF w
  <2>6. row'[t] = w /\ patched'[t] = g
    BY <2>3, <1>1 DEF Typed
  <2>7. /\ \A u \in Ticket \ {t} : row'[u] = row[u] /\ patched'[u] = patched[u]
        /\ row' \in [Ticket -> RowType] /\ patched' \in [Ticket -> [Field -> 0..MaxOps]]
    BY <2>3, <2>4, <2>5, <1>1 DEF Typed
  <2>8. e \in EventType /\ e.action = "updated"
    BY DEF Event, EventType, Actions, Value
  <2> HIDE DEF e
  <2>9. /\ events' \in [Ticket -> Seq(EventType)]
        /\ \A u \in Ticket \ {t} : events'[u] = events[u]
    BY <2>3, <2>8, <1>1, LogEffect
  <2>10. Closing(t)' /\ Ending(t)'
    BY <2>2, <2>3, <2>5, <2>6, <2>8, <1>1, Telling DEF Live
  <2>11. Unborn(t)' /\ Held(t)' /\ Kept(t)'
    BY <2>2, <2>3, <2>4, <2>5, <2>6 DEF Sound, Unborn, Held, Kept, Live
  <2>12. Typed'
    BY <2>3, <2>7, <2>9, <1>1 DEF Typed
  <2>13. Others(t) /\ rels' \subseteq rels
    BY <2>3, <2>7, <2>9 DEF Others
  <2>14. QED
    BY <2>10, <2>11, <2>12, <2>13, <1>2, TicketStep DEF Sound
<1>5. QED
  BY <1>3, <1>4

LEMMA CloseStep ==
  ASSUME IInv, NEW p \in Request, CommitClose(p)
  PROVE  IInv'
<1> DEFINE r == req[p]
<1>1. Typed /\ Admitted /\ r \in ReqState /\ Admissible(r) /\ At(p, "close", "commit") /\ End(p)
  BY DEF IInv, Admitted, CommitClose
<1>2. Admitted'
  BY <1>1, EndStep
<1>3. CASE ~(Live(r.t) /\ StatusMatches(r))
  <2>1. UNCHANGED <<row, comments, events, rels, keyShare, patched, graph, ops>>
    BY <1>3 DEF CommitClose
  <2>2. QED
    BY <2>1, <1>1, <1>2, QuietStep DEF Typed
<1>4. CASE Live(r.t) /\ StatusMatches(r)
  <2>1. PICK t \in Ticket : t = r.t
    BY <1>1 DEF ReqState
  <2> DEFINE e == Event("status_changed", r.seen.status, "closed")
             w == [row[t] EXCEPT !.status = "closed"]
  <2>2. /\ Sound(t) /\ Live(t) /\ row[t].status # "closed"
        /\ row[t] \in RowType /\ row[t].status = r.seen.status
    BY <1>4, <1>1, <2>1 DEF IInv, StatusMatches, Typed, Admissible, At
  <2>3. PICK n \in {0, 1} : comments' = [comments EXCEPT ![t] = @ + n]
    BY <1>4, <2>1 DEF CommitClose
  <2>4. /\ row' = [row EXCEPT ![t] = w]
        /\ Log(t, e) /\ UNCHANGED <<rels, graph, keyShare, patched, ops>>
    BY <1>4, <2>1 DEF CommitClose
  <2>5. w \in RowType /\ w.field = row[t].field /\ w.life = row[t].life /\ w.status = "closed"
    BY <2>2 DEF RowType, Status
  <2> HIDE DEF w
  <2>6. /\ row'[t] = w /\ \A u \in Ticket \ {t} : row'[u] = row[u]
        /\ row' \in [Ticket -> RowType]
    BY <2>4, <2>5, <1>1 DEF Typed
  <2>7. e \in EventType /\ e.action = "status_changed" /\ e.from # "closed"
    <3>1. r.seen.status \in Value /\ "closed" \in Value /\ r.seen.status # "closed"
      BY <2>2 DEF Value, RowType, Status
    <3>2. QED
      BY <3>1 DEF Event, EventType, Actions
  <2> HIDE DEF e
  <2>8. /\ events' \in [Ticket -> Seq(EventType)]
        /\ \A u \in Ticket \ {t} : events'[u] = events[u]
        /\ events'[t][Len(events[t]) + 1] = e
    BY <2>4, <2>7, <1>1, LogEffect
  <2>9. /\ EventsOf(t, "status_changed")' =
             EventsOf(t, "status_changed") \cup {Len(events[t]) + 1}
        /\ EventsOf(t, "deleted")' = EventsOf(t, "deleted")
    BY <2>4, <2>7, <1>1, LogEffect DEF EventsOf
  <2>10. EventsOf(t, "status_changed") = {}
    BY <2>2 DEF Sound, Closing
  <2>11. Closing(t)'
    BY <2>5, <2>6, <2>7, <2>8, <2>9, <2>10 DEF Closing
  <2>12. Ending(t)' /\ Unborn(t)' /\ Held(t)' /\ Kept(t)'
    BY <2>2, <2>4, <2>5, <2>6, <2>9 DEF Sound, Ending, Unborn, Held, Kept, Live
  <2>13. /\ comments' \in [Ticket -> Nat]
         /\ \A u \in Ticket \ {t} : comments'[u] = comments[u]
    BY <2>3, <1>1 DEF Typed
  <2>14. Typed'
    BY <2>4, <2>6, <2>8, <2>13, <1>1 DEF Typed
  <2>15. Others(t) /\ rels' \subseteq rels
    BY <2>4, <2>6, <2>8, <2>13 DEF Others
  <2>16. QED
    BY <2>11, <2>12, <2>14, <2>15, <1>2, TicketStep DEF Sound
<1>5. QED
  BY <1>3, <1>4

LEMMA AssignStep ==
  ASSUME IInv, NEW p \in Request, CommitAssign(p)
  PROVE  IInv'
<1> DEFINE r == req[p]
           new == Target(r)
           moves == new # r.seen.status
<1>1. Typed /\ Admitted /\ r \in ReqState /\ Admissible(r) /\ At(p, "assign", "commit") /\ End(p)
  BY DEF IInv, Admitted, CommitAssign
<1>2. Admitted'
  BY <1>1, EndStep
<1>3. CASE ~(StillOpen(r.t) /\ (moves => StatusMatches(r)))
  <2>1. UNCHANGED <<row, comments, events, rels, keyShare, patched, graph, ops>>
    BY <1>3 DEF CommitAssign
  <2>2. QED
    BY <2>1, <1>1, <1>2, QuietStep DEF Typed
<1>4. CASE StillOpen(r.t) /\ (moves => StatusMatches(r))
  <2>1. PICK t \in Ticket : t = r.t
    BY <1>1 DEF ReqState
  <2> DEFINE e == Event("assigned", r.seen.assignee, r.user)
             s == IF moves THEN new ELSE row[t].status
             w == [row[t] EXCEPT !.assignee = r.user, !.status = s]
  <2>2. /\ Sound(t) /\ Live(t) /\ row[t].status # "closed"
        /\ row[t] \in RowType
    BY <1>4, <1>1, <2>1 DEF IInv, StillOpen, Typed
  <2>3. /\ row' = [row EXCEPT ![t] = w]
        /\ Log(t, e) /\ UNCHANGED <<comments, rels, graph, keyShare, patched, ops>>
    BY <1>4, <2>1 DEF CommitAssign
  <2>4. new \in {"assigned", "open", r.seen.status}
    BY <1>1 DEF Target, NewStatus, At
  <2>5. s \in Status /\ s # "closed"
    BY <2>2, <2>4 DEF Status, RowType
  <2> HIDE DEF s
  <2>6. /\ w \in RowType /\ w.field = row[t].field /\ w.life = row[t].life
        /\ w.status # "closed"
    BY <2>2, <2>5, <1>1 DEF RowType, ReqState
  <2> HIDE DEF w
  <2>7. /\ row'[t] = w /\ \A u \in Ticket \ {t} : row'[u] = row[u]
        /\ row' \in [Ticket -> RowType]
    BY <2>3, <2>6, <1>1 DEF Typed
  <2>8. e \in EventType /\ e.action = "assigned"
    BY <1>1 DEF Event, EventType, Actions, Value, ReqState, RowType
  <2> HIDE DEF e
  <2>9. /\ events' \in [Ticket -> Seq(EventType)]
        /\ \A u \in Ticket \ {t} : events'[u] = events[u]
    BY <2>3, <2>8, <1>1, LogEffect
  <2>10. Closing(t)' /\ Ending(t)'
    BY <2>2, <2>3, <2>6, <2>7, <2>8, <1>1, Telling DEF Live
  <2>11. Unborn(t)' /\ Held(t)' /\ Kept(t)'
    BY <2>2, <2>3, <2>6, <2>7 DEF Sound, Unborn, Held, Kept, Live
  <2>12. Typed'
    BY <2>3, <2>7, <2>9, <1>1 DEF Typed
  <2>13. Others(t) /\ rels' \subseteq rels
    BY <2>3, <2>7, <2>9 DEF Others
  <2>14. QED
    BY <2>10, <2>11, <2>12, <2>13, <1>2, TicketStep DEF Sound
<1>5. QED
  BY <1>3, <1>4

LEMMA CommentStep ==
  ASSUME IInv, NEW p \in Request, CommitComment(p)
  PROVE  IInv'
<1>1. Typed /\ Admitted /\ req[p] \in ReqState /\ End(p)
  BY DEF IInv, Admitted, CommitComment
<1>2. Admitted'
  BY <1>1, EndStep
<1>3. PICK t \in Ticket : t = req[p].t
  BY <1>1 DEF ReqState
<1>4. CASE ~Live(t)
  <2>1. UNCHANGED <<row, comments, events, rels, keyShare, patched, graph, ops>>
    BY <1>3, <1>4 DEF CommitComment
  <2>2. QED
    BY <2>1, <1>1, <1>2, QuietStep DEF Typed
<1>5. CASE Live(t)
  <2>1. PICK a \in {"comment", "note"} : Log(t, Event(a, "", ""))
    BY <1>3, <1>5 DEF CommitComment
  <2>2. /\ comments' = [comments EXCEPT ![t] = @ + 1]
        /\ UNCHANGED <<row, rels, graph, keyShare, patched, ops>>
    BY <1>3, <1>5 DEF CommitComment
  <2> DEFINE e == Event(a, "", "")
  <2>3. e \in EventType /\ e.action \in {"comment", "note"} /\ Log(t, e)
    BY <2>1 DEF Event, EventType, Actions, Value
  <2> HIDE DEF e
  <2>4. Sound(t)
    BY DEF IInv
  <2>5. /\ events' \in [Ticket -> Seq(EventType)]
        /\ \A u \in Ticket \ {t} : events'[u] = events[u]
    BY <2>3, <1>1, LogEffect
  <2>6. Closing(t)' /\ Ending(t)'
    BY <2>2, <2>3, <2>4, <1>1, <1>5, Telling DEF Live
  <2>7. Unborn(t)' /\ Held(t)' /\ Kept(t)'
    BY <2>2, <2>4 DEF Sound, Unborn, Held, Kept, Live
  <2>8. /\ comments' \in [Ticket -> Nat]
        /\ \A u \in Ticket \ {t} : comments'[u] = comments[u]
    BY <2>2, <1>1 DEF Typed
  <2>9. Typed' /\ Others(t) /\ rels' \subseteq rels
    BY <2>2, <2>5, <2>8, <1>1 DEF Typed, Others
  <2>10. QED
    BY <2>6, <2>7, <2>9, <1>2, TicketStep DEF Sound
<1>6. QED
  BY <1>4, <1>5

\* The two foreign keys and the index decide.
LEMMA RelationStep ==
  ASSUME IInv, NEW p \in Request, InsertRelation(p)
  PROVE  IInv'
<1>1. /\ Typed /\ Admitted /\ req[p] \in ReqState /\ Admissible(req[p])
      /\ At(p, "relate", "commit") /\ End(p)
      /\ UNCHANGED <<row, comments, events, graph, keyShare, patched, ops>>
  BY DEF IInv, Admitted, InsertRelation
<1>2. Admitted'
  BY <1>1, EndStep
<1>3. PICK s \in Ticket, t \in Ticket : s = req[p].t /\ t = req[p].other /\ s # t
  BY <1>1 DEF ReqState, Admissible, At
<1>4. CASE ~(Live(s) /\ Live(t) /\ IndexAdmits(s, t))
  <2>1. UNCHANGED rels
    BY <1>3, <1>4 DEF InsertRelation
  <2>2. QED
    BY <2>1, <1>1, <1>2, QuietStep DEF Typed
<1>5. CASE Live(s) /\ Live(t) /\ IndexAdmits(s, t)
  <2>1. rels' = rels \cup {<<s, t>>}
    BY <1>3, <1>5 DEF InsertRelation
  <2>2. Typed'
    BY <2>1, <1>1 DEF Typed
  <2>3. OneRelationPerPair'
    <3>1. SUFFICES ASSUME NEW x \in Ticket, NEW y \in Ticket,
                          <<x, y>> \in rels', <<y, x>> \in rels'
                   PROVE  FALSE
      BY DEF OneRelationPerPair
    <3>2. ~(<<x, y>> \in rels /\ <<y, x>> \in rels)
      BY DEF IInv, OneRelationPerPair
    <3>3. <<s, t>> \notin rels /\ <<t, s>> \notin rels
      BY <1>5 DEF IndexAdmits, Related
    <3>4. QED
      BY <3>1, <3>2, <3>3, <2>1, <1>3
  <2>4. ASSUME NEW u \in Ticket
        PROVE  Sound(u)'
    <3>1. Sound(u)
      BY DEF IInv
    <3>2. \A a : EventsOf(u, a)' = EventsOf(u, a)
      BY <1>1 DEF EventsOf
    <3>3. Closing(u)'
      BY <3>1, <3>2, <1>1 DEF Sound, Closing
    <3>4. Ending(u)'
      <4>1. UNCHANGED row /\ UNCHANGED comments /\ Ending(u)
        BY <3>1, <1>1 DEF Sound
      <4>2. EventsOf(u, "deleted")' = EventsOf(u, "deleted")
        BY <3>2
      <4>3. CASE row[u].life = "deleted"
        <5>1. u # s /\ u # t
          BY <4>3, <1>5 DEF Live
        <5>2. \A r \in rels' : u \notin {r[1], r[2]}
          BY <4>1, <4>3, <5>1, <2>1 DEF Ending
        <5>3. QED
          BY <4>1, <4>2, <4>3, <5>2 DEF Ending
      <4>4. CASE row[u].life # "deleted"
        BY <4>1, <4>2, <4>4 DEF Ending
      <4>5. QED
        BY <4>3, <4>4
    <3>5. Unborn(u)' /\ Held(u)' /\ Kept(u)'
      BY <3>1, <1>1 DEF Sound, Unborn, Held, Kept, Live
    <3>6. QED
      BY <3>3, <3>4, <3>5 DEF Sound
  <2>5. QED
    BY <2>2, <2>3, <2>4, <1>2 DEF IInv
<1>6. QED
  BY <1>4, <1>5

\* Taking and giving back the lock of the foreign key, with the row that is
\* not committed yet.
LEMMA LockStep ==
  ASSUME IInv, Admitted', NEW t \in Ticket, NEW k \in SUBSET Request,
         k = {} \/ Live(t), keyShare' = [keyShare EXCEPT ![t] = k],
         events' \in [Ticket -> Seq(EventType)],
         \A u \in Ticket \ {t} : events'[u] = events[u],
         EventsOf(t, "status_changed")' = EventsOf(t, "status_changed"),
         EventsOf(t, "deleted")' = EventsOf(t, "deleted"),
         \A i \in EventsOf(t, "status_changed") : events'[t][i] = events[t][i],
         UNCHANGED <<row, comments, rels, graph, patched, ops>>
  PROVE  IInv'
<1>1. Typed /\ Sound(t)
  BY DEF IInv
<1>2. keyShare'[t] = k /\ \A u \in Ticket \ {t} : keyShare'[u] = keyShare[u]
  BY <1>1 DEF Typed
<1>3. Typed' /\ Others(t) /\ rels' \subseteq rels
  BY <1>1, <1>2 DEF Typed, Others
<1>4. Closing(t)' /\ Ending(t)'
  BY <1>1 DEF Sound, Closing, Ending
<1>5. Unborn(t)' /\ Held(t)' /\ Kept(t)'
  BY <1>1, <1>2 DEF Sound, Unborn, Held, Kept, Live
<1>6. QED
  BY <1>3, <1>4, <1>5, TicketStep DEF Sound

LEMMA Replaced ==
  ASSUME NEW s \in Seq(EventType), NEW x, NEW y \in EventType, NEW z,
         z = [i \in DOMAIN s |-> IF s[i] = x THEN y ELSE s[i]]
  PROVE  /\ z \in Seq(EventType) /\ Len(s) \in Nat /\ Len(z) = Len(s)
         /\ \A i \in 1..Len(s) : z[i] = IF s[i] = x THEN y ELSE s[i]
<1>1. Len(s) \in Nat /\ DOMAIN s = 1..Len(s)
  OBVIOUS
<1>2. \A i \in 1..Len(s) : s[i] \in EventType
  OBVIOUS
<1>3. DOMAIN z = 1..Len(s) /\ \A i \in 1..Len(s) : z[i] = IF s[i] = x THEN y ELSE s[i]
  BY <1>1
<1>4. z \in [1..Len(s) -> EventType]
  BY <1>1, <1>2
<1>5. z \in Seq(EventType)
  BY <1>1, <1>4
<1>6. Len(z) = Len(s)
  BY <1>1, <1>3, <1>5
<1>7. QED
  BY <1>1, <1>3, <1>5, <1>6

\* What becomes of the row of an open deletion: it keeps its place.
LEMMA SettleEffect ==
  ASSUME Typed, NEW t \in Ticket, NEW p \in Request, NEW a \in {"deleted", "undone"},
         Settle(t, p, a)
  PROVE  /\ events' \in [Ticket -> Seq(EventType)]
         /\ \A u \in Ticket \ {t} : events'[u] = events[u]
         /\ Len(events[t]) \in Nat /\ Len(events'[t]) = Len(events[t])
         /\ \A i \in 1..Len(events[t]) : events'[t][i] =
              IF events[t][i] = Deleting(p) THEN Event(a, "", "") ELSE events[t][i]
<1> DEFINE s == events[t]
           y == Event(a, "", "")
           z == [i \in DOMAIN s |-> IF s[i] = Deleting(p) THEN y ELSE s[i]]
<1>1. s \in Seq(EventType) /\ events' = [events EXCEPT ![t] = z]
  BY DEF Typed, Settle
<1>2. y \in EventType
  BY DEF Event, EventType, Actions, Value
<1>3. PICK w : w = z
  OBVIOUS
<1> HIDE DEF y
<1>4. /\ w \in Seq(EventType) /\ Len(s) \in Nat /\ Len(w) = Len(s)
      /\ \A i \in 1..Len(s) : w[i] = IF s[i] = Deleting(p) THEN y ELSE s[i]
  BY <1>1, <1>2, <1>3, Replaced
<1> HIDE DEF z
<1>5. events'[t] = w /\ \A u \in Ticket \ {t} : events'[u] = events[u]
  BY <1>1, <1>3 DEF Typed
<1>6. events' \in [Ticket -> Seq(EventType)]
  BY <1>1, <1>3, <1>4 DEF Typed
<1>7. QED
  BY <1>4, <1>5, <1>6 DEF y

\* It is no close, whatever becomes of it.
LEMMA SettleUnheard ==
  ASSUME Typed, NEW t \in Ticket, NEW p \in Request, NEW a \in {"deleted", "undone"},
         Settle(t, p, a)
  PROVE  /\ EventsOf(t, "status_changed")' = EventsOf(t, "status_changed")
         /\ \A i \in EventsOf(t, "status_changed") : events'[t][i] = events[t][i]
         /\ EventsOf(t, "deleted")' = EventsOf(t, "deleted") \cup
              (IF a = "deleted" THEN Entries(t, p) ELSE {})
<1>1. /\ Len(events'[t]) = Len(events[t])
      /\ \A i \in 1..Len(events[t]) : events'[t][i] =
           IF events[t][i] = Deleting(p) THEN Event(a, "", "") ELSE events[t][i]
  BY SettleEffect
<1>2. Deleting(p).action = "deleting" /\ Event(a, "", "").action = a
  BY DEF Deleting, Event
<1>3. \A b : EventsOf(t, b)' = {i \in 1..Len(events[t]) : events'[t][i].action = b}
  BY <1>1 DEF EventsOf
<1>4. QED
  BY <1>1, <1>2, <1>3 DEF EventsOf, Entries

LEMMA DeleteBegins ==
  ASSUME IInv, NEW p \in Request, DeleteInsertEvent(p)
  PROVE  IInv'
<1>1. /\ Typed /\ Admitted /\ req[p] \in ReqState /\ At(p, "delete", "event")
      /\ UNCHANGED <<row, comments, rels, graph, patched, ops>>
  BY DEF IInv, Admitted, DeleteInsertEvent
<1>2. PICK t \in Ticket : t = req[p].t
  BY <1>1 DEF ReqState
<1>3. CASE Live(t)
  <2> DEFINE e == Deleting(p)
  <2>1. /\ keyShare' = [keyShare EXCEPT ![t] = keyShare[t] \cup {p}]
        /\ Log(t, e) /\ Goto(p, "row")
    BY <1>2, <1>3 DEF DeleteInsertEvent
  <2>2. Admitted'
    BY <2>1, <1>1, GotoStep DEF At
  <2>3. keyShare[t] \cup {p} \in SUBSET Request
    BY <1>1 DEF Typed
  <2>4. e \in EventType /\ e.action = "deleting"
    BY DEF Deleting, Event, EventType, Actions, Value
  <2> HIDE DEF e
  <2>5. /\ events' \in [Ticket -> Seq(EventType)]
        /\ \A u \in Ticket \ {t} : events'[u] = events[u]
        /\ EventsOf(t, "status_changed")' = EventsOf(t, "status_changed")
        /\ EventsOf(t, "deleted")' = EventsOf(t, "deleted")
        /\ \A i \in EventsOf(t, "status_changed") : events'[t][i] = events[t][i]
    BY <2>1, <2>4, <1>1, LogUnheard
  <2>6. QED
    BY <2>1, <2>2, <2>3, <2>5, <1>1, <1>3, LockStep
<1>4. CASE ~Live(t)
  <2>1. End(p) /\ UNCHANGED <<events, keyShare>>
    BY <1>2, <1>4 DEF DeleteInsertEvent
  <2>2. QED
    BY <2>1, <1>1, EndStep, QuietStep DEF Typed
<1>5. QED
  BY <1>3, <1>4

LEMMA DeleteAborts ==
  ASSUME IInv, NEW p \in Request, DeleteDeadlock(p)
  PROVE  IInv'
<1>1. /\ Typed /\ Admitted /\ req[p] \in ReqState /\ End(p)
      /\ UNCHANGED <<row, comments, rels, graph, patched, ops>>
  BY DEF IInv, Admitted, DeleteDeadlock
<1>2. PICK t \in Ticket : t = req[p].t
  BY <1>1 DEF ReqState
<1>3. keyShare' = [keyShare EXCEPT ![t] = keyShare[t] \ {p}] /\ Settle(t, p, "undone")
  BY <1>2 DEF DeleteDeadlock
<1>4. /\ keyShare[t] \ {p} \in SUBSET Request
      /\ keyShare[t] \ {p} = {} \/ Live(t)
  BY <1>1 DEF Typed, IInv, Sound, Held
<1>5. Admitted'
  BY <1>1, EndStep
<1>6. /\ events' \in [Ticket -> Seq(EventType)]
      /\ \A u \in Ticket \ {t} : events'[u] = events[u]
  BY <1>1, <1>3, SettleEffect
<1>7. /\ EventsOf(t, "status_changed")' = EventsOf(t, "status_changed")
      /\ EventsOf(t, "deleted")' = EventsOf(t, "deleted")
      /\ \A i \in EventsOf(t, "status_changed") : events'[t][i] = events[t][i]
  BY <1>1, <1>3, SettleUnheard
<1>8. QED
  BY <1>1, <1>3, <1>4, <1>5, <1>6, <1>7, LockStep

LEMMA DeleteCommits ==
  ASSUME IInv, Pledges, NEW p \in Request, DeleteRow(p)
  PROVE  IInv'
<1>1. /\ Typed /\ Admitted /\ req[p] \in ReqState /\ End(p)
      /\ UNCHANGED <<graph, patched, ops>>
  BY DEF IInv, Admitted, DeleteRow
<1>2. PICK t \in Ticket : t = req[p].t
  BY <1>1 DEF ReqState
<1> DEFINE w == [row[t] EXCEPT !.life = "deleted"]
<1>3. /\ keyShare[t] = {p} /\ Settle(t, p, "deleted") /\ rels' = Cascade(t)
      /\ row' = [row EXCEPT ![t] = w]
      /\ comments' = [comments EXCEPT ![t] = 0]
      /\ keyShare' = [keyShare EXCEPT ![t] = {}]
  BY <1>2 DEF DeleteRow
<1>4. Sound(t) /\ Live(t) /\ row[t] \in RowType
  BY <1>1, <1>3 DEF IInv, Sound, Held, Typed
<1>5. /\ w \in RowType /\ w.field = row[t].field /\ w.life = "deleted"
      /\ w.status = row[t].status
  BY <1>4 DEF RowType
<1> HIDE DEF w
<1>6. /\ row'[t] = w /\ row' \in [Ticket -> RowType]
      /\ \A u \in Ticket \ {t} : row'[u] = row[u]
  BY <1>1, <1>3, <1>5 DEF Typed
<1>7. /\ comments'[t] = 0 /\ comments' \in [Ticket -> Nat]
      /\ \A u \in Ticket \ {t} : comments'[u] = comments[u]
  BY <1>1, <1>3 DEF Typed
<1>8. /\ keyShare'[t] = {} /\ keyShare' \in [Ticket -> SUBSET Request]
      /\ \A u \in Ticket \ {t} : keyShare'[u] = keyShare[u]
  BY <1>1, <1>3 DEF Typed
<1>9. PICK i : Entries(t, p) = {i}
  BY <1>3 DEF Pledges, Pledged
<1>10. /\ events' \in [Ticket -> Seq(EventType)]
       /\ \A u \in Ticket \ {t} : events'[u] = events[u]
  BY <1>1, <1>3, SettleEffect
<1>11. /\ EventsOf(t, "status_changed")' = EventsOf(t, "status_changed")
       /\ EventsOf(t, "deleted")' = EventsOf(t, "deleted") \cup {i}
       /\ \A j \in EventsOf(t, "status_changed") : events'[t][j] = events[t][j]
  BY <1>1, <1>3, <1>9, SettleUnheard
<1>12. Closing(t)'
  BY <1>4, <1>5, <1>6, <1>11 DEF Sound, Closing
<1>13. rels' \subseteq rels /\ \A r \in rels' : t \notin {r[1], r[2]}
  BY <1>3 DEF Cascade
<1>14. Ending(t)'
  <2>1. EventsOf(t, "deleted") = {}
    BY <1>4 DEF Sound, Ending, Live
  <2>2. EventsOf(t, "deleted")' = {i}
    BY <2>1, <1>11
  <2>3. QED
    BY <2>2, <1>5, <1>6, <1>7, <1>13 DEF Ending
<1>15. Unborn(t)' /\ Held(t)' /\ Kept(t)'
  BY <1>1, <1>4, <1>5, <1>6, <1>8 DEF Sound, Unborn, Held, Kept, Live
<1>16. Typed' /\ Others(t)
  BY <1>1, <1>6, <1>7, <1>8, <1>10, <1>13 DEF Typed, Others
<1>17. Admitted'
  BY <1>1, EndStep
<1>18. QED
  BY <1>12, <1>13, <1>14, <1>15, <1>16, <1>17, TicketStep DEF Sound

-----------------------------------------------------------------------------
\* Steps about no ticket.

LEMMA ReadStep ==
  ASSUME IInv, NEW p \in Request, AssertTransition(p) \/ ExistsRelationBetween(p)
  PROVE  IInv'
<1>1. /\ Typed /\ Admitted /\ req[p].pc # "idle"
      /\ End(p) \/ Goto(p, "commit")
      /\ UNCHANGED <<row, comments, events, rels, graph, keyShare, patched, ops>>
  BY DEF IInv, AssertTransition, ExistsRelationBetween, At
<1>2. Admitted'
  BY <1>1, EndStep, GotoStep
<1>3. QED
  BY <1>1, <1>2, QuietStep DEF Typed

-----------------------------------------------------------------------------
\* Pledges.

\* A request that is between the two statements of no deletion may do what it
\* wants, as long as it inserts no such row.
LEMMA PledgeFrame ==
  ASSUME IInv, Pledges, UNCHANGED keyShare,
         \A q \in Request : At(q, "delete", "row") => req'[q] = req[q],
         NEW t \in Ticket, NEW e \in EventType, e.action # "deleting",
         UNCHANGED events \/ Log(t, e)
  PROVE  Pledges'
<1>1. SUFFICES ASSUME NEW u \in Ticket, NEW q \in Request PROVE Pledged(u, q)'
  BY DEF Pledges
<1>2. Pledged(u, q)
  BY DEF Pledges
<1>3. Entries(u, q)' = Entries(u, q)
  <2>1. CASE UNCHANGED events
    BY <2>1 DEF Entries
  <2>2. CASE Log(t, e) /\ u # t
    <3>1. events'[u] = events[u]
      BY <2>2, LogEffect DEF IInv
    <3>2. QED
      BY <3>1 DEF Entries
  <2>3. CASE Log(t, e) /\ u = t
    <3>1. /\ Len(events[t]) \in Nat /\ Len(events'[t]) = Len(events[t]) + 1
          /\ events'[t][Len(events[t]) + 1] = e
          /\ \A i \in 1..Len(events[t]) : events'[t][i] = events[t][i]
      BY <2>3, LogEffect DEF IInv
    <3>2. Deleting(q).action = "deleting"
      BY DEF Deleting, Event
    <3> DEFINE n == Len(events[t])
    <3>3. 1..(n + 1) = (1..n) \cup {n + 1}
      BY <3>1
    <3>4. Entries(u, q)' = {i \in 1..(n + 1) : events'[t][i] = Deleting(q)}
      BY <3>1, <2>3 DEF Entries
    <3>5. Entries(u, q) = {i \in 1..n : events[t][i] = Deleting(q)}
      BY <2>3 DEF Entries
    <3> HIDE DEF n
    <3>6. QED
      BY <3>1, <3>2, <3>3, <3>4, <3>5 DEF n
  <2>4. QED
    BY <2>1, <2>2, <2>3
<1>4. QED
  BY <1>2, <1>3 DEF Pledged, At

\* A step of a request that is at no such point leaves the others where they are.
LEMMA OneMoves ==
  ASSUME Admitted, NEW p \in Request, NEW r, Moves(p, r) \/ UNCHANGED req,
         ~At(p, "delete", "row")
  PROVE  \A q \in Request : At(q, "delete", "row") => req'[q] = req[q]
BY DEF Admitted, Moves

\* Every other event a request writes.
LEMMA Spoken ==
  ASSUME IInv, NEW p \in Request
  PROVE  /\ Event("updated", "", "") \in EventType
         /\ \A a \in {"comment", "note"} : Event(a, "", "") \in EventType
         /\ Event("created", "", "") \in EventType
         /\ Event("status_changed", req[p].seen.status, "closed") \in EventType
         /\ Event("assigned", req[p].seen.assignee, req[p].user) \in EventType
<1>1. req[p] \in ReqState
  BY DEF IInv, Admitted
<1>2. /\ req[p].seen.status \in Value /\ req[p].seen.assignee \in Value
      /\ req[p].user \in Value /\ "" \in Value /\ "closed" \in Value
  BY <1>1 DEF ReqState, RowType, Value, Status
<1>3. QED
  BY <1>2 DEF Event, EventType, Actions

LEMMA PledgesKept ==
  ASSUME IInv, Pledges, NEW p \in Request,
         \/ CommitUpdate(p) \/ AssertTransition(p) \/ CommitClose(p) \/ CommitAssign(p)
         \/ CommitComment(p) \/ ExistsRelationBetween(p) \/ InsertRelation(p)
  PROVE  Pledges'
<1>1. PICK t \in Ticket : t = req[p].t
  BY DEF IInv, Admitted, ReqState
<1>2. /\ UNCHANGED keyShare /\ ~At(p, "delete", "row") /\ Admitted
      /\ End(p) \/ Goto(p, "commit")
  BY DEF CommitUpdate, AssertTransition, CommitClose, CommitAssign, CommitComment,
         ExistsRelationBetween, InsertRelation, At, IInv
<1>3. \A q \in Request : At(q, "delete", "row") => req'[q] = req[q]
  BY <1>2, OneMoves DEF End, Goto, Moves
<1>4. \E e \in EventType : e.action # "deleting" /\ (UNCHANGED events \/ Log(t, e))
  <2>1. CASE CommitUpdate(p)
    <3>1. UNCHANGED events \/ Log(t, Event("updated", "", ""))
      BY <2>1, <1>1 DEF CommitUpdate
    <3>2. QED
      BY <3>1, Spoken DEF Event
  <2>2. CASE CommitClose(p)
    <3>1. UNCHANGED events \/ Log(t, Event("status_changed", req[p].seen.status, "closed"))
      BY <2>2, <1>1 DEF CommitClose
    <3>2. QED
      BY <3>1, Spoken DEF Event
  <2>3. CASE CommitAssign(p)
    <3>1. UNCHANGED events \/ Log(t, Event("assigned", req[p].seen.assignee, req[p].user))
      BY <2>3, <1>1 DEF CommitAssign
    <3>2. QED
      BY <3>1, Spoken DEF Event
  <2>4. CASE CommitComment(p)
    <3>1. UNCHANGED events \/ \E a \in {"comment", "note"} : Log(t, Event(a, "", ""))
      BY <2>4, <1>1 DEF CommitComment
    <3>2. QED
      BY <3>1, Spoken DEF Event
  <2>5. CASE AssertTransition(p) \/ ExistsRelationBetween(p) \/ InsertRelation(p)
    <3>1. UNCHANGED events
      BY <2>5 DEF AssertTransition, ExistsRelationBetween, InsertRelation
    <3>2. QED
      BY <3>1, Spoken DEF Event
  <2>6. QED
    BY <2>1, <2>2, <2>3, <2>4, <2>5
<1>5. QED
  BY <1>2, <1>3, <1>4, PledgeFrame

\* The first statement of a deletion makes the pledge,
LEMMA PledgeMade ==
  ASSUME IInv, Pledges, NEW p \in Request, DeleteInsertEvent(p)
  PROVE  Pledges'
<1>1. /\ Typed /\ Admitted /\ req[p] \in ReqState /\ At(p, "delete", "event")
      /\ ~At(p, "delete", "row")
  BY DEF IInv, Admitted, DeleteInsertEvent, At
<1>2. PICK t \in Ticket : t = req[p].t
  BY <1>1 DEF ReqState
<1>3. CASE ~Live(t)
  <2>1. End(p) /\ UNCHANGED <<events, keyShare>>
    BY <1>2, <1>3 DEF DeleteInsertEvent
  <2>2. \A q \in Request : At(q, "delete", "row") => req'[q] = req[q]
    BY <2>1, <1>1, OneMoves DEF End, Moves
  <2>3. QED
    BY <2>1, <2>2, Spoken, PledgeFrame DEF Event
<1>4. CASE Live(t)
  <2> DEFINE e == Deleting(p)
             n == Len(events[t])
  <2>1. /\ keyShare' = [keyShare EXCEPT ![t] = keyShare[t] \cup {p}]
        /\ Log(t, e) /\ Goto(p, "row")
    BY <1>2, <1>4 DEF DeleteInsertEvent
  <2>2. e \in EventType
    BY DEF Deleting, Event, EventType, Actions, Value
  <2>3. /\ \A u \in Ticket \ {t} : events'[u] = events[u]
        /\ n \in Nat /\ Len(events'[t]) = n + 1 /\ events'[t][n + 1] = e
        /\ \A i \in 1..n : events'[t][i] = events[t][i]
    BY <2>1, <2>2, <1>1, LogEffect
  <2>4. /\ \A q \in Request \ {p} : req'[q] = req[q]
        /\ req'[p].t = t /\ req'[p].op = "delete" /\ req'[p].pc = "row"
    BY <2>1, <1>1, <1>2 DEF Goto, Admitted, At, ReqState
  <2>5. /\ keyShare'[t] = keyShare[t] \cup {p}
        /\ \A u \in Ticket \ {t} : keyShare'[u] = keyShare[u]
    BY <2>1, <1>1 DEF Typed
  <2>6. 1..(n + 1) = (1..n) \cup {n + 1} /\ n + 1 \notin 1..n
    BY <2>3
  <2>7. \A q \in Request : Entries(t, q)' =
               {i \in 1..(n + 1) : events'[t][i] = Deleting(q)}
    BY <2>3 DEF Entries
  <2>8. \A q \in Request : Entries(t, q) = {i \in 1..n : events[t][i] = Deleting(q)}
    BY DEF Entries
  <2>9. \A q \in Request : e = Deleting(q) => q = p
    BY DEF Deleting, Event
  <2>10. \A u \in Ticket : p \notin keyShare[u] /\ Entries(u, p) = {}
    BY <1>1 DEF Pledges, Pledged
  <2> HIDE DEF n, e
  <2>11. Entries(t, p)' = {n + 1}
    BY <2>3, <2>6, <2>7, <2>8, <2>10 DEF e
  <2>12. ASSUME NEW q \in Request \ {p} PROVE Entries(t, q)' = Entries(t, q)
    <3>1. e # Deleting(q)
      BY <2>9
    <3>2. PICK d : d = Deleting(q)
      OBVIOUS
    <3>3. Entries(t, q)' = {i \in 1..(n + 1) : events'[t][i] = d}
      BY <3>2, <2>7
    <3>4. Entries(t, q) = {i \in 1..n : events[t][i] = d}
      BY <3>2, <2>8
    <3>5. e # d
      BY <3>1, <3>2
    <3>6. {i \in 1..(n + 1) : events'[t][i] = d} = {i \in 1..n : events[t][i] = d}
      BY <3>5, <2>3, <2>6
    <3>7. QED
      BY <3>3, <3>4, <3>6
  <2>13. ASSUME NEW u \in Ticket, NEW q \in Request PROVE Pledged(u, q)'
    <3>1. Pledged(u, q)
      BY DEF Pledges
    <3>2. CASE q = p /\ u = t
      BY <3>2, <2>4, <2>5, <2>11 DEF Pledged, At
    <3>3. CASE q = p /\ u # t
      BY <3>3, <3>1, <2>3, <2>5, <2>10 DEF Pledged, Entries
    <3>4. CASE q # p /\ u = t
      BY <3>4, <3>1, <2>4, <2>5, <2>12 DEF Pledged, At
    <3>5. CASE q # p /\ u # t
      <4>1. events'[u] = events[u] /\ keyShare'[u] = keyShare[u] /\ req'[q] = req[q]
        BY <3>5, <2>3, <2>4, <2>5
      <4>2. QED
        BY <4>1, <3>1 DEF Pledged, Entries, At
    <3>6. QED
      BY <3>2, <3>3, <3>4, <3>5
  <2>14. QED
    BY <2>13 DEF Pledges
<1>5. QED
  BY <1>3, <1>4

\* and the second statement or the deadlock redeems it.
LEMMA PledgeRedeemed ==
  ASSUME IInv, Pledges, NEW p \in Request, DeleteRow(p) \/ DeleteDeadlock(p)
  PROVE  Pledges'
<1>1. Typed /\ Admitted /\ req[p] \in ReqState /\ At(p, "delete", "row") /\ End(p)
  BY DEF IInv, Admitted, DeleteRow, DeleteDeadlock
<1>2. PICK t \in Ticket : t = req[p].t
  BY <1>1 DEF ReqState
<1>3. PICK a \in {"deleted", "undone"} : Settle(t, p, a)
  BY <1>2 DEF DeleteRow, DeleteDeadlock
<1>4. keyShare' = [keyShare EXCEPT ![t] = keyShare[t] \ {p}]
  BY <1>2 DEF DeleteRow, DeleteDeadlock
<1>5. /\ keyShare'[t] = keyShare[t] \ {p}
      /\ \A u \in Ticket \ {t} : keyShare'[u] = keyShare[u]
  BY <1>1, <1>4 DEF Typed
<1>6. /\ \A u \in Ticket \ {t} : events'[u] = events[u]
      /\ Len(events'[t]) = Len(events[t])
      /\ \A i \in 1..Len(events[t]) : events'[t][i] =
           IF events[t][i] = Deleting(p) THEN Event(a, "", "") ELSE events[t][i]
  BY <1>1, <1>3, SettleEffect
<1>7. \A q \in Request : Event(a, "", "") # Deleting(q)
  BY DEF Event, Deleting
<1>8. Entries(t, p)' = {}
  BY <1>6, <1>7 DEF Entries
<1>9. \A q \in Request \ {p} : Deleting(q) # Deleting(p)
  BY DEF Deleting, Event
<1>10. \A q \in Request \ {p} : Entries(t, q)' = Entries(t, q)
  BY <1>6, <1>7, <1>9 DEF Entries
<1>11. \A q \in Request \ {p} : req'[q] = req[q]
  BY <1>1 DEF End, Admitted
<1>12. ASSUME NEW u \in Ticket, NEW q \in Request PROVE Pledged(u, q)'
  <2>1. Pledged(u, q)
    BY DEF Pledges
  <2>2. CASE q = p /\ u = t
    BY <2>2, <1>5, <1>8 DEF Pledged
  <2>3. CASE q = p /\ u # t
    BY <2>3, <2>1, <1>2, <1>5, <1>6 DEF Pledged, Entries
  <2>4. CASE q # p /\ u = t
    BY <2>4, <2>1, <1>5, <1>10, <1>11 DEF Pledged, At
  <2>5. CASE q # p /\ u # t
    BY <2>5, <2>1, <1>5, <1>6, <1>11 DEF Pledged, Entries, At
  <2>6. QED
    BY <2>2, <2>3, <2>4, <2>5
<1>13. QED
  BY <1>12 DEF Pledges

LEMMA PledgeSteps == ASSUME IInv, Pledges, Next PROVE Pledges'
<1>1. ASSUME NEW t \in Ticket, Create(t) PROVE Pledges'
  <2>1. UNCHANGED <<req, keyShare>> /\ Log(t, Event("created", "", ""))
    BY <1>1 DEF Create
  <2>2. Event("created", "", "") \in EventType
    BY DEF Event, EventType, Actions, Value
  <2>3. QED
    BY <2>1, <2>2, PledgeFrame DEF Event
<1>2. ASSUME NEW p \in Request, Step(p) PROVE Pledges'
  BY <1>2, PledgesKept, PledgeMade, PledgeRedeemed DEF Step
<1>3. ASSUME NEW p \in Request, NEW t \in Ticket, Arrive(p, t) PROVE Pledges'
  <2>1. /\ req[p].pc = "idle" /\ UNCHANGED <<events, keyShare>> /\ Admitted
        /\ \E r : Moves(p, r)
    BY <1>3 DEF Arrive, Update, Close, Assign, Load, CreateComment, CreateRelation, Delete,
                Begin, Moves, IInv
  <2>2. ~At(p, "delete", "row")
    BY <2>1 DEF At
  <2>3. \A q \in Request : At(q, "delete", "row") => req'[q] = req[q]
    BY <2>1, <2>2, OneMoves
  <2>4. QED
    BY <2>1, <2>3, Spoken, PledgeFrame DEF Event
<1>4. ASSUME NEW g \in Graph, UpdateTicketType(g) PROVE Pledges'
  BY <1>4 DEF UpdateTicketType, Pledges, Pledged, Entries, At
<1>5. QED
  BY <1>1, <1>2, <1>3, <1>4 DEF Next

LEMMA Steps == ASSUME IInv, Pledges, Next PROVE IInv'
<1>1. ASSUME NEW t \in Ticket, Create(t) PROVE IInv'
  BY <1>1, CreateStep
<1>2. ASSUME NEW p \in Request, Step(p) PROVE IInv'
  BY <1>2, UpdateStep, ReadStep, CloseStep, AssignStep, CommentStep, RelationStep,
     DeleteBegins, DeleteCommits, DeleteAborts DEF Step
<1>3. ASSUME NEW p \in Request, NEW t \in Ticket, Arrive(p, t) PROVE IInv'
  BY <1>3, Arrivals
<1>4. ASSUME NEW g \in Graph, UpdateTicketType(g) PROVE IInv'
  BY <1>4, QuietStep DEF UpdateTicketType, IInv, Typed, Admitted, Admissible
<1>5. QED
  BY <1>1, <1>2, <1>3, <1>4 DEF Next

LEMMA Starts == ASSUME Init PROVE IInv
<1> DEFINE r == [NewRow EXCEPT !.life = "unborn"]
<1>1. r \in RowType /\ r.life = "unborn" /\ r.status = "open" /\ r.field = [f \in Field |-> 0]
  BY Types DEF NewRow
<1>2. /\ \A t \in Ticket : row[t] = r /\ comments[t] = 0 /\ events[t] = <<>>
      /\ \A t \in Ticket : keyShare[t] = {} /\ patched[t] = [f \in Field |-> 0]
  BY DEF Init
<1>3. row \in [Ticket -> RowType] /\ events \in [Ticket -> Seq(EventType)]
  BY <1>1 DEF Init
<1>4. patched \in [Ticket -> [Field -> 0..MaxOps]] /\ ops \in 0..MaxOps
  BY TicketAssumption DEF Init
<1>5. /\ comments \in [Ticket -> Nat] /\ keyShare \in [Ticket -> SUBSET Request]
      /\ rels = {} /\ graph \in Graph
  BY DEF Init
<1>6. Typed
  BY <1>3, <1>4, <1>5 DEF Typed
<1>7. Admitted
  BY Types DEF Init, Admitted
<1>8. ASSUME NEW t \in Ticket PROVE Sound(t)
  <2>1. \A a : EventsOf(t, a) = {}
    BY <1>2 DEF EventsOf
  <2>2. Closing(t) /\ Ending(t)
    BY <1>1, <1>2, <2>1 DEF Closing, Ending
  <2>3. Unborn(t) /\ Held(t) /\ Kept(t)
    BY <1>1, <1>2 DEF Unborn, Held, Kept
  <2>4. QED
    BY <2>2, <2>3 DEF Sound
<1>9. OneRelationPerPair
  BY <1>5 DEF OneRelationPerPair
<1>10. QED
  BY <1>6, <1>7, <1>8, <1>9 DEF IInv

(* The inductive invariant holds in every behaviour of Service.            *)
THEOREM Invariance == Spec => [](IInv /\ Pledges)
<1>1. Init => IInv /\ Pledges
  <2>1. Init => Pledges
    BY DEF Init, Pledges, Pledged, Entries
  <2>2. QED
    BY <2>1, Starts
<1>2. IInv /\ Pledges /\ [Next]_vars => (IInv /\ Pledges)'
  <2>1. ASSUME IInv, UNCHANGED vars PROVE IInv'
    BY <2>1, QuietStep DEF vars, IInv, Typed, Admitted, Admissible
  <2>2. ASSUME Pledges, UNCHANGED vars PROVE Pledges'
    BY <2>2 DEF vars, Pledges, Pledged, Entries, At
  <2>3. QED
    BY <2>1, <2>2, Steps, PledgeSteps
<1>3. QED
  BY <1>1, <1>2, PTL DEF Spec

-----------------------------------------------------------------------------
(* Rows, events, comments and relations have their types, whatever the     *)
(* requests read before they wrote.                                        *)
THEOREM TypeCorrect == Spec => []TypeOK
<1>1. IInv => TypeOK
  <2>1. SUFFICES ASSUME IInv PROVE TypeOK
    OBVIOUS
  <2>2. Typed /\ \A p \in Request : req[p] \in ReqState
    BY <2>1 DEF IInv, Admitted
  <2>3. \A t \in Ticket : \A i \in 1..Len(events[t]) : events[t][i] \in EventType
    BY <2>2 DEF Typed
  <2>4. QED
    BY <2>2, <2>3 DEF TypeOK, Typed, RowType, ReqState, EventType, Actions
<1>2. QED
  BY <1>1, Invariance, PTL

(* UpdateStatusTx compares the status it read: however many Close requests *)
(* overlap, a closed ticket has one status_changed event, an open one none.*)
THEOREM ClosedOnce == Spec => []ClosedByOneEvent
<1>1. IInv => ClosedByOneEvent
  <2>1. SUFFICES ASSUME IInv, NEW t \in Ticket
                 PROVE  LET closes == EventsOf(t, "status_changed") IN
                        /\ Cardinality(closes) = (IF row[t].status = "closed" THEN 1 ELSE 0)
                        /\ \A i \in closes : events[t][i].from # "closed"
    BY DEF ClosedByOneEvent
  <2>2. Closing(t)
    BY <2>1 DEF IInv, Sound
  <2>3. QED
    BY <2>2, FS_EmptySet, FS_Singleton DEF Closing
<1>2. QED
  BY <1>1, Invariance, PTL

(* Delete inserts its event under FOR KEY SHARE and removes the row in the *)
(* same transaction: of all the deletions that inserted theirs, exactly    *)
(* one becomes visible, and only when the row is gone with its comments    *)
(* and relations.  The invariant behind it is Pledges: the lock and the    *)
(* row that is not committed come and go together.                         *)
THEOREM DeletedOnce == Spec => []DeletionLeavesOneEvent
<1>1. IInv => DeletionLeavesOneEvent
  <2>1. SUFFICES ASSUME IInv, NEW t \in Ticket
                 PROVE  IF row[t].life = "deleted"
                        THEN /\ Cardinality(EventsOf(t, "deleted")) = 1
                             /\ comments[t] = 0
                             /\ \A r \in rels : t \notin {r[1], r[2]}
                        ELSE EventsOf(t, "deleted") = {}
    BY DEF DeletionLeavesOneEvent
  <2>2. Ending(t)
    BY <2>1 DEF IInv, Sound
  <2>3. QED
    BY <2>2, FS_Singleton DEF Ending
<1>2. QED
  BY <1>1, Invariance, PTL

(* UpdateTx writes only the fields a patch names: patches of different     *)
(* fields do not undo each other.                                          *)
THEOREM PatchesAreKept == Spec => []NoLostPatch
<1>1. IInv => NoLostPatch
  BY DEF IInv, Sound, Kept, NoLostPatch
<1>2. QED
  BY <1>1, Invariance, PTL

(* The index over LEAST and GREATEST decides what ExistsRelationBetween    *)
(* cannot: two tickets are related at most once.                           *)
THEOREM RelatedOnce == Spec => []OneRelationPerPair
<1>1. IInv => OneRelationPerPair
  BY DEF IInv
<1>2. QED
  BY <1>1, Invariance, PTL

\* What one step does to the row of a closed ticket.
LEMMA ClosedStays ==
  ASSUME IInv, Next, NEW t \in Ticket,
         Live(t), row[t].status = "closed", row'[t].life = "live"
  PROVE  row'[t] = row[t]
<1>1. Typed /\ row[t] \in RowType /\ \A p \in Request : Admissible(req[p])
  BY DEF IInv, Typed, Admitted
<1>2. ASSUME NEW u \in Ticket, Create(u) PROVE row'[t] = row[t]
  BY <1>1, <1>2 DEF Create, Live, Typed
<1>3. ASSUME NEW p \in Request, CommitUpdate(p) PROVE row'[t] = row[t]
  BY <1>1, <1>3 DEF CommitUpdate, StillOpen, Typed
<1>4. ASSUME NEW p \in Request, CommitClose(p) PROVE row'[t] = row[t]
  <2>1. req[p].seen.status # "closed"
    BY <1>1, <1>4 DEF CommitClose, At, Admissible
  <2>2. QED
    BY <1>1, <1>4, <2>1 DEF CommitClose, StatusMatches, Typed
<1>5. ASSUME NEW p \in Request, CommitAssign(p) PROVE row'[t] = row[t]
  BY <1>1, <1>5 DEF CommitAssign, StillOpen, Typed
<1>6. ASSUME NEW p \in Request, DeleteRow(p) PROVE row'[t] = row[t]
  <2>1. CASE req[p].t = t
    <3>1. row'[t] = [row[t] EXCEPT !.life = "deleted"]
      BY <1>1, <1>6, <2>1 DEF DeleteRow, Typed
    <3>2. row'[t].life = "deleted"
      BY <1>1, <3>1 DEF RowType
    <3>3. QED
      BY <3>2
  <2>2. CASE req[p].t # t
    BY <1>1, <1>6, <2>2 DEF DeleteRow, Typed
  <2>3. QED
    BY <2>1, <2>2
<1>7. ASSUME NEW p \in Request,
             \/ AssertTransition(p) \/ CommitComment(p) \/ ExistsRelationBetween(p)
             \/ InsertRelation(p) \/ DeleteInsertEvent(p) \/ DeleteDeadlock(p)
      PROVE  row'[t] = row[t]
  BY <1>7 DEF AssertTransition, CommitComment, ExistsRelationBetween, InsertRelation,
              DeleteInsertEvent, DeleteDeadlock
<1>8. ASSUME NEW p \in Request, NEW u \in Ticket, Arrive(p, u) PROVE row'[t] = row[t]
  BY <1>8 DEF Arrive, Update, Close, Assign, Load, CreateComment, CreateRelation, Delete
<1>9. ASSUME NEW g \in Graph, UpdateTicketType(g) PROVE row'[t] = row[t]
  BY <1>9 DEF UpdateTicketType
<1>10. QED
  BY <1>2, <1>3, <1>4, <1>5, <1>6, <1>7, <1>8, <1>9 DEF Next, Step

(* The WHERE clauses of UpdateTx, UpdateAssignedToTx and UpdateStatusTx:   *)
(* a request that read a ticket while it was open changes nothing of it    *)
(* once it is closed.                                                      *)
THEOREM ClosedStaysClosed == Spec => ClosedIsFinal
<1>1. IInv /\ [Next]_vars =>
        [\A t \in Ticket :
           (Live(t) /\ row[t].status = "closed" /\ row'[t].life = "live")
             => row'[t] = row[t]]_row
  <2>1. CASE UNCHANGED vars
    BY <2>1 DEF vars
  <2>2. CASE Next
    BY <2>2, ClosedStays
  <2>3. QED
    BY <2>1, <2>2
<1>2. QED
  BY <1>1, Invariance, PTL DEF Spec, ClosedIsFinal
=============================================================================
