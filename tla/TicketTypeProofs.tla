-------------------------- MODULE TicketTypeProofs --------------------------
(***************************************************************************)
(* Proofs about TicketType, for any number of requests, field keys and     *)
(* moves and whatever graphs clients send: the types and the five          *)
(* invariants the run checks.                                              *)
(***************************************************************************)
EXTENDS TicketType, FiniteSetTheorems, TLAPS

-----------------------------------------------------------------------------
(* The inductive invariant.                                                *)

States == StateSet \cup {Keep, defaultStates}
Edges == EdgeSet \cup {Keep, defaultTransitions}
FieldRow == [key : Key, by : 1..MaxOps]
Pc == {"idle", "insert", "update", "count", "rows", "last", "bump", "see", "delete",
       "template", "fields"}
TypeRow == [there : BOOLEAN, version : Nat, states : States, transitions : Edges,
            active : BOOLEAN, custom : BOOLEAN]
TemplateRow == [there : BOOLEAN, version : Nat, path : 0..MaxMove, keys : SUBSET Key]
ReqState == [op : Op, pc : Pc, id : Nat, version : Nat, keys : SUBSET Key,
             states : States, transitions : Edges, active : BOOLEAN, rows : SUBSET FieldRow,
             path : 0..MaxMove, since : {"same", "edited", "reborn"}, forms : SUBSET SUBSET Key]
TypeInv ==
  /\ type \in TypeRow /\ fields \in SUBSET FieldRow /\ template \in TemplateRow
  /\ place \in 0..MaxMove /\ tickets \in 0..1
  /\ holder \in Request \cup {NoRequest} /\ deleted \in [Request -> SUBSET FieldRow]
  /\ req \in [Request -> ReqState]
  /\ form \in SUBSET Key /\ strayed \in BOOLEAN
  /\ ops \in 0..MaxOps

(* A request in progress has a number of its own, and every new version of *)
(* the type was written by a request that is over.                         *)
Active(p) == req[p].pc # "idle"
Over == (1..ops) \ {req[p].id : p \in {q \in Request : Active(q)}}
Numbered ==
  /\ \A p \in Request : Active(p) => req[p].id \in 1..ops
  /\ \A p, q \in Request : Active(p) /\ Active(q) /\ req[p].id = req[q].id => p = q
  /\ type.version \in 1..(Cardinality(Over) + 1)

(* A field row is deleted by one transaction at a time.  A replacement     *)
(* holds the row of the type from its first statement on: nothing of the   *)
(* type changes until it commits, so its DELETE sees and takes every field. *)
Replacing(p) == req[p].op = "replaceFields" /\ req[p].pc \in {"see", "rows", "last"}
Locked ==
  /\ \A p \in Request : deleted[p] \subseteq fields
  /\ \A p, q \in Request : p # q => deleted[p] \cap deleted[q] = {}
  /\ \A p \in Request : Replacing(p) =>
       /\ holder = p /\ type.there
       /\ req[p].pc = "rows" => req[p].rows = fields
       /\ req[p].pc = "last" => deleted[p] = fields

(* A version that was overwritten since it was read is not the current one *)
(* any more, unless the row was born again; and nothing is overwritten     *)
(* behind a replacement that holds the row.                                *)
Behind(r, row) == r.version # 0 =>
  /\ r.since = "same" => r.version <= row.version
  /\ r.since = "edited" => r.version < row.version
Dated ==
  \A p \in Request :
    /\ req[p].op \in OfType => Behind(req[p], type)
    /\ req[p].op \in OfTemplate => Behind(req[p], template)
    /\ Replacing(p) => req[p].version = 0 \/ req[p].since # "edited"

(* The graph that a request brings has been checked, unless it names only  *)
(* one half of it.                                                         *)
Whole(r) == r.op = "createType" \/ (r.op = "updateType" /\ r.states # Keep /\ r.transitions # Keep)
Checked ==
  \A p \in Request : Active(p) /\ Whole(req[p]) => ValidateTypeGraph(req[p].states, req[p].transitions)

(* A request knows the form of the moment, and a ticket that is about to   *)
(* be inserted gives the keys of one that it knows.                        *)
Informed ==
  \A p \in Request : Active(p) =>
    /\ form \in req[p].forms
    /\ At(p, "createTicket", "insert") => \E f \in req[p].forms : f \subseteq req[p].keys

IInv ==
  /\ TypeInv /\ Numbered /\ Locked /\ Dated /\ Checked /\ Informed
  /\ FieldsAreOneForm /\ NoLostEdit /\ GraphIsClosed /\ TemplateFollowsOrg /\ NewTicketFitsAForm

-----------------------------------------------------------------------------
(* What the kinds of steps do to the requests.                             *)

(* Nobody's request. *)
LEMMA IdleIsTyped == IdleReq \in ReqState /\ IdleReq.pc = "idle" /\ IdleReq.version = 0
BY TypeAssumption DEF IdleReq, ReqState, Op, Pc, States, Edges

(* What an administrator or a client sends has been checked, and names a    *)
(* version that is current when it comes.                                  *)
Fresh(r) ==
  /\ r \in ReqState /\ r.since = "same"
  /\ r.pc \in {"insert", "update", "count", "bump", "delete", "template"}
  /\ r.op \in OfType => r.version \in {0, type.version}
  /\ r.op \in OfTemplate => r.version \in {0, template.version}
  /\ Whole(r) => ValidateTypeGraph(r.states, r.transitions)
  /\ ~(r.op = "createTicket" /\ r.pc = "insert")

LEMMA Arrivals ==
  ASSUME TypeInv, NEW p \in Request, Arrive(p)
  PROVE  \E r : Fresh(r) /\ Begin(p, r)
<1> USE TypeAssumption DEF OfType, OfTemplate
<1>1. ASSUME NEW S \in StateSet \cup {Keep}, NEW T \in EdgeSet \cup {Keep}, CreateTicketType(p, S, T, TRUE)
      PROVE  \E r : Fresh(r) /\ Begin(p, r)
  <2> DEFINE r == [CreateTypeRequest(Named(S, defaultStates), Named(T, defaultTransitions), TRUE)
                     EXCEPT !.pc = "insert"]
  <2>1. /\ r.op = "createType" /\ r.since = "same" /\ r.pc = "insert"
        /\ r.states = Named(S, defaultStates) /\ r.transitions = Named(T, defaultTransitions)
    BY DEF CreateTypeRequest, IdleReq
  <2>2. Named(S, defaultStates) \in States /\ Named(T, defaultTransitions) \in Edges
    BY DEF Named, States, Edges
  <2>3. r \in ReqState
    BY <2>2, IdleIsTyped DEF CreateTypeRequest, ReqState, Op, Pc
  <2>4. Begin(p, r) /\ ValidateTypeGraph(r.states, r.transitions)
    BY <1>1 DEF CreateTicketType, CreateTypeRequest, IdleReq
  <2> HIDE DEF r
  <2>5. QED
    BY <2>1, <2>3, <2>4 DEF Fresh, Whole
<1>2. ASSUME NEW S \in StateSet \cup {Keep}, NEW T \in EdgeSet \cup {Keep}, NEW active \in BOOLEAN,
             NEW v \in Versions(type), UpdateTicketType(p, S, T, active, v)
      PROVE  \E r : Fresh(r) /\ Begin(p, r)
  <2> DEFINE r == [UpdateTypeRequest(S, T, active, v) EXCEPT !.pc = "update"]
  <2>1. /\ r.op = "updateType" /\ r.since = "same" /\ r.pc = "update" /\ r.version = v
        /\ r.states = S /\ r.transitions = T
    BY DEF UpdateTypeRequest, IdleReq
  <2>2. v \in Nat /\ v \in {0, type.version} /\ S \in States /\ T \in Edges
    BY DEF Versions, States, Edges, TypeInv, TypeRow
  <2>3. r \in ReqState
    BY <2>2, IdleIsTyped DEF UpdateTypeRequest, ReqState, Op, Pc
  <2>4. Begin(p, r) /\ GraphChecked(S, T)
    BY <1>2 DEF UpdateTicketType
  <2> HIDE DEF r
  <2>5. Whole(r) => ValidateTypeGraph(r.states, r.transitions)
    BY <2>1, <2>4 DEF Whole, GraphChecked, Named
  <2>6. QED
    BY <2>1, <2>2, <2>3, <2>4, <2>5 DEF Fresh
<1>3. ASSUME NEW keys \in SUBSET Key, NEW v \in Versions(type), ReplaceTicketTypeFields(p, keys, v)
      PROVE  \E r : Fresh(r) /\ Begin(p, r)
  <2> DEFINE r == [ReplaceFieldsRequest(keys, v) EXCEPT !.pc = "bump"]
  <2>1. r.op = "replaceFields" /\ r.since = "same" /\ r.pc = "bump" /\ r.version = v
    BY DEF ReplaceFieldsRequest, IdleReq
  <2>2. v \in Nat /\ v \in {0, type.version}
    BY DEF Versions, TypeInv, TypeRow
  <2>3. r \in ReqState
    BY <2>2, IdleIsTyped DEF ReplaceFieldsRequest, ReqState, Op, Pc
  <2>4. Begin(p, r)
    BY <1>3 DEF ReplaceTicketTypeFields
  <2> HIDE DEF r
  <2>5. QED
    BY <2>1, <2>2, <2>3, <2>4 DEF Fresh, Whole
<1>4. ASSUME NEW keys \in SUBSET Key, NEW v \in Versions(template), UpdateTicketTemplate(p, keys, v)
      PROVE  \E r : Fresh(r) /\ Begin(p, r)
  <2> DEFINE r == [UpdateTemplateRequest(keys, v) EXCEPT !.pc = "update"]
  <2>1. r.op = "updateTemplate" /\ r.since = "same" /\ r.pc = "update" /\ r.version = v
    BY DEF UpdateTemplateRequest, IdleReq
  <2>2. v \in Nat /\ v \in {0, template.version}
    BY DEF Versions, TypeInv, TemplateRow
  <2>3. r \in ReqState
    BY <2>2, IdleIsTyped DEF UpdateTemplateRequest, ReqState, Op, Pc
  <2>4. Begin(p, r)
    BY <1>4 DEF UpdateTicketTemplate
  <2> HIDE DEF r
  <2>5. QED
    BY <2>1, <2>2, <2>3, <2>4 DEF Fresh, Whole
<1>5. ASSUME NEW keys \in SUBSET Key, CreateTicketTemplate(p, keys)
      PROVE  \E r : Fresh(r) /\ Begin(p, r)
  <2> DEFINE r == [CreateTemplateRequest(keys) EXCEPT !.pc = "insert", !.path = place]
  <2>1. r.op = "createTemplate" /\ r.since = "same" /\ r.pc = "insert"
    BY DEF CreateTemplateRequest, IdleReq
  <2>2. r \in ReqState
    BY IdleIsTyped DEF CreateTemplateRequest, ReqState, Op, Pc, TypeInv
  <2>3. Begin(p, r)
    BY <1>5 DEF CreateTicketTemplate
  <2> HIDE DEF r
  <2>4. QED
    BY <2>1, <2>2, <2>3 DEF Fresh, Whole
<1>6. ASSUME NEW keys \in SUBSET Key, CreateTicket(p, keys)
      PROVE  \E r : Fresh(r) /\ Begin(p, r)
  <2> DEFINE r == [IdleReq EXCEPT !.op = "createTicket", !.pc = "template", !.keys = keys]
  <2>1. r.op = "createTicket" /\ r.since = "same" /\ r.pc = "template"
    BY DEF IdleReq
  <2>2. r \in ReqState
    BY IdleIsTyped DEF ReqState, Op, Pc
  <2>3. Begin(p, r)
    BY <1>6 DEF CreateTicket
  <2> HIDE DEF r
  <2>4. QED
    BY <2>1, <2>2, <2>3 DEF Fresh, Whole
<1>7. ASSUME DeleteTicketType(p)
      PROVE  \E r : Fresh(r) /\ Begin(p, r)
  <2> DEFINE r == [DeleteTypeRequest EXCEPT !.pc = "count"]
  <2>1. r.op = "deleteType" /\ r.since = "same" /\ r.pc = "count"
    BY DEF DeleteTypeRequest, IdleReq
  <2>2. r \in ReqState
    BY IdleIsTyped DEF DeleteTypeRequest, ReqState, Op, Pc
  <2>3. Begin(p, r)
    BY <1>7 DEF DeleteTicketType
  <2> HIDE DEF r
  <2>4. QED
    BY <2>1, <2>2, <2>3 DEF Fresh, Whole
<1>8. ASSUME DeleteTicketTemplate(p)
      PROVE  \E r : Fresh(r) /\ Begin(p, r)
  <2> DEFINE r == [DeleteTemplateRequest EXCEPT !.pc = "delete"]
  <2>1. r.op = "deleteTemplate" /\ r.since = "same" /\ r.pc = "delete"
    BY DEF DeleteTemplateRequest, IdleReq
  <2>2. r \in ReqState
    BY IdleIsTyped DEF DeleteTemplateRequest, ReqState, Op, Pc
  <2>3. Begin(p, r)
    BY <1>8 DEF DeleteTicketTemplate
  <2> HIDE DEF r
  <2>4. QED
    BY <2>1, <2>2, <2>3 DEF Fresh, Whole
<1>9. QED
  BY <1>1, <1>2, <1>3, <1>4, <1>5, <1>6, <1>7, <1>8 DEF Arrive

(* A request comes. *)
LEMMA BeginStep ==
  ASSUME TypeInv, NEW p \in Request, NEW r, Fresh(r), Begin(p, r)
  PROVE  /\ ~Active(p) /\ ops' = ops + 1 /\ ops' \in 0..MaxOps /\ UNCHANGED <<rows, locks, history>>
         /\ req' \in [Request -> ReqState]
         /\ \A q \in Request : q # p => req'[q] = req[q]
         /\ req'[p] = [r EXCEPT !.id = ops + 1, !.forms = {form}]
<1>1. ~Active(p) /\ ops' = ops + 1 /\ ops' \in 0..MaxOps /\ UNCHANGED <<rows, locks, history>>
  BY TypeAssumption DEF Begin, Active, TypeInv
<1>2. r \in ReqState /\ ops + 1 \in Nat /\ {form} \in SUBSET SUBSET Key
  BY DEF Fresh, TypeInv
<1>3. [r EXCEPT !.id = ops + 1, !.forms = {form}] \in ReqState
  BY <1>2 DEF ReqState
<1>4. QED
  BY <1>1, <1>3 DEF Begin, TypeInv

(* A request goes on to its next statement. *)
LEMMA GotoStep ==
  ASSUME TypeInv, NEW p \in Request, NEW r \in ReqState, Goto(p, r)
  PROVE  /\ UNCHANGED <<rows, history, ops>>
         /\ req' \in [Request -> ReqState] /\ req'[p] = r
         /\ \A q \in Request : q # p => req'[q] = req[q]
BY DEF Goto, TypeInv

(* The end of a transaction gives back what it has locked. *)
LEMMA UnlockStep ==
  ASSUME TypeInv, NEW p \in Request, Unlock(p)
  PROVE  /\ holder' \in Request \cup {NoRequest} /\ deleted' \in [Request -> SUBSET FieldRow]
         /\ \A q \in Request : q # p => deleted'[q] = deleted[q] /\ (holder = q => holder' = q)
         /\ deleted'[p] = {}
BY DEF Unlock, TypeInv

(* A request that ends with nothing written. *)
LEMMA RollbackStep ==
  ASSUME TypeInv, NEW p \in Request, Rollback(p)
  PROVE  /\ UNCHANGED <<rows, history, ops>> /\ Unlock(p)
         /\ req' \in [Request -> ReqState] /\ req'[p] = IdleReq
         /\ \A q \in Request : q # p => req'[q] = req[q]
BY GotoStep, IdleIsTyped DEF Rollback

(* A commit: the others learn of it and go on as they were. *)
Told(q, K, how) == IF req[q].op \in K /\ req[q].since # "reborn" THEN how ELSE req[q].since
SameRequest(q) ==
  /\ req'[q].op = req[q].op /\ req'[q].pc = req[q].pc /\ req'[q].id = req[q].id
  /\ req'[q].version = req[q].version /\ req'[q].keys = req[q].keys
  /\ req'[q].states = req[q].states /\ req'[q].transitions = req[q].transitions
  /\ req'[q].rows = req[q].rows
LEMMA CommitStep ==
  ASSUME TypeInv, NEW p \in Request, NEW K, NEW how \in {"same", "edited", "reborn"},
         Commit(p, K, how), form' \in SUBSET Key
  PROVE  /\ ops' = ops /\ Unlock(p)
         /\ req' \in [Request -> ReqState] /\ req'[p] = IdleReq
         /\ \A q \in Request : q # p =>
              /\ SameRequest(q) /\ req'[q].since = Told(q, K, how)
              /\ req'[q].forms = req[q].forms \cup {form'}
<1>1. ops' = ops /\ Unlock(p) /\ req'[p] = IdleReq
  BY DEF Commit
<1>2. ASSUME NEW q \in Request, q # p
      PROVE  /\ req'[q] \in ReqState /\ SameRequest(q) /\ req'[q].since = Told(q, K, how)
             /\ req'[q].forms = req[q].forms \cup {form'}
  <2>1. PICK r \in ReqState : r = req[q]
    BY DEF TypeInv
  <2>2. req'[q] = [r EXCEPT !.since = Told(q, K, how), !.forms = r.forms \cup {form'}]
    BY <1>2, <2>1 DEF Commit, Told
  <2>3. Told(q, K, how) \in {"same", "edited", "reborn"} /\ r.forms \cup {form'} \in SUBSET SUBSET Key
    BY <2>1 DEF Told, ReqState
  <2>4. QED
    BY <2>1, <2>2, <2>3 DEF ReqState, SameRequest
<1>3. req' \in [Request -> ReqState]
  <2>1. req' = [q \in Request |-> req'[q]]
    BY DEF Commit
  <2>2. \A q \in Request : req'[q] \in ReqState
    BY <1>1, <1>2, IdleIsTyped
  <2>3. QED
    BY <2>1, <2>2
<1>4. QED
  BY <1>1, <1>2, <1>3

(* A request takes a step and stays in progress: nothing is written. *)
Onward(p) ==
  /\ Active(p) /\ UNCHANGED <<rows, history, ops>>
  /\ req' \in [Request -> ReqState] /\ \A q \in Request : q # p => req'[q] = req[q]
  /\ req'[p].pc # "idle" /\ req'[p].op = req[p].op /\ req'[p].id = req[p].id
  /\ req'[p].version = req[p].version /\ req'[p].states = req[p].states
  /\ req'[p].transitions = req[p].transitions /\ req'[p].since = req[p].since
  /\ req'[p].forms = req[p].forms

SameBut(r, s) ==
  /\ r.op = s.op /\ r.id = s.id /\ r.version = s.version /\ r.states = s.states
  /\ r.transitions = s.transitions /\ r.since = s.since /\ r.forms = s.forms
LEMMA OnwardStep ==
  ASSUME TypeInv, NEW p \in Request, NEW r \in ReqState, Goto(p, r),
         Active(p), r.pc # "idle", SameBut(r, req[p])
  PROVE  Onward(p) /\ req'[p] = r
BY GotoStep DEF Onward, SameBut

LEMMA CountStep ==
  ASSUME TypeInv, NEW p \in Request, CountTickets(p), ~(tickets > 0)
  PROVE  Onward(p) /\ UNCHANGED locks /\ req[p].op = "deleteType"
<1>1. PICK r \in ReqState : r = req[p]
  BY DEF TypeInv
<1>2. r.op = "deleteType" /\ r.pc = "count" /\ UNCHANGED locks /\ Goto(p, [r EXCEPT !.pc = "rows", !.rows = fields])
  BY <1>1 DEF CountTickets, At
<1>3. PICK s : s = [r EXCEPT !.pc = "rows", !.rows = fields]
  OBVIOUS
<1>4. s \in ReqState /\ s.pc = "rows" /\ s.rows = fields /\ SameBut(s, r)
  BY <1>3, <1>1 DEF ReqState, Pc, TypeInv, SameBut
<1>5. QED
  BY <1>1, <1>2, <1>3, <1>4, OnwardStep DEF Active

LEMMA DeleteFieldsStep ==
  ASSUME TypeInv, NEW p \in Request, DeleteFields(p)
  PROVE  /\ Onward(p) /\ req[p].pc = "rows" /\ req'[p].pc = "last" /\ holder' = holder
         /\ \A q \in Request : q # p => deleted[q] \cap req[p].rows = {} /\ deleted'[q] = deleted[q]
         /\ deleted' \in [Request -> SUBSET FieldRow] /\ deleted'[p] = req[p].rows \cap fields
<1>1. PICK r \in ReqState : r = req[p]
  BY DEF TypeInv
<1>2. /\ r.pc = "rows" /\ holder' = holder /\ Goto(p, [r EXCEPT !.pc = "last", !.rows = {}])
      /\ deleted' = [deleted EXCEPT ![p] = r.rows \cap fields]
      /\ \A q \in Request : q # p => deleted[q] \cap r.rows = {}
  BY <1>1 DEF DeleteFields
<1>3. PICK s : s = [r EXCEPT !.pc = "last", !.rows = {}]
  OBVIOUS
<1>4. s \in ReqState /\ s.pc = "last" /\ SameBut(s, r)
  BY <1>3, <1>1 DEF ReqState, Pc, TypeInv, SameBut
<1>5. Onward(p) /\ req'[p].pc = "last"
  BY <1>1, <1>2, <1>3, <1>4, OnwardStep DEF Active
<1>6. r.rows \cap fields \in SUBSET FieldRow
  BY DEF TypeInv
<1>7. QED
  BY <1>1, <1>2, <1>5, <1>6 DEF TypeInv

LEMMA BumpStep ==
  ASSUME TypeInv, NEW p \in Request, BumpVersion(p), ~ResolveTypeVersionMiss(req[p])
  PROVE  /\ Onward(p) /\ req[p].op = "replaceFields" /\ req'[p].pc = "see"
         /\ holder \in {p, NoRequest} /\ holder' = p /\ deleted' = deleted
         /\ type.there /\ req[p].version \in {0, type.version}
<1>1. PICK r \in ReqState : r = req[p]
  BY DEF TypeInv
<1>2. /\ r.op = "replaceFields" /\ r.pc = "bump" /\ Goto(p, [r EXCEPT !.pc = "see"])
      /\ holder \in {p, NoRequest} /\ holder' = p /\ deleted' = deleted
      /\ type.there /\ req[p].version \in {0, type.version}
  BY <1>1 DEF BumpVersion, At, CanWrite, LockParent, ResolveTypeVersionMiss, VersionMatches
<1>3. PICK s : s = [r EXCEPT !.pc = "see"]
  OBVIOUS
<1>4. s \in ReqState /\ s.pc = "see" /\ SameBut(s, r)
  BY <1>3, <1>1 DEF ReqState, Pc, SameBut
<1>5. QED
  BY <1>1, <1>2, <1>3, <1>4, OnwardStep DEF Active

LEMMA SeeStep ==
  ASSUME TypeInv, NEW p \in Request, SeeFields(p)
  PROVE  /\ Onward(p) /\ req[p].op = "replaceFields" /\ req[p].pc = "see"
         /\ req'[p].pc = "rows" /\ req'[p].rows = fields /\ UNCHANGED locks
<1>1. PICK r \in ReqState : r = req[p]
  BY DEF TypeInv
<1>2. /\ r.op = "replaceFields" /\ r.pc = "see" /\ UNCHANGED locks
      /\ Goto(p, [r EXCEPT !.pc = "rows", !.rows = fields])
  BY <1>1 DEF SeeFields, At
<1>3. PICK s : s = [r EXCEPT !.pc = "rows", !.rows = fields]
  OBVIOUS
<1>4. s \in ReqState /\ s.pc = "rows" /\ s.rows = fields /\ SameBut(s, r)
  BY <1>3, <1>1 DEF ReqState, Pc, TypeInv, SameBut
<1>5. QED
  BY <1>1, <1>2, <1>3, <1>4, OnwardStep DEF Active

LEMMA PrefillStep ==
  ASSUME TypeInv, NEW p \in Request, Prefill(p)
  PROVE  Onward(p) /\ req[p].op = "createTicket" /\ req'[p].pc = "fields" /\ UNCHANGED locks
<1>1. PICK r \in ReqState : r = req[p]
  BY DEF TypeInv
<1>2. PICK keys : /\ r.op = "createTicket" /\ r.pc = "template" /\ UNCHANGED locks
                  /\ keys \in {r.keys, template.keys}
                  /\ Goto(p, [r EXCEPT !.pc = "fields", !.keys = keys])
  BY <1>1 DEF Prefill, At, GetTicketTemplate
<1>3. PICK s : s = [r EXCEPT !.pc = "fields", !.keys = keys]
  OBVIOUS
<1>4. s \in ReqState /\ s.pc = "fields" /\ SameBut(s, r)
  BY <1>3, <1>1, <1>2 DEF ReqState, Pc, TypeInv, TemplateRow, SameBut
<1>5. QED
  BY <1>1, <1>2, <1>3, <1>4, OnwardStep DEF Active

LEMMA CheckStep ==
  ASSUME TypeInv, NEW p \in Request, CheckFields(p), ValidateCustomData(req[p].keys)
  PROVE  /\ Onward(p) /\ req[p].op = "createTicket" /\ req'[p].pc = "insert"
         /\ req'[p].keys = req[p].keys /\ UNCHANGED locks
<1>1. PICK r \in ReqState : r = req[p]
  BY DEF TypeInv
<1>2. /\ r.op = "createTicket" /\ r.pc = "fields" /\ UNCHANGED locks
      /\ Goto(p, [r EXCEPT !.pc = "insert"])
  BY <1>1 DEF CheckFields, At
<1>3. PICK s : s = [r EXCEPT !.pc = "insert"]
  OBVIOUS
<1>4. s \in ReqState /\ s.pc = "insert" /\ s.keys = r.keys /\ SameBut(s, r)
  BY <1>3, <1>1 DEF ReqState, Pc, SameBut
<1>5. QED
  BY <1>1, <1>2, <1>3, <1>4, OnwardStep DEF Active

(* The steps by their kind.  A request is told no, goes on, or commits. *)
Walks(p) ==
  \/ CountTickets(p) /\ ~(tickets > 0)
  \/ DeleteFields(p)
  \/ BumpVersion(p) /\ ~ResolveTypeVersionMiss(req[p])
  \/ SeeFields(p)
  \/ Prefill(p)
  \/ CheckFields(p) /\ ValidateCustomData(req[p].keys)
TypeInserted(p) == InsertType(p) /\ ~type.there
TypeUpdated(p) == UpdateType(p) /\ ~ResolveTypeVersionMiss(req[p])
TypeDeleted(p) ==
  DeleteType(p) /\ ~(~type.there \/ tickets > 0 \/ template.there \/ fields # deleted[p])
FieldsReplaced(p) ==
  /\ ReplaceTypeFields(p)
  /\ ~(~type.there \/ \E f \in fields \ deleted[p] : f.key \in req[p].keys)
TemplateInserted(p) == InsertTemplate(p) /\ ~(template.there \/ ~type.there)
TemplateUpdated(p) == UpdateTemplate(p) /\ ~ResolveTemplateVersionMiss(req[p])
TicketInserted(p) == InsertTicket(p) /\ type.there
Writes(p) ==
  \/ TypeInserted(p) \/ TypeUpdated(p) \/ TypeDeleted(p) \/ FieldsReplaced(p)
  \/ TemplateInserted(p) \/ TemplateUpdated(p) \/ DeleteTemplate(p) \/ TicketInserted(p)

LEMMA Kinds ==
  ASSUME NEW p \in Request, Step(p)
  PROVE  (Active(p) /\ Rollback(p)) \/ Walks(p) \/ Writes(p)
<1>1. CASE InsertType(p)
  BY <1>1 DEF InsertType, Writes, TypeInserted, At, Active
<1>2. CASE UpdateType(p)
  BY <1>2 DEF UpdateType, Writes, TypeUpdated, At, Active
<1>3. CASE CountTickets(p)
  BY <1>3 DEF CountTickets, Walks, At, Active
<1>4. CASE DeleteType(p)
  BY <1>4 DEF DeleteType, Writes, TypeDeleted, At, Active
<1>5. CASE BumpVersion(p)
  BY <1>5 DEF BumpVersion, Walks, At, Active
<1>6. CASE ReplaceTypeFields(p)
  BY <1>6 DEF ReplaceTypeFields, Writes, FieldsReplaced, At, Active
<1>7. CASE InsertTemplate(p)
  BY <1>7 DEF InsertTemplate, Writes, TemplateInserted, At, Active
<1>8. CASE UpdateTemplate(p)
  BY <1>8 DEF UpdateTemplate, Writes, TemplateUpdated, At, Active
<1>9. CASE CheckFields(p)
  BY <1>9 DEF CheckFields, Walks, At, Active
<1>10. CASE InsertTicket(p)
  BY <1>10 DEF InsertTicket, Writes, TicketInserted, At, Active
<1>11. CASE Abort(p)
  BY <1>11 DEF Abort, Active
<1>12. QED
  BY <1>1, <1>2, <1>3, <1>4, <1>5, <1>6, <1>7, <1>8, <1>9, <1>10, <1>11 DEF Step, Walks, Writes

LEMMA WalkOn ==
  ASSUME TypeInv, NEW p \in Request, Walks(p)
  PROVE  Onward(p)
BY CountStep, DeleteFieldsStep, BumpStep, SeeStep, PrefillStep, CheckStep DEF Walks

(* What the commits write. *)
LEMMA TypeInsertedStep ==
  ASSUME TypeInv, NEW p \in Request, TypeInserted(p)
  PROVE  /\ At(p, "createType", "insert") /\ ~type.there /\ Commit(p, OfType, "reborn")
         /\ type' = [NoType EXCEPT !.there = TRUE, !.states = req[p].states,
                       !.transitions = req[p].transitions, !.active = req[p].active]
         /\ UNCHANGED <<fields, template, place, tickets, strayed, lost, unfit>>
         /\ form' = {} /\ partial' = FALSE
BY DEF TypeInserted, InsertType

LEMMA TypeUpdatedStep ==
  ASSUME TypeInv, NEW p \in Request, TypeUpdated(p)
  PROVE  /\ At(p, "updateType", "update") /\ CanWrite(p) /\ Commit(p, OfType, "edited")
         /\ type.there /\ req[p].version \in {0, type.version}
         /\ type' = [type EXCEPT !.version = type.version + 1, !.active = req[p].active,
                       !.states = Coalesce(req[p].states, type.states),
                       !.transitions = Coalesce(req[p].transitions, type.transitions)]
         /\ partial' = IF req[p].states # Keep /\ req[p].transitions # Keep THEN FALSE
                       ELSE partial \/ req[p].states # Keep \/ req[p].transitions # Keep
         /\ Edited(p) /\ UNCHANGED <<fields, template, place, tickets, form, strayed, unfit>>
BY DEF TypeUpdated, UpdateType, ResolveTypeVersionMiss, VersionMatches

LEMMA TypeDeletedStep ==
  ASSUME TypeInv, NEW p \in Request, TypeDeleted(p)
  PROVE  /\ At(p, "deleteType", "last") /\ CanWrite(p) /\ Commit(p, OfType, "reborn")
         /\ fields = deleted[p] /\ type' = NoType /\ fields' = {} /\ form' = {} /\ partial' = FALSE
         /\ UNCHANGED <<template, place, tickets, strayed, lost, unfit>>
BY DEF TypeDeleted, DeleteType

LEMMA FieldsReplacedStep ==
  ASSUME TypeInv, NEW p \in Request, FieldsReplaced(p)
  PROVE  /\ At(p, "replaceFields", "last") /\ Commit(p, OfType, "edited") /\ type.there
         /\ fields' = (fields \ deleted[p]) \cup {TicketTypeField(k, req[p]) : k \in req[p].keys}
         /\ type' = [type EXCEPT !.version = type.version + 1, !.custom = req[p].keys # {}]
         /\ form' = req[p].keys /\ Edited(p)
         /\ UNCHANGED <<template, place, tickets, partial, strayed, unfit>>
BY DEF FieldsReplaced, ReplaceTypeFields, Bump

LEMMA TemplateInsertedStep ==
  ASSUME TypeInv, NEW p \in Request, TemplateInserted(p)
  PROVE  /\ At(p, "createTemplate", "insert") /\ Commit(p, OfTemplate, "reborn")
         /\ template' = [NoTemplate EXCEPT !.there = TRUE, !.path = req[p].path, !.keys = req[p].keys]
         /\ strayed' = (req[p].path # place)
         /\ UNCHANGED <<type, fields, place, tickets, form, partial, lost, unfit>>
BY DEF TemplateInserted, InsertTemplate

LEMMA TemplateUpdatedStep ==
  ASSUME TypeInv, NEW p \in Request, TemplateUpdated(p)
  PROVE  /\ At(p, "updateTemplate", "update") /\ Commit(p, OfTemplate, "edited")
         /\ template.there /\ req[p].version \in {0, template.version}
         /\ template' = [template EXCEPT !.version = template.version + 1, !.keys = req[p].keys]
         /\ Edited(p) /\ UNCHANGED <<type, fields, place, tickets, form, partial, strayed, unfit>>
BY DEF TemplateUpdated, UpdateTemplate, ResolveTemplateVersionMiss, VersionMatches

LEMMA TicketInsertedStep ==
  ASSUME TypeInv, NEW p \in Request, TicketInserted(p)
  PROVE  /\ At(p, "createTicket", "insert") /\ Commit(p, {}, "same") /\ tickets' = 1
         /\ unfit' = (unfit \/ \A f \in req[p].forms : ~(f \subseteq req[p].keys))
         /\ UNCHANGED <<type, fields, template, place, form, partial, strayed, lost>>
BY DEF TicketInserted, InsertTicket

(* What every commit does to the requests and the locks. *)
Committed(p) ==
  /\ Active(p) /\ ops' = ops /\ Unlock(p) /\ place' = place
  /\ req' \in [Request -> ReqState] /\ req'[p] = IdleReq
  /\ \A q \in Request : q # p => SameRequest(q) /\ req'[q].forms = req[q].forms \cup {form'}

LEMMA WritesForm ==
  ASSUME TypeInv, NEW p \in Request, Writes(p)
  PROVE  /\ Active(p) /\ place' = place /\ form' \in SUBSET Key
         /\ \E K : \E how \in {"same", "edited", "reborn"} : Commit(p, K, how)
<1> USE DEF At, Active
<1>1. req[p].keys \in SUBSET Key /\ {} \in SUBSET Key /\ form \in SUBSET Key
  BY DEF TypeInv, ReqState
<1>2. CASE TypeInserted(p)
  BY <1>1, <1>2, TypeInsertedStep
<1>3. CASE TypeUpdated(p)
  BY <1>1, <1>3, TypeUpdatedStep
<1>4. CASE TypeDeleted(p)
  BY <1>1, <1>4, TypeDeletedStep
<1>5. CASE FieldsReplaced(p)
  BY <1>1, <1>5, FieldsReplacedStep
<1>6. CASE TemplateInserted(p)
  BY <1>1, <1>6, TemplateInsertedStep
<1>7. CASE TemplateUpdated(p)
  BY <1>1, <1>7, TemplateUpdatedStep
<1>8. CASE DeleteTemplate(p)
  BY <1>1, <1>8 DEF DeleteTemplate
<1>9. CASE TicketInserted(p)
  BY <1>1, <1>9, TicketInsertedStep
<1>10. QED
  BY <1>2, <1>3, <1>4, <1>5, <1>6, <1>7, <1>8, <1>9 DEF Writes

LEMMA WriteCommits ==
  ASSUME TypeInv, NEW p \in Request, Writes(p)
  PROVE  Committed(p)
<1>1. /\ Active(p) /\ place' = place /\ form' \in SUBSET Key
      /\ \E K : \E how \in {"same", "edited", "reborn"} : Commit(p, K, how)
  BY WritesForm
<1>2. PICK K : \E how \in {"same", "edited", "reborn"} : Commit(p, K, how)
  BY <1>1
<1>3. PICK how \in {"same", "edited", "reborn"} : Commit(p, K, how)
  BY <1>2
<1>4. QED
  BY <1>1, <1>3, CommitStep DEF Committed

-----------------------------------------------------------------------------
(* Types and numbers.                                                      *)

LEMMA TypeInit == Init => TypeInv
<1> SUFFICES ASSUME Init PROVE TypeInv
  OBVIOUS
<1>1. NoType \in TypeRow /\ NoTemplate \in TemplateRow
  BY TypeAssumption DEF NoType, NoTemplate, TypeRow, TemplateRow, States, Edges, Keep
<1>2. Seed \in TypeRow
  BY <1>1 DEF Seed, TypeRow, States, Edges
<1>3. type \in TypeRow /\ template \in TemplateRow
  BY <1>1, <1>2 DEF Init
<1>4. req \in [Request -> ReqState] /\ deleted \in [Request -> SUBSET FieldRow]
  BY IdleIsTyped DEF Init
<1>5. place \in 0..MaxMove /\ ops \in 0..MaxOps /\ tickets \in 0..1
  BY TypeAssumption DEF Init
<1>6. QED
  BY <1>3, <1>4, <1>5 DEF Init, TypeInv

(* The rows that a commit leaves. *)
LEMMA RowsTyped ==
  ASSUME TypeInv, Numbered, NEW p \in Request, Writes(p)
  PROVE  /\ type' \in TypeRow /\ fields' \in SUBSET FieldRow /\ template' \in TemplateRow
         /\ tickets' \in 0..1 /\ form' \in SUBSET Key /\ strayed' \in BOOLEAN
<1>1. PICK r \in ReqState : r = req[p]
  BY DEF TypeInv
<1>2. PICK row \in TypeRow : row = type
  BY DEF TypeInv
<1>3. PICK tpl \in TemplateRow : tpl = template
  BY DEF TypeInv
<1>4. NoType \in TypeRow /\ NoTemplate \in TemplateRow
  BY TypeAssumption DEF NoType, NoTemplate, TypeRow, TemplateRow, States, Edges, Keep
<1>5. /\ fields \in SUBSET FieldRow /\ tickets \in 0..1 /\ form \in SUBSET Key
      /\ {} \in SUBSET FieldRow /\ {} \in SUBSET Key
      /\ strayed \in BOOLEAN /\ r.keys \in SUBSET Key
  BY <1>1 DEF TypeInv, ReqState
<1>6. CASE TypeInserted(p)
  <2>1. type' = [NoType EXCEPT !.there = TRUE, !.states = r.states, !.transitions = r.transitions, !.active = r.active]
    BY <1>1, <1>6, TypeInsertedStep
  <2>2. type' \in TypeRow
    BY <1>1, <1>4, <2>1 DEF TypeRow, ReqState
  <2>3. QED
    BY <1>3, <1>5, <1>6, <2>2, TypeInsertedStep
<1>7. CASE TypeUpdated(p)
  <2>1. type' = [row EXCEPT !.version = row.version + 1, !.active = r.active,
                   !.states = Coalesce(r.states, row.states),
                   !.transitions = Coalesce(r.transitions, row.transitions)]
    BY <1>1, <1>2, <1>7, TypeUpdatedStep
  <2>2. Coalesce(r.states, row.states) \in States /\ Coalesce(r.transitions, row.transitions) \in Edges
    BY DEF Coalesce, TypeRow, ReqState
  <2>3. type' \in TypeRow
    <3>1. row.version + 1 \in Nat /\ r.active \in BOOLEAN
      BY DEF TypeRow, ReqState
    <3>2. QED
      BY <2>1, <2>2, <3>1 DEF TypeRow
  <2>4. QED
    BY <1>3, <1>5, <1>7, <2>3, TypeUpdatedStep
<1>8. CASE TypeDeleted(p)
  BY <1>3, <1>4, <1>5, <1>8, TypeDeletedStep
<1>9. CASE FieldsReplaced(p)
  <2>1. /\ type' = [row EXCEPT !.version = row.version + 1, !.custom = (r.keys # {})]
        /\ fields' = (fields \ deleted[p]) \cup {TicketTypeField(k, r) : k \in r.keys}
    BY <1>1, <1>2, <1>9, FieldsReplacedStep
  <2>2. type' \in TypeRow
    <3>1. row.version + 1 \in Nat /\ (r.keys # {}) \in BOOLEAN
      BY DEF TypeRow
    <3>2. QED
      BY <2>1, <3>1 DEF TypeRow
  <2>3. r.id \in 1..MaxOps
    <3>1. r.id \in 1..ops
      BY <1>1, <1>9, FieldsReplacedStep DEF Numbered, Active, At
    <3>2. QED
      BY <3>1, TypeAssumption DEF TypeInv
  <2>4. \A k \in r.keys : TicketTypeField(k, r) \in FieldRow
    BY <1>5, <2>3 DEF TicketTypeField, FieldRow
  <2>5. fields' \in SUBSET FieldRow
    BY <1>5, <2>1, <2>4
  <2>6. QED
    BY <1>1, <1>3, <1>5, <1>9, <2>2, <2>5, FieldsReplacedStep
<1>10. CASE TemplateInserted(p)
  <2>1. template' = [NoTemplate EXCEPT !.there = TRUE, !.path = r.path, !.keys = r.keys]
    BY <1>1, <1>10, TemplateInsertedStep
  <2>2. template' \in TemplateRow
    BY <1>4, <2>1 DEF TemplateRow, ReqState
  <2>3. QED
    BY <1>2, <1>5, <1>10, <2>2, TemplateInsertedStep
<1>11. CASE TemplateUpdated(p)
  <2>1. template' = [tpl EXCEPT !.version = tpl.version + 1, !.keys = r.keys]
    BY <1>1, <1>3, <1>11, TemplateUpdatedStep
  <2>2. template' \in TemplateRow
    <3>1. tpl.version + 1 \in Nat
      BY DEF TemplateRow
    <3>2. QED
      BY <1>5, <2>1, <3>1 DEF TemplateRow
  <2>3. QED
    BY <1>2, <1>5, <1>11, <2>2, TemplateUpdatedStep
<1>12. CASE DeleteTemplate(p)
  BY <1>2, <1>4, <1>5, <1>12 DEF DeleteTemplate
<1>13. CASE TicketInserted(p)
  BY <1>2, <1>3, <1>5, <1>13, TicketInsertedStep
<1>14. QED
  BY <1>6, <1>7, <1>8, <1>9, <1>10, <1>11, <1>12, <1>13 DEF Writes

(* The organization moves. *)
LEMMA MoveStep ==
  ASSUME TypeInv, MoveOrg
  PROVE  /\ place' = place + 1 /\ place' \in 0..MaxMove
         /\ UNCHANGED <<type, fields, tickets, locks, req, history, ops>>
         /\ template' \in TemplateRow /\ template'.there = template.there
         /\ template'.version = template.version
         /\ template'.path = IF template.there /\ template.path = place THEN place' ELSE template.path
<1>1. PICK tpl \in TemplateRow : tpl = template
  BY DEF TypeInv
<1>2. place' = place + 1 /\ place' \in 0..MaxMove
  BY TypeAssumption DEF MoveOrg, TypeInv
<1>3. template' = IF tpl.there /\ tpl.path = place THEN [tpl EXCEPT !.path = place'] ELSE tpl
  BY <1>1 DEF MoveOrg, Cascade
<1>4. QED
  BY <1>1, <1>2, <1>3 DEF MoveOrg, TemplateRow

LEMMA TypeStep ==
  ASSUME TypeInv, Numbered, [Next]_vars
  PROVE  TypeInv'
<1>1. ASSUME NEW p \in Request, Arrive(p)
      PROVE  TypeInv'
  <2>1. PICK r : Fresh(r) /\ Begin(p, r)
    BY <1>1, Arrivals
  <2>2. QED
    BY <2>1, BeginStep DEF TypeInv, rows, locks, history
<1>2. ASSUME NEW p \in Request, Rollback(p)
      PROVE  TypeInv'
  BY <1>2, RollbackStep, UnlockStep DEF TypeInv, rows, history
<1>3. ASSUME NEW p \in Request, Walks(p)
      PROVE  TypeInv'
  <2>1. Onward(p)
    BY <1>3, WalkOn
  <2>2. holder' \in Request \cup {NoRequest} /\ deleted' \in [Request -> SUBSET FieldRow]
    BY <1>3, CountStep, DeleteFieldsStep, BumpStep, SeeStep, PrefillStep, CheckStep
       DEF Walks, TypeInv, locks
  <2>3. QED
    BY <2>1, <2>2 DEF Onward, TypeInv, rows, history
<1>4. ASSUME NEW p \in Request, Writes(p)
      PROVE  TypeInv'
  <2>1. Committed(p)
    BY <1>4, WriteCommits
  <2>2. holder' \in Request \cup {NoRequest} /\ deleted' \in [Request -> SUBSET FieldRow]
    BY <2>1, UnlockStep DEF Committed
  <2>3. QED
    BY <1>4, <2>1, <2>2, RowsTyped DEF Committed, TypeInv
<1>5. CASE MoveOrg
  BY <1>5, MoveStep DEF TypeInv, locks, history
<1>6. CASE UNCHANGED vars
  BY <1>6 DEF vars, rows, locks, history, TypeInv
<1>7. QED
  BY <1>1, <1>2, <1>3, <1>4, <1>5, <1>6, Kinds DEF Next

(* Numbers of requests: finitely many, and no more than have come. *)
LEMMA NumbersFinite ==
  ASSUME NEW n \in Nat, NEW S, S \subseteq 1..n
  PROVE  IsFiniteSet(S) /\ Cardinality(S) \in Nat /\ Cardinality(S) <= n
<1>1. IsFiniteSet(1..n) /\ Cardinality(1..n) = n
  BY FS_Interval
<1>2. QED
  BY <1>1, FS_Subset, FS_CardinalityType

LEMMA NumberedStep ==
  ASSUME TypeInv, TypeInv', Numbered, ops' = ops,
         \A q \in Request : req'[q].pc # "idle" => Active(q) /\ req'[q].id = req[q].id,
         \/ type'.version \in {1, type.version}
         \/ /\ type'.version = type.version + 1
            /\ \E p \in Request : Active(p) /\ req'[p].pc = "idle"
  PROVE  Numbered'
<1>1. /\ \A p \in Request : Active(p)' => req'[p].id \in 1..ops'
      /\ \A p, q \in Request : Active(p)' /\ Active(q)' /\ req'[p].id = req'[q].id => p = q
  BY DEF Numbered, Active
<1>2. Over \subseteq Over'
  BY DEF Over, Active
<1>3. /\ IsFiniteSet(Over) /\ Cardinality(Over) \in Nat
      /\ IsFiniteSet(Over') /\ Cardinality(Over') \in Nat
  <2>1. ops \in Nat /\ ops' \in Nat
    BY DEF TypeInv
  <2>2. Over \subseteq 1..ops /\ Over' \subseteq 1..ops'
    BY DEF Over
  <2>3. QED
    BY <2>1, <2>2, NumbersFinite
<1>4. Cardinality(Over) <= Cardinality(Over')
  BY <1>2, <1>3, FS_Subset
<1>5. type.version \in 1..(Cardinality(Over) + 1) /\ type.version \in Nat
  BY DEF Numbered, TypeInv, TypeRow
<1>6. CASE type'.version \in {1, type.version}
  <2>1. type'.version \in 1..(Cardinality(Over') + 1)
    BY <1>3, <1>4, <1>5, <1>6
  <2>2. QED
    BY <1>1, <2>1 DEF Numbered
<1>7. ASSUME type'.version = type.version + 1, NEW p \in Request, Active(p), req'[p].pc = "idle"
      PROVE  Numbered'
  <2>1. req[p].id \in 1..ops /\ req[p].id \notin Over
    BY <1>7 DEF Numbered, Over
  <2>2. req[p].id \in Over'
    BY <1>7, <2>1 DEF Over, Active, Numbered
  <2>3. /\ IsFiniteSet(Over \cup {req[p].id})
        /\ Cardinality(Over \cup {req[p].id}) = Cardinality(Over) + 1
    BY <1>3, <2>1, FS_AddElement
  <2>4. Cardinality(Over) + 1 <= Cardinality(Over')
    BY <1>2, <1>3, <2>2, <2>3, FS_Subset
  <2>5. type'.version \in 1..(Cardinality(Over') + 1)
    BY <1>3, <1>5, <1>7, <2>4
  <2>6. QED
    BY <1>1, <2>5 DEF Numbered
<1>8. QED
  BY <1>6, <1>7

LEMMA NumberedInductive ==
  ASSUME TypeInv, TypeInv', Numbered, [Next]_vars
  PROVE  Numbered'
<1>1. ASSUME NEW p \in Request, Arrive(p)
      PROVE  Numbered'
  <2>1. PICK r : Fresh(r) /\ Begin(p, r)
    BY <1>1, Arrivals
  <2>2. /\ ~Active(p) /\ ops' = ops + 1 /\ type' = type
        /\ \A q \in Request : q # p => req'[q] = req[q]
        /\ req'[p] = [r EXCEPT !.id = ops + 1, !.forms = {form}]
    BY <2>1, BeginStep DEF rows
  <2>3. req'[p].id = ops + 1 /\ req'[p].pc # "idle" /\ ops \in Nat
    BY <2>1, <2>2 DEF Fresh, ReqState, TypeInv
  <2>4. \A q \in Request : Active(q)' <=> q = p \/ Active(q)
    BY <2>2, <2>3 DEF Active
  <2>5. \A q \in Request : Active(q) => q # p /\ req'[q].id = req[q].id /\ req[q].id \in 1..ops
    BY <2>2 DEF Numbered
  <2>6. \A q \in Request : Active(q)' => req'[q].id \in 1..ops' /\ (q # p => req'[q].id \in 1..ops)
    <3>1. ops + 1 \in 1..ops' /\ \A i \in 1..ops : i \in 1..ops'
      BY <2>2, <2>3
    <3>2. \A q \in Request : Active(q)' /\ q # p => req'[q].id \in 1..ops
      BY <2>4, <2>5
    <3>3. QED
      BY <2>3, <3>1, <3>2
  <2>7. \A s, q \in Request : Active(s)' /\ Active(q)' /\ req'[s].id = req'[q].id => s = q
    <3>1. ASSUME NEW s \in Request, NEW q \in Request, Active(s)', Active(q)', req'[s].id = req'[q].id
          PROVE  s = q
      <4>1. CASE s # p /\ q # p
        BY <2>2, <2>4, <3>1, <4>1 DEF Numbered
      <4>2. CASE s = p \/ q = p
        BY <2>3, <2>6, <3>1, <4>2
      <4>3. QED
        BY <4>1, <4>2
    <3>2. QED
      BY <3>1
  <2>8. \A i : i \in Over' <=> i \in 1..(ops + 1) /\ \A q \in Request : Active(q)' => i # req'[q].id
    BY <2>2 DEF Over
  <2>9. \A i : i \in Over <=> i \in 1..ops /\ \A q \in Request : Active(q) => i # req[q].id
    BY DEF Over
  <2>10. Over' = Over
    <3>1. \A i \in 1..(ops + 1) : i # ops + 1 <=> i \in 1..ops
      BY <2>3
    <3>2. ASSUME NEW i, i \in Over' PROVE i \in Over
      BY <2>3, <2>4, <2>5, <2>8, <2>9, <3>1, <3>2
    <3>3. ASSUME NEW i, i \in Over PROVE i \in Over'
      <4>1. i \in 1..ops /\ i \in 1..(ops + 1) /\ i # ops + 1
        BY <2>3, <2>9, <3>3
      <4>2. \A q \in Request : Active(q) => i # req'[q].id
        BY <2>5, <2>9, <3>3
      <4>3. \A q \in Request : Active(q)' => i # req'[q].id
        BY <2>3, <2>4, <4>1, <4>2
      <4>4. QED
        BY <2>8, <4>1, <4>3
    <3>4. QED
      BY <3>2, <3>3
  <2>11. QED
    BY <2>2, <2>6, <2>7, <2>10 DEF Numbered
<1>2. ASSUME NEW p \in Request, Rollback(p)
      PROVE  Numbered'
  BY <1>2, RollbackStep, IdleIsTyped, NumberedStep DEF Active, rows
<1>3. ASSUME NEW p \in Request, Walks(p)
      PROVE  Numbered'
  BY <1>3, WalkOn, NumberedStep DEF Onward, Active, rows
<1>4. ASSUME NEW p \in Request, Writes(p)
      PROVE  Numbered'
  <2>1. Committed(p)
    BY <1>4, WriteCommits
  <2>2. /\ req'[p].pc = "idle" /\ Active(p) /\ ops' = ops
        /\ \A q \in Request : req'[q].pc # "idle" => Active(q) /\ req'[q].id = req[q].id
    BY <2>1, IdleIsTyped DEF Committed, SameRequest, Active
  <2>3. type'.version \in {1, type.version, type.version + 1}
    <3>1. PICK row \in TypeRow : row = type
      BY DEF TypeInv
    <3>2. CASE TypeInserted(p)
      BY <3>2, TypeInsertedStep DEF NoType
    <3>3. CASE TypeUpdated(p)
      BY <3>1, <3>3, TypeUpdatedStep DEF TypeRow
    <3>4. CASE TypeDeleted(p)
      <4>1. type' = NoType
        BY <3>4, TypeDeletedStep
      <4>2. QED
        BY <4>1 DEF NoType
    <3>5. CASE FieldsReplaced(p)
      BY <3>1, <3>5, FieldsReplacedStep DEF TypeRow
    <3>6. QED
      BY <1>4, <3>2, <3>3, <3>4, <3>5, TemplateInsertedStep, TemplateUpdatedStep, TicketInsertedStep
         DEF Writes, DeleteTemplate
  <2>4. QED
    BY <2>2, <2>3, NumberedStep
<1>5. CASE MoveOrg
  BY <1>5, MoveStep, NumberedStep DEF Active
<1>6. CASE UNCHANGED vars
  BY <1>6, NumberedStep DEF vars, rows, Active
<1>7. QED
  BY <1>1, <1>2, <1>3, <1>4, <1>5, <1>6, Kinds DEF Next

-----------------------------------------------------------------------------
(* Row locks and the form.                                                 *)

(* While somebody else may write the row of the type, or there is none,    *)
(* nobody is in the middle of a replacement.                               *)
LEMMA NoneReplaces ==
  ASSUME Locked, NEW p \in Request, CanWrite(p) \/ ~type.there \/ Replacing(p)
  PROVE  \A q \in Request : q # p => ~Replacing(q)
BY TypeAssumption DEF Locked, CanWrite

(* The steps that leave the type and its fields alone. *)
LEMMA LockedQuiet ==
  ASSUME Locked, NEW p \in Request, type'.there = type.there, fields' = fields,
         ~(req'[p].op = "replaceFields" /\ req'[p].pc \in {"see", "rows", "last"}),
         deleted'[p] \in {deleted[p], {}},
         \A q \in Request : q # p =>
           /\ SameRequest(q) /\ deleted'[q] = deleted[q] /\ (holder = q => holder' = q)
  PROVE  Locked'
<1>1. /\ \A q \in Request : deleted'[q] \subseteq fields'
      /\ \A q, s \in Request : q # s => deleted'[q] \cap deleted'[s] = {}
  BY DEF Locked
<1>2. \A q \in Request : Replacing(q)' => q # p /\ Replacing(q)
  BY DEF Replacing, SameRequest
<1>3. \A q \in Request : Replacing(q)' =>
        /\ holder' = q /\ type'.there
        /\ req'[q].pc = "rows" => req'[q].rows = fields'
        /\ req'[q].pc = "last" => deleted'[q] = fields'
  BY <1>2 DEF Locked, SameRequest
<1>4. QED
  BY <1>1, <1>3 DEF Locked

LEMMA LockedWalk ==
  ASSUME TypeInv, Locked, NEW p \in Request, Walks(p)
  PROVE  Locked'
<1>1. /\ UNCHANGED <<type, fields>> /\ req'[p].op = req[p].op
      /\ \A q \in Request : q # p => req'[q] = req[q]
  BY WalkOn DEF Onward, rows
<1>2. \A q \in Request : q # p => SameRequest(q)
  BY <1>1 DEF SameRequest
<1>3. CASE CountTickets(p) /\ ~(tickets > 0)
  BY <1>1, <1>2, <1>3, CountStep, LockedQuiet DEF locks
<1>4. CASE DeleteFields(p)
  <2>1. /\ req[p].pc = "rows" /\ req'[p].pc = "last" /\ holder' = holder
        /\ \A q \in Request : q # p => deleted[q] \cap req[p].rows = {} /\ deleted'[q] = deleted[q]
        /\ deleted'[p] = req[p].rows \cap fields
    BY <1>4, DeleteFieldsStep
  <2>2. \A q \in Request : deleted'[q] \subseteq fields'
    BY <1>1, <2>1 DEF Locked
  <2>3. \A q, s \in Request : q # s => deleted'[q] \cap deleted'[s] = {}
    BY <2>1 DEF Locked
  <2>4. \A q \in Request : q # p /\ Replacing(q)' =>
          /\ holder' = q /\ type'.there
          /\ req'[q].pc = "rows" => req'[q].rows = fields'
          /\ req'[q].pc = "last" => deleted'[q] = fields'
    BY <1>1, <2>1 DEF Locked, Replacing
  <2>5. Replacing(p)' => /\ holder' = p /\ type'.there
                         /\ req'[p].pc = "last" /\ deleted'[p] = fields'
    BY <1>1, <2>1 DEF Locked, Replacing
  <2>6. QED
    BY <2>1, <2>2, <2>3, <2>4, <2>5 DEF Locked
<1>5. CASE BumpVersion(p) /\ ~ResolveTypeVersionMiss(req[p])
  <2>1. /\ req'[p].pc = "see" /\ CanWrite(p) /\ holder' = p /\ deleted' = deleted /\ type.there
    BY <1>5, BumpStep DEF CanWrite
  <2>2. \A q \in Request : q # p => ~Replacing(q)
    BY <2>1, NoneReplaces
  <2>3. \A q \in Request : Replacing(q)' => q = p
    BY <1>1, <2>2 DEF Replacing
  <2>4. QED
    BY <1>1, <2>1, <2>3 DEF Locked
<1>6. CASE SeeFields(p)
  <2>1. /\ Replacing(p) /\ req'[p].pc = "rows" /\ req'[p].rows = fields /\ UNCHANGED locks
    BY <1>6, SeeStep DEF Replacing
  <2>2. \A q \in Request : q # p => (Replacing(q)' <=> Replacing(q))
    BY <1>1 DEF Replacing
  <2>3. QED
    BY <1>1, <2>1, <2>2 DEF Locked, locks
<1>7. CASE Prefill(p)
  BY <1>1, <1>2, <1>7, PrefillStep, LockedQuiet DEF locks
<1>8. CASE CheckFields(p) /\ ValidateCustomData(req[p].keys)
  BY <1>1, <1>2, <1>8, CheckStep, LockedQuiet DEF locks
<1>9. QED
  BY <1>3, <1>4, <1>5, <1>6, <1>7, <1>8 DEF Walks

(* A commit of a transaction that nobody replaces fields beside. *)
LEMMA LockedAlone ==
  ASSUME Locked, NEW p \in Request, \A q \in Request : q # p => ~Replacing(q),
         req'[p] = IdleReq, deleted'[p] = {},
         \A q \in Request : q # p => SameRequest(q) /\ deleted'[q] = deleted[q] /\ deleted[q] \subseteq fields'
  PROVE  Locked'
<1>1. \A q \in Request : ~Replacing(q)'
  BY IdleIsTyped DEF Replacing, SameRequest
<1>2. QED
  BY <1>1 DEF Locked

LEMMA LockedWrite ==
  ASSUME TypeInv, Locked, NEW p \in Request, Writes(p)
  PROVE  Locked'
<1>1. /\ req'[p] = IdleReq /\ deleted'[p] = {}
      /\ \A q \in Request : q # p =>
           SameRequest(q) /\ deleted'[q] = deleted[q] /\ (holder = q => holder' = q)
  BY WriteCommits, UnlockStep DEF Committed
<1>2. \A q \in Request : deleted[q] \subseteq fields
  BY DEF Locked
<1>3. CASE TypeInserted(p)
  BY <1>1, <1>2, <1>3, TypeInsertedStep, NoneReplaces, LockedAlone
<1>4. CASE TypeUpdated(p)
  BY <1>1, <1>2, <1>4, TypeUpdatedStep, NoneReplaces, LockedAlone
<1>5. CASE TypeDeleted(p)
  <2>1. \A q \in Request : q # p => deleted[q] = {}
    BY <1>5, TypeDeletedStep DEF Locked
  <2>2. QED
    BY <1>1, <1>5, <2>1, TypeDeletedStep, NoneReplaces, LockedAlone
<1>6. CASE FieldsReplaced(p)
  <2>1. Replacing(p)
    BY <1>6, FieldsReplacedStep DEF At, Replacing
  <2>2. \A q \in Request : q # p => deleted[q] \subseteq fields'
    BY <1>6, FieldsReplacedStep DEF Locked
  <2>3. QED
    BY <1>1, <2>1, <2>2, NoneReplaces, LockedAlone
<1>7. ASSUME UNCHANGED <<type, fields>>
      PROVE  Locked'
  BY <1>1, <1>7, IdleIsTyped, LockedQuiet
<1>8. QED
  BY <1>3, <1>4, <1>5, <1>6, <1>7, TemplateInsertedStep, TemplateUpdatedStep, TicketInsertedStep
     DEF Writes, DeleteTemplate

LEMMA LockedStep ==
  ASSUME TypeInv, Locked, [Next]_vars
  PROVE  Locked'
<1>1. ASSUME NEW p \in Request, Arrive(p)
      PROVE  Locked'
  <2>1. PICK r : Fresh(r) /\ Begin(p, r)
    BY <1>1, Arrivals
  <2>2. /\ UNCHANGED <<rows, locks>> /\ r \in ReqState
        /\ req'[p] = [r EXCEPT !.id = ops + 1, !.forms = {form}]
        /\ \A q \in Request : q # p => req'[q] = req[q]
    BY <2>1, BeginStep DEF Fresh
  <2>3. req'[p].pc = r.pc
    BY <2>2 DEF ReqState
  <2>4. r.pc \notin {"see", "rows", "last"} /\ \A q \in Request : q # p => SameRequest(q)
    BY <2>1, <2>2 DEF Fresh, SameRequest
  <2>5. QED
    BY <2>3, <2>4, <2>2, LockedQuiet DEF rows, locks
<1>2. ASSUME NEW p \in Request, Rollback(p)
      PROVE  Locked'
  <2>1. \A q \in Request : q # p => SameRequest(q)
    BY <1>2, RollbackStep DEF SameRequest
  <2>2. QED
    BY <1>2, <2>1, RollbackStep, UnlockStep, IdleIsTyped, LockedQuiet DEF rows
<1>3. CASE MoveOrg
  BY <1>3, MoveStep DEF Locked, Replacing, locks
<1>4. CASE UNCHANGED vars
  BY <1>4 DEF vars, rows, locks, Locked, Replacing
<1>5. QED
  BY <1>1, <1>2, <1>3, <1>4, LockedWalk, LockedWrite, Kinds DEF Next

(* The DELETE of a replacement takes all that is there, so what it inserts *)
(* is the whole form.                                                      *)
LEMMA OneFormWrite ==
  ASSUME TypeInv, Locked, FieldsAreOneForm, NEW p \in Request, Writes(p)
  PROVE  FieldsAreOneForm'
<1>1. /\ {f.key : f \in fields} = form /\ type.custom = (form # {})
      /\ ~type.there => form = {} /\ fields = {}
  BY DEF FieldsAreOneForm
<1>2. CASE TypeInserted(p)
  <2>1. type'.custom = FALSE /\ type'.there = TRUE /\ fields' = {} /\ form' = {}
    BY <1>1, <1>2, TypeInsertedStep DEF NoType
  <2>2. QED
    BY <2>1 DEF FieldsAreOneForm
<1>3. CASE TypeUpdated(p)
  <2>1. PICK row \in TypeRow : row = type
    BY DEF TypeInv
  <2>2. type'.custom = type.custom /\ type'.there = type.there /\ UNCHANGED <<fields, form>>
    BY <1>3, <2>1, TypeUpdatedStep DEF TypeRow
  <2>3. QED
    BY <1>1, <2>2 DEF FieldsAreOneForm
<1>4. CASE TypeDeleted(p)
  <2>1. type' = NoType /\ fields' = {} /\ form' = {}
    BY <1>4, TypeDeletedStep
  <2>2. QED
    BY <2>1 DEF FieldsAreOneForm, NoType
<1>5. CASE FieldsReplaced(p)
  <2>1. PICK row \in TypeRow : row = type
    BY DEF TypeInv
  <2>2. /\ At(p, "replaceFields", "last") /\ type.there /\ form' = req[p].keys
        /\ fields' = (fields \ deleted[p]) \cup {TicketTypeField(k, req[p]) : k \in req[p].keys}
        /\ type' = [row EXCEPT !.version = row.version + 1, !.custom = (req[p].keys # {})]
    BY <1>5, <2>1, FieldsReplacedStep
  <2>3. fields \ deleted[p] = {}
    BY <2>2 DEF Locked, Replacing, At
  <2>4. fields' = {TicketTypeField(k, req[p]) : k \in req[p].keys}
    BY <2>2, <2>3
  <2>5. \A k : TicketTypeField(k, req[p]).key = k
    BY DEF TicketTypeField
  <2>6. {f.key : f \in fields'} = form'
    <3>1. ASSUME NEW k, k \in {f.key : f \in fields'} PROVE k \in form'
      BY <2>2, <2>4, <2>5, <3>1
    <3>2. ASSUME NEW k, k \in form' PROVE k \in {f.key : f \in fields'}
      BY <2>2, <2>4, <2>5, <3>2
    <3>3. QED
      BY <3>1, <3>2
  <2>7. type'.custom = (form' # {}) /\ type'.there
    BY <2>1, <2>2 DEF TypeRow
  <2>8. QED
    BY <2>6, <2>7 DEF FieldsAreOneForm
<1>6. ASSUME UNCHANGED <<type, fields, form>>
      PROVE  FieldsAreOneForm'
  BY <1>1, <1>6 DEF FieldsAreOneForm
<1>7. QED
  BY <1>2, <1>3, <1>4, <1>5, <1>6, TemplateInsertedStep, TemplateUpdatedStep, TicketInsertedStep
     DEF Writes, DeleteTemplate

(* What the steps that commit nothing leave alone. *)
LEMMA NothingWritten ==
  ASSUME TypeInv, [Next]_vars, ~(\E p \in Request : Writes(p)), ~MoveOrg
  PROVE  UNCHANGED <<rows, history>>
<1>1. ASSUME NEW p \in Request, Arrive(p)
      PROVE  UNCHANGED <<rows, history>>
  <2>1. PICK r : Fresh(r) /\ Begin(p, r)
    BY <1>1, Arrivals
  <2>2. QED
    BY <2>1, BeginStep
<1>2. ASSUME NEW p \in Request, Rollback(p)
      PROVE  UNCHANGED <<rows, history>>
  BY <1>2, RollbackStep
<1>3. ASSUME NEW p \in Request, Walks(p)
      PROVE  UNCHANGED <<rows, history>>
  BY <1>3, WalkOn DEF Onward
<1>4. QED
  BY <1>1, <1>2, <1>3, Kinds DEF Next, vars

LEMMA OneFormStep ==
  ASSUME TypeInv, Locked, FieldsAreOneForm, [Next]_vars
  PROVE  FieldsAreOneForm'
<1>1. CASE \E p \in Request : Writes(p)
  BY <1>1, OneFormWrite
<1>2. CASE MoveOrg
  BY <1>2, MoveStep DEF FieldsAreOneForm, history
<1>3. CASE UNCHANGED <<rows, history>>
  BY <1>3 DEF rows, history, FieldsAreOneForm
<1>4. QED
  BY <1>1, <1>2, <1>3, NothingWritten

-----------------------------------------------------------------------------
(* Versions.                                                               *)

(* A commit that the requests of the kinds in K are told of: whoever read  *)
(* the version of the row has now read an old one, or the row is new.      *)
LEMMA BehindStays ==
  ASSUME NEW r, NEW s, NEW row, NEW next, Behind(r, row), s.version = r.version, s.since = r.since,
         next.version = row.version
  PROVE  Behind(s, next)
BY DEF Behind

LEMMA BehindCommit ==
  ASSUME NEW r \in ReqState, NEW s \in ReqState, NEW row, row.version \in Nat, NEW next,
         Behind(r, row), s.version = r.version,
         \/ s.since = "reborn"
         \/ /\ next.version = row.version + 1 /\ s.since \in {"edited", "reborn"}
            /\ r.since \in {"same", "edited", "reborn"}
            /\ r.since = "reborn" => s.since = "reborn"
  PROVE  Behind(s, next)
<1>1. r.version \in Nat
  BY DEF ReqState
<1>2. QED
  BY <1>1 DEF Behind

LEMMA DatedWalk ==
  ASSUME TypeInv, Locked, Dated, NEW p \in Request, Walks(p)
  PROVE  Dated'
<1>1. /\ UNCHANGED <<type, template>>
      /\ \A q \in Request : req'[q].op = req[q].op /\ req'[q].version = req[q].version
                            /\ req'[q].since = req[q].since
      /\ \A q \in Request : q # p => req'[q] = req[q]
  BY WalkOn DEF Onward, rows
<1>2. \A q \in Request : /\ req'[q].op \in OfType => Behind(req'[q], type')
                         /\ req'[q].op \in OfTemplate => Behind(req'[q], template')
  BY <1>1, BehindStays DEF Dated
<1>3. Replacing(p)' => req'[p].version = 0 \/ req'[p].since # "edited"
  <2>1. ASSUME req[p].op = "replaceFields", ~Replacing(p), Replacing(p)'
        PROVE  req'[p].version = 0 \/ req'[p].since # "edited"
    <3>1. BumpVersion(p) /\ ~ResolveTypeVersionMiss(req[p])
      <4>1. req[p].pc \notin {"see", "rows", "last"}
        BY <2>1 DEF Replacing
      <4>2. QED
        BY <2>1, <4>1, CountStep, DeleteFieldsStep, SeeStep, PrefillStep, CheckStep DEF Walks
    <3>2. req[p].version \in {0, type.version} /\ Behind(req[p], type) /\ type.version \in Nat
      BY <2>1, <3>1, BumpStep DEF Dated, OfType, TypeInv, TypeRow
    <3>3. QED
      BY <1>1, <3>2 DEF Behind
  <2>2. QED
    BY <1>1, <2>1 DEF Dated, Replacing
<1>4. \A q \in Request : Replacing(q)' => req'[q].version = 0 \/ req'[q].since # "edited"
  BY <1>1, <1>3 DEF Dated, Replacing
<1>5. QED
  BY <1>2, <1>4 DEF Dated

(* A commit that concerns neither the version of the type nor that of the  *)
(* template, one that makes the row anew, and one that edits it.           *)
LEMMA DatedCommit ==
  ASSUME TypeInv, TypeInv', Dated, NEW p \in Request, NEW K \in {{}, OfType, OfTemplate},
         NEW how \in {"same", "edited", "reborn"}, Commit(p, K, how), form' \in SUBSET Key,
         how = "same" => K = {},
         K # OfType => type'.version = type.version,
         K # OfTemplate => template'.version = template.version,
         how = "edited" /\ K = OfType => /\ type'.version = type.version + 1
                                         /\ \A q \in Request : q # p => ~Replacing(q),
         how = "edited" /\ K = OfTemplate => template'.version = template.version + 1
  PROVE  Dated'
<1>1. /\ req'[p] = IdleReq
      /\ \A q \in Request : q # p => SameRequest(q) /\ req'[q].since = Told(q, K, how)
  BY CommitStep
<1>2. /\ \A q \in Request : req[q] \in ReqState /\ req'[q] \in ReqState
      /\ type.version \in Nat /\ template.version \in Nat
  BY DEF TypeInv, TypeRow, TemplateRow
<1>3. OfType \cap OfTemplate = {} /\ OfType # {} /\ OfTemplate # {} /\ OfType # OfTemplate
  BY DEF OfType, OfTemplate
<1>4. ASSUME NEW q \in Request, q # p
      PROVE  /\ req'[q].op \in OfType => Behind(req'[q], type')
             /\ req'[q].op \in OfTemplate => Behind(req'[q], template')
             /\ Replacing(q)' => req'[q].version = 0 \/ req'[q].since # "edited"
  <2>1. /\ req'[q].op = req[q].op /\ req'[q].version = req[q].version /\ req'[q].since = Told(q, K, how)
        /\ Replacing(q)' <=> Replacing(q)
    BY <1>1, <1>4 DEF SameRequest, Replacing
  <2>2. req[q].since \in {"same", "edited", "reborn"}
    BY <1>2 DEF ReqState
  <2>3. req[q].op \notin K => req'[q].since = req[q].since
    BY <2>1 DEF Told
  <2>4. req[q].op \in K => /\ req'[q].since = "reborn" \/ (how = "edited" /\ req'[q].since = "edited")
                           /\ req[q].since = "reborn" => req'[q].since = "reborn"
    BY <2>1, <2>2 DEF Told
  <2>5. ASSUME req[q].op \in OfType
        PROVE  Behind(req'[q], type')
    <3>1. Behind(req[q], type)
      BY <2>5 DEF Dated
    <3>2. CASE K = OfType
      BY <1>2, <2>1, <2>2, <2>4, <2>5, <3>1, <3>2, BehindCommit
    <3>3. CASE K # OfType
      BY <1>3, <2>1, <2>3, <2>5, <3>1, <3>3, BehindStays
    <3>4. QED
      BY <3>2, <3>3
  <2>6. ASSUME req[q].op \in OfTemplate
        PROVE  Behind(req'[q], template')
    <3>1. Behind(req[q], template)
      BY <2>6 DEF Dated
    <3>2. CASE K = OfTemplate
      BY <1>2, <2>1, <2>2, <2>4, <2>6, <3>1, <3>2, BehindCommit
    <3>3. CASE K # OfTemplate
      BY <1>3, <2>1, <2>3, <2>6, <3>1, <3>3, BehindStays
    <3>4. QED
      BY <3>2, <3>3
  <2>7. ASSUME Replacing(q)
        PROVE  req'[q].version = 0 \/ req'[q].since # "edited"
    <3>1. req[q].op = "replaceFields" /\ req[q].op \in OfType
      BY <2>7 DEF Replacing, OfType
    <3>2. req[q].version = 0 \/ req[q].since # "edited"
      BY <2>7 DEF Dated
    <3>3. CASE req[q].op \in K
      <4>1. K = OfType
        BY <1>3, <3>1, <3>3
      <4>2. how # "edited"
        BY <1>4, <2>7, <4>1
      <4>3. QED
        BY <2>4, <3>3, <4>2
    <3>4. CASE req[q].op \notin K
      BY <2>1, <2>3, <3>2, <3>4
    <3>5. QED
      BY <3>3, <3>4
  <2>8. QED
    BY <2>1, <2>5, <2>6, <2>7
<1>5. /\ Behind(req'[p], type') /\ Behind(req'[p], template') /\ req'[p].version = 0
  BY <1>1, IdleIsTyped DEF Behind
<1>6. QED
  BY <1>4, <1>5 DEF Dated

(* An edit with a version finds the version it names, and has been told of *)
(* no edit since.                                                          *)
LEMMA NothingLost ==
  ASSUME NEW p \in Request, Edited(p), NoLostEdit,
         req[p].version # 0 => req[p].since # "edited"
  PROVE  NoLostEdit'
BY DEF Edited, NoLostEdit

LEMMA UpToDate ==
  ASSUME NEW r, NEW row, Behind(r, row), row.version \in Nat, r.version \in {0, row.version}
  PROVE  r.version # 0 => r.since # "edited"
BY DEF Behind

LEMMA DatedWrite ==
  ASSUME TypeInv, TypeInv', Locked, Dated, NoLostEdit, NEW p \in Request, Writes(p)
  PROVE  Dated' /\ NoLostEdit'
<1>1. form' \in SUBSET Key /\ type.version \in Nat /\ template.version \in Nat
  BY DEF TypeInv, TypeRow, TemplateRow
<1>2. OfType # OfTemplate /\ OfType # {} /\ OfTemplate # {}
  BY DEF OfType, OfTemplate
<1>3. CASE TypeInserted(p)
  BY <1>1, <1>2, <1>3, TypeInsertedStep, DatedCommit DEF NoLostEdit
<1>4. CASE TypeUpdated(p)
  <2>1. PICK row \in TypeRow : row = type
    BY DEF TypeInv
  <2>2. type'.version = type.version + 1
    BY <1>4, <2>1, TypeUpdatedStep DEF TypeRow
  <2>3. \A q \in Request : q # p => ~Replacing(q)
    BY <1>4, TypeUpdatedStep, NoneReplaces
  <2>4. Dated'
    BY <1>1, <1>2, <1>4, <2>2, <2>3, TypeUpdatedStep, DatedCommit
  <2>5. req[p].version # 0 => req[p].since # "edited"
    <3>1. Behind(req[p], type) /\ req[p].version \in {0, type.version}
      BY <1>4, TypeUpdatedStep DEF Dated, At, OfType
    <3>2. QED
      BY <1>1, <3>1, UpToDate
  <2>6. QED
    BY <1>4, <2>4, <2>5, TypeUpdatedStep, NothingLost
<1>5. CASE TypeDeleted(p)
  BY <1>1, <1>2, <1>5, TypeDeletedStep, DatedCommit DEF NoLostEdit
<1>6. CASE FieldsReplaced(p)
  <2>1. PICK row \in TypeRow : row = type
    BY DEF TypeInv
  <2>2. type'.version = type.version + 1
    BY <1>6, <2>1, FieldsReplacedStep DEF TypeRow
  <2>3. Replacing(p)
    BY <1>6, FieldsReplacedStep DEF At, Replacing
  <2>4. \A q \in Request : q # p => ~Replacing(q)
    BY <2>3, NoneReplaces
  <2>5. Dated'
    BY <1>1, <1>2, <1>6, <2>2, <2>4, FieldsReplacedStep, DatedCommit
  <2>6. req[p].version # 0 => req[p].since # "edited"
    BY <2>3 DEF Dated
  <2>7. QED
    BY <1>6, <2>5, <2>6, FieldsReplacedStep, NothingLost
<1>7. CASE TemplateInserted(p)
  BY <1>1, <1>2, <1>7, TemplateInsertedStep, DatedCommit DEF NoLostEdit
<1>8. CASE TemplateUpdated(p)
  <2>1. PICK tpl \in TemplateRow : tpl = template
    BY DEF TypeInv
  <2>2. template'.version = template.version + 1
    BY <1>8, <2>1, TemplateUpdatedStep DEF TemplateRow
  <2>3. Dated'
    BY <1>1, <1>2, <1>8, <2>2, TemplateUpdatedStep, DatedCommit
  <2>4. req[p].version # 0 => req[p].since # "edited"
    <3>1. Behind(req[p], template) /\ req[p].version \in {0, template.version}
      BY <1>8, TemplateUpdatedStep DEF Dated, At, OfTemplate
    <3>2. QED
      BY <1>1, <3>1, UpToDate
  <2>5. QED
    BY <1>8, <2>3, <2>4, TemplateUpdatedStep, NothingLost
<1>9. CASE DeleteTemplate(p)
  <2>1. Commit(p, OfTemplate, "reborn") /\ UNCHANGED <<type, lost>>
    BY <1>9 DEF DeleteTemplate
  <2>2. QED
    BY <1>1, <1>2, <2>1, DatedCommit DEF NoLostEdit
<1>10. CASE TicketInserted(p)
  BY <1>1, <1>2, <1>10, TicketInsertedStep, DatedCommit DEF NoLostEdit
<1>11. QED
  BY <1>3, <1>4, <1>5, <1>6, <1>7, <1>8, <1>9, <1>10 DEF Writes

LEMMA DatedStep ==
  ASSUME TypeInv, TypeInv', Locked, Dated, NoLostEdit, [Next]_vars
  PROVE  Dated' /\ NoLostEdit'
<1>1. ASSUME NEW p \in Request, Arrive(p)
      PROVE  Dated' /\ NoLostEdit'
  <2>1. PICK r : Fresh(r) /\ Begin(p, r)
    BY <1>1, Arrivals
  <2>2. /\ UNCHANGED <<rows, history>> /\ r \in ReqState
        /\ req'[p] = [r EXCEPT !.id = ops + 1, !.forms = {form}]
        /\ \A q \in Request : q # p => req'[q] = req[q]
    BY <2>1, BeginStep DEF Fresh
  <2>3. /\ req'[p].op = r.op /\ req'[p].version = r.version /\ req'[p].since = r.since /\ req'[p].pc = r.pc
    BY <2>2 DEF ReqState
  <2>4. type.version \in Nat /\ template.version \in Nat
    BY DEF TypeInv, TypeRow, TemplateRow
  <2>5. /\ req'[p].op \in OfType => Behind(req'[p], type')
        /\ req'[p].op \in OfTemplate => Behind(req'[p], template')
        /\ ~Replacing(p)'
    BY <2>1, <2>2, <2>3, <2>4 DEF Fresh, Behind, Replacing, rows
  <2>6. \A q \in Request : q # p =>
          /\ req'[q].op \in OfType => Behind(req'[q], type')
          /\ req'[q].op \in OfTemplate => Behind(req'[q], template')
          /\ Replacing(q)' => req'[q].version = 0 \/ req'[q].since # "edited"
    BY <2>2 DEF Dated, Behind, Replacing, rows
  <2>7. QED
    BY <2>2, <2>5, <2>6 DEF Dated, NoLostEdit, history
<1>2. ASSUME NEW p \in Request, Rollback(p)
      PROVE  Dated' /\ NoLostEdit'
  <2>1. /\ UNCHANGED <<rows, history>> /\ req'[p] = IdleReq
        /\ \A q \in Request : q # p => req'[q] = req[q]
    BY <1>2, RollbackStep
  <2>2. /\ Behind(req'[p], type') /\ Behind(req'[p], template') /\ req'[p].version = 0
    BY <2>1, IdleIsTyped DEF Behind
  <2>3. \A q \in Request : q # p =>
          /\ req'[q].op \in OfType => Behind(req'[q], type')
          /\ req'[q].op \in OfTemplate => Behind(req'[q], template')
          /\ Replacing(q)' => req'[q].version = 0 \/ req'[q].since # "edited"
    BY <2>1 DEF Dated, Behind, Replacing, rows
  <2>4. QED
    BY <2>1, <2>2, <2>3 DEF Dated, NoLostEdit, history
<1>3. ASSUME NEW p \in Request, Walks(p)
      PROVE  Dated' /\ NoLostEdit'
  BY <1>3, DatedWalk, WalkOn DEF Onward, history, NoLostEdit
<1>4. CASE MoveOrg
  BY <1>4, MoveStep DEF Dated, Behind, Replacing, NoLostEdit, history
<1>5. CASE UNCHANGED vars
  BY <1>5 DEF vars, rows, history, Dated, Behind, Replacing, NoLostEdit
<1>6. QED
  BY <1>1, <1>2, <1>3, <1>4, <1>5, DatedWrite, Kinds DEF Next

-----------------------------------------------------------------------------
(* Graphs.                                                                 *)

(* A request goes on with the graph it has brought. *)
LEMMA CheckedStep ==
  ASSUME TypeInv, Checked, [Next]_vars
  PROVE  Checked'
<1>1. ASSUME NEW p \in Request, Arrive(p)
      PROVE  Checked'
  <2>1. PICK r : Fresh(r) /\ Begin(p, r)
    BY <1>1, Arrivals
  <2>2. /\ r \in ReqState /\ req'[p] = [r EXCEPT !.id = ops + 1, !.forms = {form}]
        /\ \A q \in Request : q # p => req'[q] = req[q]
    BY <2>1, BeginStep DEF Fresh
  <2>3. req'[p].op = r.op /\ req'[p].states = r.states /\ req'[p].transitions = r.transitions
    BY <2>2 DEF ReqState
  <2>4. Whole(req'[p]) => ValidateTypeGraph(req'[p].states, req'[p].transitions)
    BY <2>1, <2>3 DEF Fresh, Whole
  <2>5. QED
    BY <2>2, <2>4 DEF Checked, Active
<1>2. ASSUME NEW p \in Request, Rollback(p)
      PROVE  Checked'
  BY <1>2, RollbackStep, IdleIsTyped DEF Checked, Active
<1>3. ASSUME NEW p \in Request, Walks(p)
      PROVE  Checked'
  <2>1. /\ req'[p].op = req[p].op /\ req'[p].states = req[p].states /\ Active(p)
        /\ req'[p].transitions = req[p].transitions
        /\ \A q \in Request : q # p => req'[q] = req[q]
    BY <1>3, WalkOn DEF Onward
  <2>2. QED
    BY <2>1 DEF Checked, Active, Whole
<1>4. ASSUME NEW p \in Request, Writes(p)
      PROVE  Checked'
  BY <1>4, WriteCommits, IdleIsTyped DEF Committed, SameRequest, Checked, Active, Whole
<1>5. CASE UNCHANGED req
  BY <1>5 DEF Checked, Active
<1>6. QED
  BY <1>1, <1>2, <1>3, <1>4, <1>5, MoveStep, Kinds DEF Next, vars

LEMMA ClosedGraphStep ==
  ASSUME TypeInv, Checked, GraphIsClosed, [Next]_vars
  PROVE  GraphIsClosed'
<1>1. ASSUME NEW p \in Request, TypeInserted(p)
      PROVE  GraphIsClosed'
  <2>1. PICK S, T, active : S = req[p].states /\ T = req[p].transitions /\ active = req[p].active
    OBVIOUS
  <2>2. type' = [NoType EXCEPT !.there = TRUE, !.states = S, !.transitions = T, !.active = active]
    BY <1>1, <2>1, TypeInsertedStep
  <2>3. type'.states = S /\ type'.transitions = T
    BY <2>2 DEF NoType
  <2>4. ValidateTypeGraph(S, T)
    BY <1>1, <2>1, TypeInsertedStep DEF Checked, Active, Whole, At
  <2>5. QED
    BY <2>3, <2>4 DEF GraphIsClosed
<1>2. ASSUME NEW p \in Request, TypeUpdated(p)
      PROVE  GraphIsClosed'
  <2>1. PICK row \in TypeRow : row = type
    BY DEF TypeInv
  <2>2. PICK S, T, active : S = req[p].states /\ T = req[p].transitions /\ active = req[p].active
    OBVIOUS
  <2>3. /\ type' = [row EXCEPT !.version = row.version + 1, !.active = active,
                       !.states = Coalesce(S, row.states), !.transitions = Coalesce(T, row.transitions)]
        /\ row.there /\ At(p, "updateType", "update")
        /\ partial' = IF S # Keep /\ T # Keep THEN FALSE ELSE partial \/ S # Keep \/ T # Keep
    BY <1>2, <2>1, <2>2, TypeUpdatedStep
  <2>4. type'.states = Coalesce(S, row.states) /\ type'.transitions = Coalesce(T, row.transitions)
    BY <2>3 DEF TypeRow
  <2>5. CASE S # Keep /\ T # Keep
    <3>1. ValidateTypeGraph(S, T)
      BY <2>2, <2>3, <2>5 DEF Checked, Active, Whole, At
    <3>2. QED
      BY <2>4, <2>5, <3>1 DEF GraphIsClosed, Coalesce
  <2>6. CASE S = Keep /\ T = Keep
    <3>1. type'.states = row.states /\ type'.transitions = row.transitions /\ (~partial' => ~partial)
      BY <2>3, <2>4, <2>6 DEF Coalesce
    <3>2. QED
      BY <2>1, <2>3, <3>1 DEF GraphIsClosed
  <2>7. CASE (S = Keep) # (T = Keep)
    BY <2>3, <2>7 DEF GraphIsClosed
  <2>8. QED
    BY <2>5, <2>6, <2>7
<1>3. ASSUME NEW p \in Request, TypeDeleted(p)
      PROVE  GraphIsClosed'
  <2>1. type' = NoType
    BY <1>3, TypeDeletedStep
  <2>2. QED
    BY <2>1 DEF GraphIsClosed, NoType
<1>4. ASSUME NEW p \in Request, FieldsReplaced(p)
      PROVE  GraphIsClosed'
  <2>1. PICK row \in TypeRow : row = type
    BY DEF TypeInv
  <2>2. PICK custom : type' = [row EXCEPT !.version = row.version + 1, !.custom = custom]
    BY <1>4, <2>1, FieldsReplacedStep
  <2>3. type'.there = row.there /\ type'.states = row.states /\ type'.transitions = row.transitions
    BY <2>2 DEF TypeRow
  <2>4. QED
    BY <1>4, <2>1, <2>3, FieldsReplacedStep DEF GraphIsClosed
<1>5. CASE UNCHANGED <<type, partial>>
  BY <1>5 DEF GraphIsClosed
<1>6. ASSUME NEW p \in Request, Writes(p)
      PROVE  GraphIsClosed'
  BY <1>1, <1>2, <1>3, <1>4, <1>5, <1>6, TemplateInsertedStep, TemplateUpdatedStep, TicketInsertedStep
     DEF Writes, DeleteTemplate
<1>7. QED
  BY <1>5, <1>6, MoveStep, NothingWritten DEF rows, history

-----------------------------------------------------------------------------
(* The path of the template.                                               *)

LEMMA FollowsStep ==
  ASSUME TypeInv, TemplateFollowsOrg, [Next]_vars
  PROVE  TemplateFollowsOrg'
<1>1. ASSUME NEW p \in Request, TemplateInserted(p)
      PROVE  TemplateFollowsOrg'
  <2>1. PICK path, keys : path = req[p].path /\ keys = req[p].keys
    OBVIOUS
  <2>2. /\ template' = [NoTemplate EXCEPT !.there = TRUE, !.path = path, !.keys = keys]
        /\ strayed' = (path # place) /\ place' = place
    BY <1>1, <2>1, TemplateInsertedStep
  <2>3. template'.path = path
    BY <2>2 DEF NoTemplate
  <2>4. QED
    BY <2>2, <2>3 DEF TemplateFollowsOrg
<1>2. ASSUME NEW p \in Request, TemplateUpdated(p)
      PROVE  TemplateFollowsOrg'
  <2>1. PICK tpl \in TemplateRow : tpl = template
    BY DEF TypeInv
  <2>2. PICK keys : template' = [tpl EXCEPT !.version = tpl.version + 1, !.keys = keys]
    BY <1>2, <2>1, TemplateUpdatedStep
  <2>3. template'.there = tpl.there /\ template'.path = tpl.path
    BY <2>2 DEF TemplateRow
  <2>4. QED
    BY <1>2, <2>1, <2>3, TemplateUpdatedStep DEF TemplateFollowsOrg
<1>3. ASSUME NEW p \in Request, DeleteTemplate(p)
      PROVE  TemplateFollowsOrg'
  <2>1. template' = NoTemplate
    BY <1>3 DEF DeleteTemplate
  <2>2. QED
    BY <2>1 DEF TemplateFollowsOrg, NoTemplate
<1>4. CASE MoveOrg
  <2>1. PICK tpl \in TemplateRow : tpl = template
    BY DEF TypeInv
  <2>2. /\ place' = place + 1 /\ place \in Nat /\ strayed' = strayed
        /\ template'.there = tpl.there
        /\ template'.path = IF tpl.there /\ tpl.path = place THEN place' ELSE tpl.path
    BY <1>4, <2>1, MoveStep DEF TypeInv, history
  <2>3. QED
    BY <2>1, <2>2 DEF TemplateFollowsOrg
<1>5. CASE UNCHANGED <<template, place, strayed>>
  BY <1>5 DEF TemplateFollowsOrg
<1>6. ASSUME NEW p \in Request, Writes(p)
      PROVE  TemplateFollowsOrg'
  BY <1>1, <1>2, <1>3, <1>5, <1>6, TypeInsertedStep, TypeUpdatedStep, TypeDeletedStep,
     FieldsReplacedStep, TicketInsertedStep DEF Writes
<1>7. QED
  BY <1>4, <1>5, <1>6, NothingWritten DEF rows, history

-----------------------------------------------------------------------------
(* Tickets.                                                                *)

(* A request that goes on still knows what it knew, and one that has found *)
(* every field given knows that form.                                      *)
LEMMA InformedWalk ==
  ASSUME TypeInv, FieldsAreOneForm, Informed, NEW p \in Request, Walks(p)
  PROVE  Informed'
<1>1. /\ form' = form /\ Active(p) /\ req'[p].forms = req[p].forms /\ req'[p].op = req[p].op
      /\ \A q \in Request : q # p => req'[q] = req[q]
  BY WalkOn DEF Onward, history
<1>2. form \in req'[p].forms
  BY <1>1 DEF Informed
<1>3. req'[p].op = "createTicket" /\ req'[p].pc = "insert" => \E f \in req'[p].forms : f \subseteq req'[p].keys
  <2>1. CASE CheckFields(p) /\ ValidateCustomData(req[p].keys)
    <3>1. req'[p].keys = req[p].keys /\ form \subseteq req[p].keys
      BY <2>1, CheckStep DEF ValidateCustomData, FieldsAreOneForm
    <3>2. QED
      BY <1>2, <3>1
  <2>2. CASE CountTickets(p) \/ SeeFields(p) \/ Prefill(p) \/ DeleteFields(p)
             \/ (BumpVersion(p) /\ ~ResolveTypeVersionMiss(req[p]))
    <3>1. CASE CountTickets(p)
      BY <1>1, <3>1 DEF CountTickets, At
    <3>2. CASE ~CountTickets(p)
      BY <1>1, <2>2, <3>2, SeeStep, PrefillStep, DeleteFieldsStep, BumpStep
    <3>3. QED
      BY <3>1, <3>2
  <2>3. QED
    BY <2>1, <2>2 DEF Walks
<1>4. QED
  BY <1>1, <1>2, <1>3 DEF Informed, Active, At

LEMMA InformedStep ==
  ASSUME TypeInv, FieldsAreOneForm, Informed, [Next]_vars
  PROVE  Informed'
<1>1. ASSUME NEW p \in Request, Arrive(p)
      PROVE  Informed'
  <2>1. PICK r : Fresh(r) /\ Begin(p, r)
    BY <1>1, Arrivals
  <2>2. /\ r \in ReqState /\ req'[p] = [r EXCEPT !.id = ops + 1, !.forms = {form}] /\ form' = form
        /\ \A q \in Request : q # p => req'[q] = req[q]
    BY <2>1, BeginStep DEF Fresh, history
  <2>3. req'[p].op = r.op /\ req'[p].pc = r.pc /\ form \in req'[p].forms
    BY <2>2 DEF ReqState
  <2>4. QED
    BY <2>1, <2>2, <2>3 DEF Informed, Active, At, Fresh
<1>2. ASSUME NEW p \in Request, Rollback(p)
      PROVE  Informed'
  BY <1>2, RollbackStep, IdleIsTyped DEF Informed, Active, At, history
<1>3. ASSUME NEW p \in Request, Writes(p)
      PROVE  Informed'
  <2>1. /\ req'[p] = IdleReq
        /\ \A q \in Request : q # p => SameRequest(q) /\ req'[q].forms = req[q].forms \cup {form'}
    BY <1>3, WriteCommits DEF Committed
  <2>2. ASSUME NEW q \in Request, req'[q].pc # "idle"
        PROVE  /\ form' \in req'[q].forms
               /\ req'[q].op = "createTicket" /\ req'[q].pc = "insert"
                    => \E f \in req'[q].forms : f \subseteq req'[q].keys
    BY <2>1, <2>2, IdleIsTyped DEF Informed, SameRequest, Active, At
  <2>3. QED
    BY <2>2 DEF Informed, Active, At
<1>4. CASE UNCHANGED <<req, form>>
  BY <1>4 DEF Informed, Active, At
<1>5. QED
  BY <1>1, <1>2, <1>3, <1>4, InformedWalk, MoveStep, Kinds DEF Next, vars, history

LEMMA FitStep ==
  ASSUME TypeInv, Informed, NewTicketFitsAForm, [Next]_vars
  PROVE  NewTicketFitsAForm'
<1>1. ASSUME NEW p \in Request, TicketInserted(p)
      PROVE  NewTicketFitsAForm'
  <2>1. \E f \in req[p].forms : f \subseteq req[p].keys
    BY <1>1, TicketInsertedStep DEF Informed, Active, At
  <2>2. QED
    BY <1>1, <2>1, TicketInsertedStep DEF NewTicketFitsAForm
<1>2. CASE UNCHANGED unfit
  BY <1>2 DEF NewTicketFitsAForm
<1>3. ASSUME NEW p \in Request, Writes(p)
      PROVE  NewTicketFitsAForm'
  BY <1>1, <1>2, <1>3, TypeInsertedStep, TypeUpdatedStep, TypeDeletedStep, FieldsReplacedStep,
     TemplateInsertedStep, TemplateUpdatedStep DEF Writes, DeleteTemplate
<1>4. QED
  BY <1>2, <1>3, MoveStep, NothingWritten DEF history

-----------------------------------------------------------------------------
(* The theorems.                                                           *)

LEMMA InvInit == Init => IInv
<1> SUFFICES ASSUME Init PROVE IInv
  OBVIOUS
<1>1. TypeInv
  BY TypeInit
<1>2. \A p \in Request : req[p] = IdleReq /\ deleted[p] = {}
  BY DEF Init
<1>3. /\ type.version = 1 /\ type.custom = FALSE
      /\ type = Seed => type.states = defaultStates /\ type.transitions = defaultTransitions
  <2>1. NoType.version = 1 /\ NoType.custom = FALSE
    BY DEF NoType
  <2>2. /\ Seed.version = 1 /\ Seed.custom = FALSE
        /\ Seed.states = defaultStates /\ Seed.transitions = defaultTransitions
    BY DEF Seed, NoType
  <2>3. QED
    BY <2>1, <2>2 DEF Init
<1>4. Numbered
  <2>1. Over \subseteq 1..ops /\ ops \in Nat
    BY <1>1 DEF Over, TypeInv
  <2>2. Cardinality(Over) \in Nat
    BY <2>1, NumbersFinite
  <2>3. QED
    BY <1>2, <1>3, <2>2, IdleIsTyped DEF Numbered, Active
<1>5. Locked /\ Checked /\ Informed
  BY <1>2, IdleIsTyped DEF Locked, Checked, Informed, Active, Replacing
<1>6. Dated
  BY <1>2, IdleIsTyped DEF Dated, Behind
<1>7. FieldsAreOneForm
  BY <1>3 DEF Init, FieldsAreOneForm
<1>8. GraphIsClosed
  <2>1. CASE type = NoType
    BY <2>1 DEF GraphIsClosed, NoType
  <2>2. CASE type = Seed
    <3>1. ValidateTypeGraph(defaultStates, defaultTransitions)
      BY DEF ValidateTypeGraph, defaultStates, defaultTransitions
    <3>2. QED
      BY <1>3, <2>2, <3>1 DEF GraphIsClosed
  <2>3. QED
    BY <2>1, <2>2 DEF Init
<1>9. NoLostEdit /\ NewTicketFitsAForm /\ TemplateFollowsOrg
  BY DEF Init, NoLostEdit, NewTicketFitsAForm, TemplateFollowsOrg, NoTemplate
<1>10. QED
  BY <1>1, <1>5, <1>6, <1>7, <1>8, <1>9, <1>4 DEF IInv

LEMMA InvStep == IInv /\ [Next]_vars => IInv'
BY TypeStep, NumberedInductive, LockedStep, OneFormStep, DatedStep, CheckedStep, ClosedGraphStep,
   FollowsStep, InformedStep, FitStep DEF IInv

LEMMA InvCorrect == Spec => []IInv
BY InvInit, InvStep, PTL DEF Spec

(* Rows, requests and locks keep their types; a version counts at most the *)
(* requests that have come, and a transaction deletes only rows that are    *)
(* there.                                                                  *)
THEOREM TypeCorrect == Spec => []TypeOK
<1>1. IInv => TypeOK
  <2> SUFFICES ASSUME IInv PROVE TypeOK
    OBVIOUS
  <2>1. TypeInv /\ Numbered /\ Locked
    BY DEF IInv
  <2>2. ops \in Nat /\ ops <= MaxOps /\ MaxOps \in Nat
    BY <2>1, TypeAssumption DEF TypeInv
  <2>3. Cardinality(Over) \in Nat /\ Cardinality(Over) <= ops
    BY <2>2, NumbersFinite DEF Over
  <2>4. type.version \in 1..(MaxOps + 1)
    BY <2>1, <2>2, <2>3 DEF Numbered
  <2>5. type.there \in BOOLEAN /\ template.there \in BOOLEAN /\ template.keys \subseteq Key
    BY <2>1 DEF TypeInv, TypeRow, TemplateRow
  <2>6. \A p \in Request : req[p].op \in Op
    BY <2>1 DEF TypeInv, ReqState
  <2>7. QED
    BY <2>1, <2>4, <2>5, <2>6 DEF TypeInv, FieldRow, Locked, TypeOK
<1>2. QED
  BY <1>1, InvCorrect, PTL

(* ReplaceTicketTypeFields takes the row of the type before it deletes and *)
(* inserts fields, so a form is never a mixture.                           *)
THEOREM FormIsWhole == Spec => []FieldsAreOneForm
<1>1. IInv => FieldsAreOneForm
  BY DEF IInv
<1>2. QED
  BY <1>1, InvCorrect, PTL

(* An edit of a type or a template that names a version overwrites nothing *)
(* its client has not seen.                                                *)
THEOREM EditsAreSeen == Spec => []NoLostEdit
<1>1. IInv => NoLostEdit
  BY DEF IInv
<1>2. QED
  BY <1>1, InvCorrect, PTL

(* As long as clients send both halves of a graph or none, its transitions *)
(* lead between its states.                                                *)
THEOREM GraphStaysClosed == Spec => []GraphIsClosed
<1>1. IInv => GraphIsClosed
  BY DEF IInv
<1>2. QED
  BY <1>1, InvCorrect, PTL

(* A template inserted with the current path of its organization follows   *)
(* it through every move.                                                  *)
THEOREM TemplateFollows == Spec => []TemplateFollowsOrg
<1>1. IInv => TemplateFollowsOrg
  BY DEF IInv
<1>2. QED
  BY <1>1, InvCorrect, PTL

(* A ticket is created only with the required fields of a form that its    *)
(* type had while the request was in progress.                             *)
THEOREM TicketsFit == Spec => []NewTicketFitsAForm
<1>1. IInv => NewTicketFitsAForm
  BY DEF IInv
<1>2. QED
  BY <1>1, InvCorrect, PTL
=============================================================================
