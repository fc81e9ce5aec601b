----------------------------- MODULE TicketType -----------------------------
(***************************************************************************)
(* A ticket type with the fields of its form and a template, edited by     *)
(* administrators while clients create tickets of it.  ticket_types holds  *)
(* the state graph and a version; ticket_type_fields, ticket_templates and *)
(* tickets refer to it by foreign keys.                                    *)
(*                                                                         *)
(* Transactions run under READ COMMITTED with row locks.  A statement sees *)
(* what is committed when it starts; a DELETE that waits for rows another  *)
(* transaction deletes does not see what that one has inserted.  A step is *)
(* one such statement, or the statements after the last that can wait, up  *)
(* to the commit.                                                          *)
(*                                                                         *)
(* One type and one template code, one organization for the template; its  *)
(* path is a number that every move of the organization (OrgTree) changes. *)
(* Every field is a required one.  Values, labels and their formats are    *)
(* left out.                                                               *)
(***************************************************************************)
EXTENDS Naturals, FiniteSets

CONSTANTS Request,    \* requests that can be in progress at once
          NoRequest,
          Key,        \* field keys
          StateSet,   \* the sets of states clients send
          EdgeSet,    \* the sets of transitions clients send
          Offered,    \* the operations clients ask for in this model
          MaxOps,     \* bound on requests
          MaxMove     \* bound on moves

Op == {"createType", "updateType", "deleteType", "replaceFields",
       "createTemplate", "updateTemplate", "deleteTemplate", "createTicket"}
\* the six states of the code, abstracted to two
defaultStates == {"open", "closed"}
defaultTransitions == {<<"open", "closed">>, <<"closed", "open">>}
Keep == {}  \* a part a patch does not name (COALESCE); nobody sends an empty one

ASSUME TypeAssumption ==
  /\ NoRequest \notin Request /\ Offered \subseteq Op
  /\ Keep \notin StateSet /\ Keep \notin EdgeSet
  /\ MaxOps \in Nat /\ MaxMove \in Nat

VARIABLES
  type,      \* the row of ticket_types: there, version, states, transitions, is_active, has_custom_fields
  fields,    \* the rows of ticket_type_fields: field_key and the request that inserted it
  template,  \* the row of ticket_templates: there, version, org_path, keys that default_fields gives
  place,     \* organizations.path
  tickets,   \* how many tickets of the type there are (0, or 1 for any number)
  holder,    \* the transaction that has written the type row, or NoRequest
  deleted,   \* deleted[p] : the field rows that the transaction p has deleted
  req,       \* req[p] : the request in progress
  form,      \* the keys of the last committed replacement (auxiliary)
  partial,   \* an update named only states or only transitions (auxiliary)
  strayed,   \* the template was inserted with a path that was not current any more (auxiliary)
  lost,      \* an edit with a version overwrote one its client had not seen (auxiliary)
  unfit,     \* a ticket was created that fits no form of its time (auxiliary)
  ops

rows == <<type, fields, template, place, tickets>>
locks == <<holder, deleted>>
history == <<form, partial, strayed, lost, unfit>>
vars == <<rows, locks, req, history, ops>>

NoType == [there |-> FALSE, version |-> 1, states |-> {}, transitions |-> {},
           active |-> FALSE, custom |-> FALSE]
NoTemplate == [there |-> FALSE, version |-> 1, path |-> 0, keys |-> {}]
\* since: what happened to the row after its client read the version;
\* forms: the forms that were in force since the request came (auxiliary)
IdleReq == [op |-> "updateType", pc |-> "idle", id |-> 0, version |-> 0, keys |-> {},
            states |-> Keep, transitions |-> Keep, active |-> TRUE, rows |-> {}, path |-> 0,
            since |-> "same", forms |-> {}]
Seed == [NoType EXCEPT !.there = TRUE, !.active = TRUE,
                       !.states = defaultStates, !.transitions = defaultTransitions]
Init ==
  /\ type \in {NoType, Seed} /\ fields = {} /\ template = NoTemplate /\ place = 0 /\ tickets = 0
  /\ holder = NoRequest /\ deleted = [p \in Request |-> {}]
  /\ req = [p \in Request |-> IdleReq]
  /\ form = {} /\ partial = FALSE /\ strayed = FALSE /\ lost = FALSE /\ unfit = FALSE
  /\ ops = 0

-----------------------------------------------------------------------------
(* Requests and transactions.                                              *)

At(p, op, pc) == req[p].op = op /\ req[p].pc = pc
CanWrite(p) == holder \in {p, NoRequest}
Begin(p, r) ==
  /\ req[p].pc = "idle" /\ r.op \in Offered
  /\ ops < MaxOps /\ ops' = ops + 1
  /\ req' = [req EXCEPT ![p] = [r EXCEPT !.id = ops', !.forms = {form}]]
  /\ UNCHANGED <<rows, locks, history>>
Goto(p, r) == req' = [req EXCEPT ![p] = r] /\ UNCHANGED <<rows, history, ops>>
Unlock(p) ==
  /\ holder' = IF holder = p THEN NoRequest ELSE holder
  /\ deleted' = [deleted EXCEPT ![p] = {}]
(* An error, a deadlock victim, a client that hangs up or a process that   *)
(* dies: nothing is written.                                               *)
Rollback(p) == Unlock(p) /\ Goto(p, IdleReq)
Abort(p) == req[p].pc # "idle" /\ Rollback(p)

(* A commit that changes the row that requests of the kinds in K edit: for *)
(* those that have read its version it has been edited, or born again.     *)
OfType == {"updateType", "replaceFields"}
OfTemplate == {"updateTemplate"}
Commit(p, K, how) ==
  /\ Unlock(p)
  /\ req' = [q \in Request |->
       IF q = p THEN IdleReq
       ELSE [req[q] EXCEPT !.since = IF req[q].op \in K /\ @ # "reborn" THEN how ELSE @,
                           !.forms = @ \cup {form'}]]
  /\ UNCHANGED ops
(* The history of an edit that commits. *)
Edited(p) == lost' = (lost \/ (req[p].version # 0 /\ req[p].since = "edited"))

GetTicketType == type
GetTicketTemplate == template

AnyVersion(r, row) == TRUE
VersionMatches(r, row) == r.version \in {0, row.version}

-----------------------------------------------------------------------------
(* Types.                                                                  *)

(* validateTypeGraph: the ends of every transition are states.             *)
ValidateTypeGraph(S, T) == S # {} /\ \A e \in T : e[1] \in S /\ e[2] \in S
Named(x, default) == IF x = Keep THEN default ELSE x
Coalesce(x, old) == IF x = Keep THEN old ELSE x

CreateTypeRequest(S, T, active) ==
  [IdleReq EXCEPT !.op = "createType", !.states = S, !.transitions = T, !.active = active]
CreateTicketType(p, S, T, active) ==
  LET r == CreateTypeRequest(Named(S, defaultStates), Named(T, defaultTransitions), active) IN
  /\ ValidateTypeGraph(r.states, r.transitions)
  /\ Begin(p, [r EXCEPT !.pc = "insert"])
InsertType(p) ==
  /\ At(p, "createType", "insert")
  /\ IF type.there THEN Rollback(p)
     ELSE /\ type' = [NoType EXCEPT !.there = TRUE, !.states = req[p].states,
                                    !.transitions = req[p].transitions, !.active = req[p].active]
          /\ UNCHANGED <<fields, template, place, tickets>>
          /\ form' = {} /\ partial' = FALSE /\ UNCHANGED <<strayed, lost, unfit>>
          /\ Commit(p, OfType, "reborn")

(* UpdateTicketType checks a graph made of what the request names and of   *)
(* the defaults; the row keeps what the request does not name.             *)
GraphUnchecked(S, T) == TRUE
GraphChecked(S, T) ==
  (S # Keep \/ T # Keep) => ValidateTypeGraph(Named(S, defaultStates), Named(T, defaultTransitions))
UpdateTypeRequest(S, T, active, v) ==
  [IdleReq EXCEPT !.op = "updateType", !.states = S, !.transitions = T, !.active = active, !.version = v]
UpdateTicketType(p, S, T, active, v) ==
  /\ GraphChecked(S, T)
  /\ Begin(p, [UpdateTypeRequest(S, T, active, v) EXCEPT !.pc = "update"])
(* No row is hit: the type is gone or has another version. *)
ResolveTypeVersionMiss(r) == ~type.there \/ ~VersionMatches(r, type)
UpdateType(p) ==
  LET r == req[p] IN
  /\ At(p, "updateType", "update") /\ CanWrite(p)
  /\ IF ResolveTypeVersionMiss(r) THEN Rollback(p)
     ELSE /\ type' = [type EXCEPT !.version = @ + 1, !.active = r.active,
                                  !.states = Coalesce(r.states, @),
                                  !.transitions = Coalesce(r.transitions, @)]
          /\ partial' = IF r.states # Keep /\ r.transitions # Keep THEN FALSE
                        ELSE partial \/ r.states # Keep \/ r.transitions # Keep
          /\ Edited(p) /\ UNCHANGED <<fields, template, place, tickets, form, strayed, unfit>>
          /\ Commit(p, OfType, "edited")

(* DeleteTicketType: tickets are counted, the fields deleted, then the     *)
(* type, which the foreign keys may still forbid.                          *)
DeleteTypeRequest == [IdleReq EXCEPT !.op = "deleteType"]
DeleteTicketType(p) == Begin(p, [DeleteTypeRequest EXCEPT !.pc = "count"])
CountTickets(p) ==
  /\ At(p, "deleteType", "count")
  /\ IF tickets > 0 THEN Rollback(p)
     ELSE Goto(p, [req[p] EXCEPT !.pc = "rows", !.rows = fields]) /\ UNCHANGED locks
(* DELETE FROM ticket_type_fields, with the rows it saw when it started.   *)
DeleteFields(p) ==
  /\ req[p].pc = "rows"
  /\ \A q \in Request \ {p} : deleted[q] \cap req[p].rows = {}
  /\ deleted' = [deleted EXCEPT ![p] = req[p].rows \cap fields]
  /\ Goto(p, [req[p] EXCEPT !.pc = "last", !.rows = {}]) /\ UNCHANGED holder
DeleteType(p) ==
  /\ At(p, "deleteType", "last") /\ CanWrite(p)
  /\ IF ~type.there \/ tickets > 0 \/ template.there \/ fields # deleted[p] THEN Rollback(p)
     ELSE /\ type' = NoType /\ fields' = {} /\ UNCHANGED <<template, place, tickets>>
          /\ form' = {} /\ partial' = FALSE /\ UNCHANGED <<strayed, lost, unfit>>
          /\ Commit(p, OfType, "reborn")

(* ReplaceTicketTypeFields: the type row is written first, which locks it; *)
(* then the fields are deleted and inserted.                               *)
ReplaceFieldsRequest(keys, v) ==
  [IdleReq EXCEPT !.op = "replaceFields", !.keys = keys, !.version = v]
ReplaceTicketTypeFields(p, keys, v) ==
  /\ GetTicketType.there
  /\ Begin(p, [ReplaceFieldsRequest(keys, v) EXCEPT !.pc = "bump"])
TicketTypeField(k, r) == [key |-> k, by |-> r.id]
LockNothing(p) == holder
LockParent(p) == p
BumpVersion(p) ==
  /\ At(p, "replaceFields", "bump") /\ CanWrite(p)
  /\ IF ResolveTypeVersionMiss(req[p]) THEN Rollback(p)
     ELSE holder' = LockParent(p) /\ UNCHANGED deleted /\ Goto(p, [req[p] EXCEPT !.pc = "see"])
(* The DELETE starts. *)
SeeFields(p) ==
  /\ At(p, "replaceFields", "see")
  /\ Goto(p, [req[p] EXCEPT !.pc = "rows", !.rows = fields]) /\ UNCHANGED locks
(* UNIQUE (type_code, field_key), and the foreign key.                     *)
BumpIfVersioned(r) == IF r.version = 0 THEN type.version ELSE type.version + 1
Bump(r) == type.version + 1
ReplaceTypeFields(p) ==
  LET r == req[p]
      left == fields \ deleted[p]
  IN
  /\ At(p, "replaceFields", "last")
  /\ \A q \in Request \ {p}, f \in left : f.key \in r.keys => f \notin deleted[q]
  /\ IF ~type.there \/ \E f \in left : f.key \in r.keys THEN Rollback(p)
     ELSE /\ fields' = left \cup {TicketTypeField(k, r) : k \in r.keys}
          /\ type' = [type EXCEPT !.version = Bump(r), !.custom = r.keys # {}]
          /\ form' = r.keys
          /\ Edited(p) /\ UNCHANGED <<template, place, tickets, partial, strayed, unfit>>
          /\ Commit(p, OfType, "edited")

-----------------------------------------------------------------------------
(* Templates.                                                              *)

(* The type and the path of the organization are read before the insert,   *)
(* outside a transaction.                                                  *)
CreateTemplateRequest(keys) == [IdleReq EXCEPT !.op = "createTemplate", !.keys = keys]
CreateTicketTemplate(p, keys) ==
  /\ GetTicketType.there
  /\ Begin(p, [CreateTemplateRequest(keys) EXCEPT !.pc = "insert", !.path = place])
InsertTemplate(p) ==
  /\ At(p, "createTemplate", "insert")
  /\ IF template.there \/ ~type.there THEN Rollback(p)
     ELSE /\ template' = [NoTemplate EXCEPT !.there = TRUE, !.path = req[p].path, !.keys = req[p].keys]
          /\ UNCHANGED <<type, fields, place, tickets>>
          /\ strayed' = (req[p].path # place) /\ UNCHANGED <<form, partial, lost, unfit>>
          /\ Commit(p, OfTemplate, "reborn")
UpdateTemplateRequest(keys, v) ==
  [IdleReq EXCEPT !.op = "updateTemplate", !.keys = keys, !.version = v]
UpdateTicketTemplate(p, keys, v) == Begin(p, [UpdateTemplateRequest(keys, v) EXCEPT !.pc = "update"])
(* No row is hit: the template is gone or has another version. *)
ResolveTemplateVersionMiss(r) == ~template.there \/ ~VersionMatches(r, template)
UpdateTemplate(p) ==
  LET r == req[p] IN
  /\ At(p, "updateTemplate", "update")
  /\ IF ResolveTemplateVersionMiss(r) THEN Rollback(p)
     ELSE /\ template' = [template EXCEPT !.version = @ + 1, !.keys = r.keys]
          /\ Edited(p) /\ UNCHANGED <<type, fields, place, tickets, form, partial, strayed, unfit>>
          /\ Commit(p, OfTemplate, "edited")
DeleteTemplateRequest == [IdleReq EXCEPT !.op = "deleteTemplate"]
DeleteTicketTemplate(p) ==
  /\ template.there
  /\ Begin(p, [DeleteTemplateRequest EXCEPT !.pc = "delete"])
DeleteTemplate(p) ==
  /\ At(p, "deleteTemplate", "delete")
  /\ template' = NoTemplate /\ strayed' = FALSE
  /\ UNCHANGED <<type, fields, place, tickets, form, partial, lost, unfit>>
  /\ Commit(p, OfTemplate, "reborn")
(* A move of the organization takes along the templates at its path.       *)
CascadeNothing == template
Cascade == IF template.there /\ template.path = place THEN [template EXCEPT !.path = place + 1] ELSE template
MoveOrg ==
  /\ place < MaxMove
  /\ template' = Cascade /\ place' = place + 1
  /\ UNCHANGED <<type, fields, tickets, locks, req, history, ops>>

-----------------------------------------------------------------------------
(* Creating a ticket: the type, the template, whose defaults stand in for  *)
(* custom_data that the request does not give, the fields, the insert.     *)

CreateTicket(p, keys) ==
  /\ GetTicketType.there /\ GetTicketType.active
  /\ Begin(p, [IdleReq EXCEPT !.op = "createTicket", !.pc = "template", !.keys = keys])
Prefill(p) ==
  /\ At(p, "createTicket", "template")
  /\ \E wanted \in BOOLEAN :  \* the request names the template
       Goto(p, [req[p] EXCEPT !.pc = "fields", !.keys =
                  IF wanted /\ GetTicketTemplate.there /\ @ = {} THEN GetTicketTemplate.keys ELSE @])
  /\ UNCHANGED locks
AcceptsEmpty(keys) == keys = {} \/ {f.key : f \in fields} \subseteq keys
ValidateCustomData(keys) == {f.key : f \in fields} \subseteq keys
CheckFields(p) ==
  /\ At(p, "createTicket", "fields")
  /\ IF ValidateCustomData(req[p].keys)
     THEN Goto(p, [req[p] EXCEPT !.pc = "insert"]) /\ UNCHANGED locks
     ELSE Rollback(p)
InsertTicket(p) ==
  /\ At(p, "createTicket", "insert")
  /\ IF ~type.there THEN Rollback(p)
     ELSE /\ tickets' = 1 /\ UNCHANGED <<type, fields, template, place>>
          /\ unfit' = (unfit \/ \A f \in req[p].forms : ~(f \subseteq req[p].keys))
          /\ UNCHANGED <<form, partial, strayed, lost>>
          /\ Commit(p, {}, "same")

-----------------------------------------------------------------------------
(* is_active is sent together with a graph only as true.                  *)
Versions(row) == {0} \cup (IF row.there THEN {row.version} ELSE {})
Arrive(p) ==
  \/ \E S \in StateSet \cup {Keep}, T \in EdgeSet \cup {Keep} :
       \/ CreateTicketType(p, S, T, TRUE)
       \/ \E v \in Versions(type), active \in BOOLEAN :
            /\ active \/ (S = Keep /\ T = Keep)
            /\ UpdateTicketType(p, S, T, active, v)
  \/ \E keys \in SUBSET Key :
       \/ \E v \in Versions(type) : ReplaceTicketTypeFields(p, keys, v)
       \/ \E v \in Versions(template) : UpdateTicketTemplate(p, keys, v)
       \/ CreateTicketTemplate(p, keys) \/ CreateTicket(p, keys)
  \/ DeleteTicketType(p) \/ DeleteTicketTemplate(p)
Step(p) ==
  \/ InsertType(p) \/ UpdateType(p)
  \/ CountTickets(p) \/ DeleteFields(p) \/ DeleteType(p)
  \/ BumpVersion(p) \/ SeeFields(p) \/ ReplaceTypeFields(p)
  \/ InsertTemplate(p) \/ UpdateTemplate(p) \/ DeleteTemplate(p)
  \/ Prefill(p) \/ CheckFields(p) \/ InsertTicket(p)
  \/ Abort(p)
Next == (\E p \in Request : Arrive(p) \/ Step(p)) \/ MoveOrg
Spec == Init /\ [][Next]_vars

-----------------------------------------------------------------------------
(* Types. *)
TypeOK ==
  /\ type.there \in BOOLEAN /\ type.version \in 1..(MaxOps + 1)
  /\ fields \subseteq [key : Key, by : 1..MaxOps]
  /\ template.there \in BOOLEAN /\ template.keys \subseteq Key
  /\ place \in 0..MaxMove /\ tickets \in 0..1
  /\ holder \in Request \cup {NoRequest}
  /\ \A p \in Request : req[p].op \in Op /\ deleted[p] \subseteq fields
  /\ ops \in 0..MaxOps

(* The form of a type is what one replacement asked for, never a mixture   *)
(* of two that ran at once, of one and a deletion of the type, or rows     *)
(* left behind by a type that is gone; and has_custom_fields says whether  *)
(* it has any.                                                             *)
FieldsAreOneForm ==
  /\ {f.key : f \in fields} = form
  /\ type.custom = (form # {})
  /\ ~type.there => form = {}

(* An edit that names a version never overwrites an edit its client has    *)
(* not seen, whichever of the two kinds of edit of a type they are and     *)
(* whether the other one named a version.  Deleting the row and creating   *)
(* it anew starts the versions again, and is left out.                     *)
NoLostEdit == ~lost

(* The transitions of a stored type lead between its states, unless an     *)
(* update has named only one of the two: that one is checked against the   *)
(* default of the other and not against what the row keeps.                *)
GraphIsClosed == type.there /\ ~partial => ValidateTypeGraph(type.states, type.transitions)

(* The template follows its organization, unless it was inserted with a    *)
(* path read before a move that committed meanwhile: no later move finds   *)
(* it then.                                                                *)
TemplateFollowsOrg == template.there /\ ~strayed => template.path = place

(* A new ticket fits a form that the type had while it was being created,  *)
(* whatever template filled it in and whoever edits form and template.     *)
NewTicketFitsAForm == ~unfit
=============================================================================
