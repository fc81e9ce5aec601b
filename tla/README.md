# A verification project for zhuzhao

zhuzhao is a Go monolith (Gin, PostgreSQL, Redis, Casbin) for accounts,
organizations, roles, tickets and scheduled jobs. Every request runs in its own
goroutine, several instances of the server may run at once, and almost every
guarantee rests on what single SQL statements, row locks and Redis calls do when
requests interleave. That is what this project models: one step of a
specification is one round trip to PostgreSQL or Redis, or the statements of a
transaction after its last wait, and requests interleave between steps.

## 1. Inventory

| Component | State | Operations | What is hard | What makes it correct |
|---|---|---|---|---|
| Sessions (`service/auth_service.go`, `session_revoke.go`, `user_service.go`, `middleware/jwt.go`) | `users` row; Redis `user:disabled`, `user:pw_epoch`, `refresh:{uid}:{device}`, token blacklist | Login, Refresh, Logout, UpdatePassword, ResetPassword, UpdateStatus, Delete, revocation with retry | epochs read before and used after another request bumps them; failing Redis calls; SCAN against new keys | a refresh token is exchanged once; no session outlives the change that ends it |
| Job callbacks (`service/jobs_callback.go`, `repository/job_submission_repo.go`) | `job_submissions` rows | Execute (claim, handler, Mark), RecordSubmit | redelivery, takeover after ten minutes, late writers, crash before the outcome is booked | one live claim per window; only the claimant books; success is final |
| taskrunner proxy (`service/taskrunner_service.go`) | none of its own | Submit, Trigger, RetryTask, UpdateJob, pass-through calls | the ledger row is written after the task was accepted | the callback of a task is not refused for what the proxy wrote |
| Ticket lifecycle (`service/ticket/service.go`, `state_machine.go`, `repository/ticket_repo.go`) | tickets, events, comments, relations, type graph | Create, Update, Close, Assign, Delete, CreateComment, CreateNote, CreateRelation | decisions on rows read outside the transaction; a graph edited meanwhile; deletes against inserts | closing is final and audited once; no patch is lost; nothing survives a delete but its event |
| Ticket types, fields, templates (`service/ticket/type_admin.go`, `ticket_repo.go`) | `ticket_types`, `ticket_type_fields`, `ticket_templates` | create, versioned update, delete, ReplaceTypeFields; tickets validated against the form | deletes and inserts of a whole field set; two kinds of edits; partial patches | one form at a time; no lost edit; a closed graph; new tickets fit |
| Ticket authorization (`service/ticket/resource.go`, `scope_resolver.go`, list filters in `ticket_repo.go`) | none | Authorize, GetFilter, comments and relations shown | several reads of data that changes; a rule written twice | what is granted was allowed; the list and the details agree |
| Organization tree (`service/org_service.go`, `repository/org_repo.go`) | `organizations` (parent_id and path), `user_orgs`, the path copied into tickets | Create, Move, Delete, AddMember, RemoveMember, SetUserOrgs, SetOwners, the deletion of a user | overlapping moves whose statements each have a snapshot of their own, deletes against writers, creates without a lock | parent_id, path and ticket paths agree; a deleted organization is empty |
| Organization delegation (`service/org_delegation.go`, `org_service.go`) | `owner_user_ids`, `user_orgs.org_member_role` and `ticket_scope`, `org_roles` | SetOwners, SetMemberRole, SetMemberScope, membership writes, role bindings, delegated delete | two records of ownership; checks outside the transaction | the two records agree; nobody has power who was not given it |
| Users, superadmin guard (`service/user_service.go`, `priority.go`, `repository/user_repo.go`) | `users`, `user_roles` | Create, Update, profile, Delete, UpdateStatus, SetRoles, ResetPassword, list | two administrators at once; checks outside the transaction | a superadmin remains; no escalation; no lost patch |
| Roles, Casbin policies, menus (`service/rbac_service.go`, `menu_service.go`, `repository/role_repo.go`) | `roles`, `role_menus`, `casbin_rule`, enforcer memory | role create, update, delete, AssignMenus, reload; menu trees and permissions | row-by-row rewriting without a lock on the rows found in place; reloads fail or overlap; parent chains | the enforcer judges by committed policies, which stay within menus |
| Cron and audit archive (`service/cron_scheduler.go`, `audit_archive.go`) | advisory lock, archive files, two tables | tick, fetch, export, delete, cleanup of files | crash between export and delete; two instances | no row is deleted that is not in a file |
| Policy evaluation log (`pkg/audit/policyeval.go`) | channel, two Redis lists, a table | Write, pump, flush, drain | a full queue, failing and repeated commands, shutdown, several replicas on one pair of lists | bounded; what was accepted is stored |
| Login lock, captcha, access tokens (PAT) | Redis counters, `pats` | check, count, unlock; create, revoke | counters at their limit | attempts are bounded |
| Audit log (`middleware/audit.go`) | `audit_logs` | one insert per request | masking | - |
| Dictionaries, notifications, gateway, rate limit, webhook | single rows, Redis counters | CRUD, pass-through | nothing beyond one statement | - |
| Handlers, router, configuration, wiring | none | binding, formatting, start-up | - | - |
| Command line (`pkg/admincli/reset_password.go`) | `users` row, Redis keys of its sessions | break-glass reset of a password, with re-enabling | writes past the services | as `Session` |

Interactions: handlers call services, services call repositories; the only shared
state is in PostgreSQL and Redis. taskrunner calls back over HTTP, at least once,
and one of the callbacks starts the archive outside its advisory lock. Account
changes end sessions through `revokeUserSessionsWithRetry`. Ticket creation locks
the row of its organization and copies its path; moving an organization rewrites
the copies in tickets and templates. Authorization reads what the organization
modules write. `PROJECT.json` lists the hazards one by one, at their lines, with
the properties that cover them.

## 2. Modules

| Module | Models | State and steps |
|---|---|---|
| `JobsCallback` | callback execution, the submission ledger, taskrunner as its environment | `row` is `job_submissions`, `cb[w]` the local state of an `Execute` call, `runner`, `job`, `ledger` and `origin` what taskrunner and the proxy know. One action per database round trip; every statement may fail, before or after its commit. `ran` and `reply` are auxiliary. |
| `ExecLease` | the promise: one right to execute per task, taken when free or expired, decided only by its holder | `JobsCallback` defines the mapping (`LeaseRight`, `LeaseHolder`, `LeaseExpired`) and implements it (`ImplementsLease`). |
| `Session` | the sessions of one user | `db` is the `users` row; `disabled`, `epoch`, `slot`, `blacklist` are the Redis keys; `req[p]` is a request with its local variables. One action per Redis or database call; `RevokeFault` is a failed call with the retry. `gen`, `fenced`, `used`, `kicked` are auxiliary. |
| `TicketLifecycle` | tickets with events, comments, relations | `row`, `events`, `comments`, `rels`, `graph`; `req[p].seen` is the row as it was read; `keyShare` the lock of a foreign key. A deletion inserts its event first, which fixes the place of the event in the history, and settles it at its end: `deleted` if it commits, `undone` otherwise. |
| `TicketType` | one type with its form and a template, while tickets of it are created | `type`, `fields` (each with the request that inserted it), `template`, `place` (the path of the organization), `tickets`. `holder` is the transaction that has written the type row, `deleted[p]` the field rows deleted but not committed: a DELETE waiting for them does not see what replaces them. `form`, `partial`, `strayed`, `lost`, `unfit` are auxiliary. |
| `TicketAccess` | the judgement of one request, read by read | `path`, `opaque`, `owners`, `row`, `ticket` are the tables it reads; `Disturb` is a commit, between two reads, of a request that moves an organization or changes its visibility, writes memberships or owners (AddMember, SetMemberScope, SetMemberRole, RemoveMember, SetOwners, SetUserOrgs, the deletion of a user), assigns the ticket or deletes it; the roles and permissions of users stay, and no organization is created or deleted meanwhile. `req.could` collects, for every moment of the request, what `Rule` allows: the rule, written down independently of the two implementations. |
| `OrgTree` | organizations, memberships, ticket paths | `org`, `mem`, `own`, `ticket`, and `gone`, the users that are deleted; `excl`, `share`, `mover` are FOR UPDATE, FOR SHARE and the advisory lock. A step waits for the locks of one statement, takes the snapshot of the next one, or commits: in a Move the SELECT ... FOR UPDATE of the subtree, the UPDATE of organizations and the UPDATE of tickets each see what was committed when they began (`req[p].got`, `req[p].tickets`), and rows may be inserted in between. `raced` is auxiliary. |
| `OrgDelegation` | power inside one organization | `owners`, `role`, `scope`, `bound`; `orgLock` and `rowLock` are the locks. A request is admitted by one action that reads its rights and writes in later ones. `raced`, `appointed` (who was given a rank by a global administrator or by somebody appointed), `opened` are auxiliary. |
| `RolePriority` | `GetMinPriority` and the checks that compare ranks | pure operators, used by the two modules below |
| `UserAdmin` | accounts, the roles bound to them, the superadmin guard | `row`, `bind`, `role`; `guard` is the advisory lock `last_superadmin_guard`. One action per statement of a request, `req[p].pc` says which is next. `actors`, `patched`, `escaped` are auxiliary. |
| `RolePolicy` | roles, their parents, menus and policies, the enforcer | `role`, `menus`, `rules` are the tables, `mem` what the enforcer has loaded. In `req[p]`, an open transaction has the rows it deleted (`snapM`, `snapC`), inserted (`put`, `putC`) and found in place (`met`, `metC`), of which only the first two are locked, and a reload the policies it has read and not installed yet (`loaded`). `overlapped`, `slipped`, `behind` are auxiliary. `GetUserMenus`, `GetUserPermissions` and `Allowed` are the answers users get. |
| `AuditArchive` | the archive job on several replicas | `table`, `live`, `old`, `copies` (synced files per row), `lapsed`; `run[k]` is the run of a scheduler or a callback; `lock` the advisory lock, which the session of a dead process keeps until the database notices. |
| `EvalLog` | the policy evaluation log | `ch[r]`, `pump[r]`, `flush[r]` are the channel and the two goroutines of a replica; `queue` and `processing` the two Redis lists and `rows` the table, which the replicas share; one action per command, which may fail or be repeated by the client. `written`, `late`, `pushed`, `silent`, `doubled` are auxiliary. |
| `SessionProofs`, `OrgDelegationProofs`, `UserAdminProofs`, `TicketLifecycleProofs`, `TicketTypeProofs`, `PolicyJobsProofs` (of `RolePolicy`, `AuditArchive` and `JobsCallback`), `AccessProofs` (of `TicketAccess` and `EvalLog`), `OrgTreeProofs` | the theorems of section 5 | |
| `MC*` | seeds, graphs and symmetry for TLC | |

External code: taskrunner (delivers a pending task any number of times and gives
up on 404 and 409), the Redis expiry of keys, the PostgreSQL locks, the clock, and
crashes.

Abstractions: passwords and accounts are generations; a token pair is a number
with the claims that are compared later; an action stands for action_id and
params; the text of a ticket field is a version number; the ltree label of an
organization is the organization itself; a field of a form is a required key that
is filled in or not; an API is a member of a small set; a row of the archived
tables is its number. Who may do what with a ticket is `TicketAccess`, so the
requests of `TicketLifecycle` are admitted ones; likewise `OrgTree` leaves the
admission to `OrgDelegation`. Time in `JobsCallback` is counted in ticks much longer
than a statement, so two claims of one task never fall into the same tick unless
the row was given back in between; PostgreSQL's NOW() has microseconds and the
lease is ten minutes. `RolePolicy` has one process, whose requests change policies and reload
its enforcer concurrently; the repository registers a watcher for several replicas as
future work (P2-6). In `EvalLog` a repeated command is applied at once and at most once
more; an LTRIM that Redis applies much later is left out, and so is how many rows an
evaluation has (the comment at `policyeval.go:243` admits duplicates).

## 3. Runs

| Run | Question | Properties |
|---|---|---|
| `jobs` | do claims and fences implement the lease, in any order of deliveries, edits, crashes and errors? | `OverlapOnlyWhenStale`, `SucceededByItsClaimant`, `RunsTheRecordedAction`, `SucceededIsFinal`, `ClaimsMoveForward`, `ImplementsLease` |
| `session` | every change of an account against login, refresh and logout, with a failing Redis call | `SingleRotation`, `NoRevokedSurvivor` |
| `tickets` | all operations of tickets on stale reads while the graph changes | `ClosedIsFinal`, `ClosedByOneEvent`, `NoLostPatch`, `DeletionLeavesOneEvent`, `OneRelationPerPair` |
| `types` | edits of a type, its form and its template against each other and against new tickets | `FieldsAreOneForm`, `NoLostEdit`, `GraphIsClosed`, `TemplateFollowsOrg`, `NewTicketFitsAForm` |
| `access` | is what a request is granted or shown what the rule allows, also when the data changes between its reads? | `GrantedWasAllowed`, `UndisturbedIsExact` |
| `org` | create, move, delete, memberships, tickets, statement by statement | `PathsFollowParents`, `TicketPathsFollow`, `DeletedIsEmpty` |
| `delegation` | does power inside an organization come from a global administrator, an owner of the start, or somebody they appointed? | `OwnershipAgrees`, `PowerComesFromGlobal` |
| `users` | administrators against each other | `SuperadminRemains`, `NoEscalation`, `NoLostPatch`, `ListMatchesGet` |
| `policy` | edits of roles, menus and policies, and what users are then shown and allowed | `PoliciesWithinMenus`, `EnforcerIsFresh`, `SerialEditsKeepHierarchy`, `CallableIsOffered`, `TreeShowsEveryPage` |
| `eval` | the path of an evaluation through channel, lists and table, with two replicas on the same lists | `AcceptedIsKept`, `StopKeepsEarlierWrites`, `AcceptedIsStored` |
| `archive` | export and deletion with two replicas, crashes and failures | `DeletedWasExported`, `ExportedOnceUndisturbed`, `OldRowsAreArchived` |
| `access_root` | does any membership with scope all show every ticket, as a comment says? | `AllScopeSeesAll`: violated, section 4 |

Every module also defines its type invariant, `TypeOK`. It is proved for `jobs`,
`session`, `archive`, `users` and `tickets` (section 5), as part of the inductive invariant for
`delegation`, and can be added to any configuration; the runs are spent on the
properties that could fail for other reasons than a type.

### Bounds

- `jobs`: one task (tasks share no row), two workers, lease 1, clock 5: enough for
  two takeovers, with the overtaken execution still alive, and for the boundary
  `claimed_at = NOW() - lease`.
- `session`: two requests at once on two devices; races are between a request
  that reads and one that changes the account, and a failed call starts the second
  attempt. Two pairs allow a revocation that finds several keys and an exchange of
  an exchanged token; one change of the account and two epochs allow the retry to
  bump the epoch again. ResetPassword is an action of the module and covered by the
  theorems, but not offered in this run: it takes the path of UpdateStatus and
  Delete through the commit and the revocation.
- `tickets`: two tickets, three requests at once and five in all, so that a third
  request decides on a row that two others changed; two graphs, so that a
  transition stops being legal after it was checked.
- `types`: two requests at once and three in all, two keys, one move. A third
  request is what reads a form that two others are replacing. Two sets of states
  and of transitions, so that a patch of one can contradict the other.
- `access`: an entity, one below it and a virtual group below that, which is every
  relation between two organizations that the resolver tells apart; two users of
  whom one is an administrator; two changes, so that a grant can be taken and
  another given during a request, and moves can undo each other.
- `org`: a root, two nested organizations and two to be created, so that one can be
  inserted below the other between the statements of a Move; two of the five are
  virtual; one user, one ticket, and any three requests at once.
- `delegation`: one global administrator, one possible first owner and a third
  user, two requests at once and three in all: a request is admitted, a second one
  changes the rights, a third one uses them.
- `users`: four users (one not yet there), three roles, two requests at once,
  three in all, which is what it takes to lose two superadmins by turns.
- `policy`: five roles, one of them created later with the code of an earlier one;
  two requests at once and three in all; a hidden directory with a page and a button.
- `eval`: two replicas, two evaluations, a channel of one, batches of two, one fault or
  repeated command, one crash or stop: the channel fills up, a flush is interrupted at
  every step, a second process finds what the first has left or reads what it is about
  to trim.
- `archive`: two replicas and one callback, two rows in either table, batches of
  one, one fault and one stop.

In each case the bounded quantity is named in the module (`MaxOps`, `MaxFault`,
`MaxStop`, ...). Requests and workers are interchangeable, and symmetry is used on
them (and on keys and users where nothing tells them apart), never in a run with
a liveness property.

Deadlock checking is off everywhere: the bounds on requests, pairs, rows and time
end every behaviour. Database deadlocks are modelled as what PostgreSQL makes of
them, an abort of the victim.

### Fairness

`AuditArchive` and `EvalLog` assume that processes that run go on and that a
process that is gone is started again: weak fairness of a tick of each
scheduler, of every step of a run, of the pump and the flusher, of the shutdown
and the exit, of the restart, and of the database noticing a dead session. The
code justifies it: tickers repeat for ever, loops have no other way out than
their context, every call has a timeout, and the service manager restarts the
process. Strong fairness is assumed once, for the branch in which the flusher
finds its context cancelled: a Go select chooses at random among the ready
branches, so one that is ready again and again is taken. Nothing is assumed of
requests, callbacks, signals, crashes and faults, which are bounded because a
system in which everything always fails archives nothing.

The other modules have no liveness property. The code gives little to build one
on: taskrunner stops delivering after 409, a client need not come back, and an
abandoned claim waits for a delivery that may never come (`docs/ops/runbook.md`
registers it as a known limit).

### Mutants

Every property has a mutant: a small change to one mapped definition (a dropped
condition, a missing lock, a wrong row, a swapped order) with which TLC violates
it under the same configuration. The mutated forms stand just before the
definition they replace.

## 4. Where code and text disagree

One run shows a disagreement. `access_root`: the comment at
`service/ticket/scope_resolver.go:22` says that any membership with
`ticket_scope = all` shows every ticket. The query of `resolve` joins each membership
with the entity above its organization (line 65, an inner join), and Move may put a
virtual group at the root (`repository/org_repo.go:486`), where it has none: the row
disappears with its scope.

The following are stated in the modules too, each with the comment it comes from;
naming them in the configuration of their module shows the behaviour.

- `IdempotentMeansTaken` (`JobsCallback`): the claim and the following read are two
  statements. If the execution in flight fails in between, the callback is answered
  2xx although the row says failed, and taskrunner ends the task.
- `TriggerIsNotRefused` (`JobsCallback`): Trigger records `trigger:<job_id>` as the
  action. If that row is written before the callback comes, the snapshot check
  refuses it with 409.
- `DisabledUserIsOut` (`Session`): Login deletes `user:disabled` after reading the
  user as enabled; a disable in between is undone for access tokens already issued.
- `ReplacesVerifiedPassword` (`Session`): UpdatePassword writes without a condition
  on the password it verified, and overwrites an administrator's reset.
- `OpenMeansUnassigned` (`TicketLifecycle`): Assign applies the status condition
  only if it changes the status; an unassign and a reassign leave an open ticket
  with an assignee.

Other things a reader of the properties should know, because a property names
them as its exception or stops short of them:

- `user_repo.go:270` writes a patch as the whole row it was read with, and
  UpdateStatus does not bump the version: a patch in flight across a disable writes
  the old status back. `NoLostPatch` of `UserAdmin` is about the columns patches name.
- The superadmin guard is taken if the target was read as a superadmin; a request
  whose target becomes one later runs outside of it (`escaped` in `SuperadminRemains`).
- `ListRoleIDsByUserID` (`role_repo.go:241`) keeps ancestors whatever their state,
  and `GetUserRoleIDs` returns the expansion where its comment says bound ids.
- Overlapping updates of two roles can close a cycle of parents;
  `SerialEditsKeepHierarchy` is about edits that do not overlap.
- AssignMenus for a role that is deleted meanwhile leaves policy rows which a later
  role with the same code inherits; `PoliciesWithinMenus` is stated per code.
- `type_admin.go:62` validates a patch that names only states, or only transitions,
  against the defaults for the other, although the comment at line 159 says that all
  ends lie in the states (`partial` in `GraphIsClosed`).
- Create (`org_service.go:367`) builds the path of a child from an unlocked read of its
  parent: a Move or a deletion in between leaves a path that does not follow the parent,
  or a child of a deleted node. A child inserted below such a row while a Move has
  already taken the snapshot of its UPDATE stays behind, and so does its ticket (`raced`
  in `PathsFollowParents` and `TicketPathsFollow`). Moves trust paths when they look for
  cycles.
- Create refuses a path longer than `maxOrgPathDepth`, Move (`org_repo.go:519`) looks at
  no depth, so that moves build a deeper tree. No property bounds the depth.
- The emptiness check of a deletion counts the members that are not deleted
  (`org_repo.go:743`). AddMember, SetUserOrgs and SetOwners look the user up before their
  transaction, so a row of a user deleted meanwhile can stay in a deleted organization;
  `DeletedIsEmpty` is about the other users.
- ON CONFLICT DO NOTHING (`role_repo.go:84`) locks no row that it finds. One assignment of
  a role leaves a menu, a second finds it in place, a third deletes it, and the second
  goes on to write the rules of a menu that the role has not any more (`slipped` in
  `PoliciesWithinMenus` and `CallableIsOffered`).
- `reloadPolicy` (`rbac_service.go:331`) has no mutex, and the enforcer reads the policies
  before it excludes anybody: of two reloads the one that read first can install last, and
  the enforcer stays behind until the next reload (`behind` in `EnforcerIsFresh`).
- Of two overlapping deletions of a ticket PostgreSQL may abort one as the victim of a
  deadlock, which gets a 500 where the comment at `ticket_repo.go:347` says 404. A comment
  committed after a deletion has inserted its event has a later id than the event
  `deleted`, so that event need not be the last of the ticket.
- `isGlobalOrgAdmin` (`ticket/service.go:55`) takes a failing statement for a no, and the
  request gets a 403 that no rule stands behind (the answer `refused`, which
  `UndisturbedIsExact` leaves out like a 500).
- Rights are checked before the transaction that uses them (`org_service.go:533`): whoever
  lost a rank in between still gives the one that was asked for. In `PowerComesFromGlobal`
  who was `appointed` remains so; the property tells where power came from, not that its
  giver still had it.
- The ages of archive files are not modelled: `Clean` may remove any of them, and
  `DeletedWasExported` leaves out the rows of the files it removed (`lapsed`), so it would
  not see a wrong cutoff.
- A template inserted with a path read before a Move keeps it for good (`strayed`
  in `TemplateFollowsOrg`).
- A type deleted and created anew starts its versions again, so an old version
  matches (left out in `NoLostEdit`); DeleteTicketType and ReplaceTypeFields lock in
  opposite orders, and PostgreSQL aborts one.
- A SetUserOrgs that takes a user out finishes with a row of rank owner and no entry
  in the list, if he is made owner between its statements (`raced` in
  `OwnershipAgrees`, `org_repo.go:631` and `:658`).
- A move between two reads of an authorization can deny what was allowed all the
  time; `GrantedWasAllowed` is about grants, for one change in between.
- A callback starts the archive without the lock of the schedulers, so that rows may
  be in two files; `ExportedOnceUndisturbed` excludes it, `DeletedWasExported` does not.
- Evaluations written after the stop signal are lost silently (`policyeval.go:111`), and
  so is the rest if the drain exceeds its three seconds.
- `docs/phase3/03-audit-l2.md:185` says of the Redis lists that nothing is lost in a crash
  and that several instances can use them as they are. One instance loses nothing in a
  crash. Two that flush at the same time read the same head of the processing list, insert
  it twice, and each trims its number, so that entries nobody has read are dropped. The
  same happens on one replica when the answer to an LTRIM is lost and the client sends it
  again (`config.go:224`, `configs/config.yaml:35`, `app/providers.go:81`). Both are
  `doubled` in `AcceptedIsKept` and `AcceptedIsStored`.

## 5. Theorems

TLAPS proves the following for every value of the constants (any number of
tasks, callbacks, requests, users, devices, tokens, replicas, rows, failures; any
lease; any bound).

`PolicyJobsProofs`, callbacks: `TypeCorrect`, `OverlapIsStale`, `SuccessIsOwn`,
`RecordedActionRuns`, the action properties `SuccessIsFinal` and `ClaimsAdvance`,
and the refinement `LeaseImplemented`. Assumption: `JobsAssumption` (a lease is a
natural number, the trigger mark is no action, nobody is no worker).
`OverlapOnlyWhenStale` is not inductive: it says nothing of executions whose row
was meanwhile failed or claimed by somebody else. The inductive invariant `IInv`
adds `Behind` (an execution works under the row's claim, or under one that was
already stale when the row was claimed again, and never under a claim booked as
failed), `Dated` (no claim lies in the future), `Completed` (a handler that
returned nil left its token) and `Serving`. Four lemmas cover the kinds of steps:
`QuietStep` (no row changes), `ClaimStep`, `BookStep` (the fence made the leaving
worker the only one under the claim), `HandleStep`; `RecordStep` covers the ledger
row. `RowSteps` says what one step can do to a row; the action properties follow
from it. For the refinement, `HolderIs` shows that the CHOOSE in the mapping is
determined, and `LeaseQuiet`, `LeaseClaim` and `LeaseBook` map the kinds of steps
to Abandon, Acquire and Decide.

`SessionProofs`: `TypeCorrect`, `RotationIsSingle`, `RevocationHolds`. Assumption:
`SessionAssumption`. Neither invariant is inductive. `IInv` adds: `Bounded` (no
epoch is ahead of the counter, no fence ahead of the generation), `Allotted`
(tokens in use have been issued and sit in the slot of their own device),
`Informed` (what a request knows at each step; above all, a request about to issue
a pair with the current epoch, once the current generation is fenced, was opened
on that generation or was overtaken), `Fenced` (`NoRevokedSurvivor` of every token,
in a slot or not), and for the types `Carries` and that the password version never
passes the generation. One lemma per kind of step (`LocalStep`, `LastStep`, `MoveStep`,
`ArriveStep`, `ChangeStep`, `BumpStep`, `IssueStep`, `ExchangeStep`), then one case
per action.

`PolicyJobsProofs`, archive: `ArchiveTypeCorrect`, `NothingIsLost`, `ExportsOnce`. Assumption:
`ArchiveAssumption`. `DeletedWasExported` needs `Kept`: a run that is about to delete
a batch has every row of it in a file that is still there, or lapsed, although
other runs delete and clean meanwhile. `ExportedOnceUndisturbed` needs `Orderly`:
without a stop, a fault and a callback, the one run that is not idle holds the
lock, and only the rows of its batch are both in a file and in their table.

`OrgDelegationProofs`: `OwnersAgree` and `PowerIsGiven`. Assumption:
`DelegationAssumption`. The inductive invariant joins the types, `OwnershipAgrees`,
the two halves of `PowerComesFromGlobal`, `Entitled` (who asks for a rank was a global
administrator or appointed when the request was checked, and who asks for the scope all
a global administrator) and `Watched` (who holds which lock at each step, and what the
request has seen under it). `PowerIsGiven` says of every owner and admin that somebody
with the right to do so gave the rank at some time, and does not cover that the giver may
have lost the right before the commit. `QuietStep`, `BeginStep`, `GotoStep`,
`RollbackStep` and `WriteStep` cover the kinds of steps.

`UserAdminProofs`: `TypeCorrect`, `GuardKeepsSuperadmin`, `RanksStayWithin`,
`PatchesAreKept`, `ListingAgrees`. Assumption: `UserAssumption` (finitely many
users, one of them a superadmin at the start, priorities are natural numbers).
`SuperadminRemains` needs `Guards`: a request that holds the advisory lock and has
counted still finds two active superadmins, or a write that the guard does not cover
has removed one meanwhile (`escaped`). `NoEscalation` and `NoLostPatch` need
`Informed`: the roles a request is about to bind are within the reach of its actor,
and the row it has read is either outdated, so that the version check refuses it, or
carries the current data; and `Vacant`: an account that does not exist has no data.
`PriorityAttained` shows that the minimum in `GetMinPriority` is the priority of some
role. `QuietStep`, `RefuseStep`, `CommitStep`, `MoveStep` and `StartStep` cover the
kinds of steps.

`TicketLifecycleProofs`: `TypeCorrect`, `ClosedOnce`, `ClosedStaysClosed`,
`DeletedOnce`, `PatchesAreKept`, `RelatedOnce`. Assumption: `TicketAssumption`.
The inductive invariant adds `Admissible` (the row an update, a close or an
assignment acts on was not closed when it was read, and no ticket is related to
itself), `Held` (a deletion that has the key lock has a ticket that is still there),
`Unborn` (a ticket that was never created has no data), and says of every ticket,
live or not, that its data is what the last patches left (`Kept`). `Pledges` ties the
lock of a deletion to its event: a deletion between its two statements has the key lock
and exactly one event row that is not settled (`Entries`), and nobody else has one, so
that the one that commits leaves exactly one. `TicketStep` reduces a step to the ticket it
is about; `LogEffect`, `SettleEffect` and `Telling` say what an appended or settled event
changes in the sets of events that the invariants count.

`AccessProofs`, evaluation log: `RedisKeeps` and `StopDrains`, on any number of replicas.
Assumption: `EvalLogAssumption`. `RedisKeeps` needs, until something is `doubled`,
`Batched`: the entries a flush has read are the first of the processing list, and when it
comes to the trim they are rows; and `Apart`: no two flushes hold entries at once, so that
whoever trims drops what it has inserted. `StopDrains` needs `Drained`: a pump that has
exited left in the channel only what was written after the signal. `ItemsJoin`,
`ItemsTwice`, `ItemsTaken`, `ItemsTrim` and `FirstOfIsAhead` are the facts on sequences,
`LMoveEffect` and `TrimEffect` what a command that may be repeated does to the lists.

`OrgTreeProofs`: `LocksExclude`, `DeletedStaysEmpty`, `TreeIsConsistent`,
`TicketsFollow`. Assumption: `OrgAssumption` (the tree at the start is consistent;
any shape, any number of organizations). The lock protocol comes first: `IInv` joins
the types, `Exclusive` (FOR UPDATE excludes FOR SHARE), `DeletedIsEmpty` and `Holds`
(a transaction past a lock still holds it, what it holds shared is live, and what a
deletion found `Vacant` under its lock is still vacant). `PathInv` builds on it:
`Follows` is `PathsFollowParents` for one row, `Labelled` says that a path ends in the
code of its row, `Placed` is `TicketPathsFollow` with the existence of the
organization, and `Aims` says that what a transaction read under its locks is still
so: the old path, the new place below a parent outside the subtree (`Attached`), no
child of what is about to be deleted, the path a new ticket will carry. Of the two
snapshots of a Move it says `Cut`: the rows about to be rewritten are rows of the subtree,
closed under parents but for those that raced; and `Carried`: the tickets about to be
rewritten are those of these rows, because their creators had the rows FOR SHARE. The step that
matters is the cascade of Move (`CascadeRows`, `CascadeFollows`): `RebaseChild` shows
that replacing the prefix commutes with appending a code, `UnderChild` that a child is
in the subtree exactly when its parent is, `RebaseSelf` and `RebaseEnds` what becomes
of the root and of the last code; each is proved label by label. `Untouched` and
`Apart` say what a step leaves to the other transactions, `Settled` what it leaves to a Move: raced
rows may come, and the rows and tickets of its snapshots stay as they were.

`TicketTypeProofs`: `TypeCorrect`, `FormIsWhole`, `EditsAreSeen`, `GraphStaysClosed`,
`TemplateFollows`, `TicketsFit`. Assumption: `TypeAssumption` (any graphs and keys
that clients may send, any number of requests). `FieldsAreOneForm` needs `Locked`: a
replacement holds the type row from its first statement on, so that its DELETE takes
every field there is, and no two transactions have deleted the same row. `NoLostEdit`
needs `Dated`: a version that was overwritten since it was read lies behind the current
one, unless the row was born again. `GraphIsClosed` needs `Checked` (a request that
brings a whole graph has had it validated), `NewTicketFitsAForm` needs `Informed` (a
request knows the form of the moment, and a ticket about to be inserted gives the keys
of one that its request knows). `Numbered` bounds the version by the requests that are
over, without which the type of the version would not be inductive. The kinds of steps
are arrivals (`Arrivals`), steps that stay inside the request and writes.

`PolicyJobsProofs`, policies: `PolicyTypeCorrect`, `PolicyInvHolds`, `RulesHaveMenus`,
`EnforcerFollows`, `HierarchyHolds`, `OfferedHolds`, `TreeIsComplete`. Assumption:
`PolicyAssumption`: the bypass roles keep their codes, codes are unique among the roles
of the seed, parents of the seed form no cycle, exist and rank no lower than their
children, and the menus are a forest (`menus.parent_id` has a seed and no writing
route). The inductive invariant `PolicyInv` has seven parts beside the types.
`Separate`: no two open transactions write the same menu row. `Relied`: a menu that a
transaction has found in place, without a lock, is still there and nobody deletes it,
unless the code has `slipped`. `Covered`: every rule of a code that has not slipped has a
menu of a role with its code behind it, and a transaction that has deleted that menu has
the rule among those it is about to delete; this is what survives the interleaving of an
assignment with the recreation of a role, and `PoliciesWithinMenus` and
`CallableIsOffered` follow from it. `Read`: what a reload has read are the rules, unless a
commit has come since. `Known`: live roles have
different codes, and a parent has been created. `Serial`: while no two edits overlapped,
what a request has read about children, parent and the way up is still so, and a
deleted role has no menus. `StillClimbing` is the invariant of the loop in the cycle
check: the roles visited are exactly those whose parents were followed, so a walk that
ends has seen every ancestor. `SerialEditsKeepHierarchy` is the seventh.
The ancestors of a role, in the code a recursive query with UNION, are the least set
closed under the links (`Reach`), so that the lemmas `ReachHas`, `ReachIsIn`, `ReachIsClosed`,
`ReachIsLeast` and `ReachGrows` replace the induction.

`AccessProofs`, authorization: `AccessTypeCorrect`, `AccessInvHolds`, `PathsStayAForest`,
`GrantsWereAllowed`, `AnswersAreExact`. Assumption: `AccessAssumption`: the paths of the
seed are those of a forest (`IsForest`: a path ends with its organization, and its
beginnings are the paths of its ancestors), which `OrgTree` shows of the tree; any
organizations, users, tickets and holders of the organization permission (`Manager`, which
the run leaves empty). Neither invariant is inductive. `AccessInv` adds
`Present`: while nothing has changed, `req.could` is what the rules allow and what the
request has read is the present (`Known`: the copy, the scope, and each question that
was answered with no); and `Prospect`: after at most one change, everything the
request can still be granted, by what it has read and by what it has yet to read, is in
`req.could` (`Promised`). The last part is what a change has to keep
(`ChangeStep`). A change of a ticket, a membership, an owner or a visibility leaves the
paths alone, so that one side of each match is old or new as a whole. The step that
matters is a move (`MovePutsNothingTogether`): a path of one moment is matched with
anchors of the other. `Moved` describes a move by what it leaves alone, so that it can
be read backwards (`MovedBack`); `MixedAnchors` shows that an anchor of one tree above a
path of the other gives a right that one of the two trees gives by itself, and
`MoveForest` that the rewrite of the paths keeps them a forest. The bound
`during <= 1` in `GrantedWasAllowed` is part of the statement: with two changes a right
can be put together. On the other side, `RuleIs` and `MatchesAre` say what the rules
and the list filter are in terms of the reads, one lemma per step of the request shows
that it answers by them (`OperateStep`, `DelegationStep`, `QueryHolds`); a request with a
statement that failed is answered `failed` or, by `isGlobalOrgAdmin`, `refused`, and
`AnswersAreExact` says nothing of either.

Only model-checked, and out of the prover's reach: liveness under fairness
(`AcceptedIsStored`, `OldRowsAreArchived`), ENABLED, and what recursive functions
compute for every input. Every invariant of a passing run has a theorem.

## 6. Not modelled

- Login lock, captcha and access tokens: a small component planned next; it
  shares no state with `Session`.
- The audit log beyond the fact that a request leaves a row: masking, wording and
  listings are formatting.
- Dictionaries, notifications, gateway, rate limiting and the webhook client keep no
  state beyond one row or one atomic script.
- Handlers, router, configuration and wiring change no state of their own. What a
  handler admits is what the modules take as input.
- The break-glass command (`pkg/admincli/reset_password.go:115-142`) writes the password,
  sets `status = 1` and revokes the sessions of a user through
  `RevokeUserSessionsWithRetry`: the calls of ResetPassword and Enable in `Session`, one
  after the other, without an action of its own.
- Of the organization tree: Update (one UPDATE with a version check), is_primary and
  the listings. `OrgService.Delete` is not routed, and the routed delete is the one
  modelled.
- Of the taskrunner proxy: calls that pass through and change nothing here.
- Menus and their APIs have no writing route and are data of `RolePolicy`.

## 7. Plan

1. `LoginLock`: attempt counters, captcha, access tokens.
2. `OrgTree` and `TicketAccess` composed, so that the changes between the reads of an
   authorization are the steps of the tree and not only their commits.
