---------------------------- MODULE JobsCallback ----------------------------
(***************************************************************************)
(* The callback side of the job subsystem: taskrunner (an external         *)
(* at-least-once scheduler) calls POST /internal/jobs/callback, zhuzhao    *)
(* claims the task's row in job_submissions, runs the action's handler and *)
(* books the outcome behind a fencing token (claimed_at).  Submit and      *)
(* Trigger write the row from the other side, after taskrunner accepted    *)
(* the task, so a callback may overtake them.                              *)
(*                                                                         *)
(* An "action" stands for the pair action_id and params: the snapshot      *)
(* check compares both, and nothing else looks inside params.  Time is a   *)
(* clock in ticks: a statement starts and ends within one tick, so NOW()   *)
(* is the clock.  claimed_at = 0 is SQL NULL.                              *)
(***************************************************************************)
EXTENDS Integers, FiniteSets

CONSTANTS Task,        \* task ids
          Worker,      \* callback requests that can be in progress at once
          Action,      \* actions (with params) that jobs are defined with
          Registered,  \* those with a handler in the registry
          NoOne,       \* no worker, no task, no action
          TriggerMark, \* the "trigger:<job_id>" pseudo action of Trigger
          Lease,       \* the ten minutes after which a claim is stale
          MaxClock,    \* bound on time
          MayRedefine  \* may a job definition be edited between deliveries?

ASSUME JobsAssumption ==
  /\ Registered \subseteq Action
  /\ TriggerMark \notin Action
  /\ NoOne \notin Worker
  /\ Lease \in Nat
  /\ MaxClock \in Nat \ {0}
  /\ MayRedefine \in BOOLEAN

Status == {"none", "submitted", "running", "succeeded", "failed"}
Outcome == {"executed", "idempotent", "unknownAction", "mismatch", "aborted", "retryable"}
Pc == {"idle", "received", "missed", "handling", "ok", "abort", "err"}

VARIABLES
  row,     \* row[t] : the job_submissions row of t (status "none": no row)
  clock,   \* database time
  cb,      \* cb[w] : the Execute call that worker w serves
  runner,  \* runner[t] : taskrunner's view: "none", "pending", "done", "dead"
  job,     \* job[t] : the action taskrunner sends for t
  ledger,  \* ledger[t] : RecordSubmit still to come ("submit", "trigger"), or "none", "booked"
  origin,  \* origin[t] : how taskrunner came to know t
  reply,   \* reply[t] : the last outcome answered for t; for "idempotent", with the
           \* row status that the response reports
  ran      \* ran[t] : claim tokens under which the handler of t returned nil

vars == <<row, clock, cb, runner, job, ledger, origin, reply, ran>>

IdleCb == [pc |-> "idle", task |-> NoOne, action |-> NoOne, token |-> 0]
NoRow == [status |-> "none", action |-> NoOne, claimed |-> 0]

RowState == [status : Status, action : Action \cup {TriggerMark, NoOne}, claimed : 0..MaxClock]
CbState == [pc : Pc, task : Task \cup {NoOne}, action : Action \cup {NoOne}, token : 0..MaxClock]
Reply == [outcome : Outcome \cup {"none"}, status : Status]

TypeOK ==
  /\ row \in [Task -> RowState]
  /\ clock \in 1..MaxClock
  /\ cb \in [Worker -> CbState]
  /\ runner \in [Task -> {"none", "pending", "done", "dead"}]
  /\ job \in [Task -> Action]
  /\ ledger \in [Task -> {"none", "submit", "trigger", "booked"}]
  /\ origin \in [Task -> {"none", "submit", "trigger", "cron"}]
  /\ reply \in [Task -> Reply]
  /\ ran \in [Task -> SUBSET (0..MaxClock)]

Init ==
  /\ row = [t \in Task |-> NoRow]
  /\ clock = 1
  /\ cb = [w \in Worker |-> IdleCb]
  /\ runner = [t \in Task |-> "none"]
  /\ job \in [Task -> Action]
  /\ ledger = [t \in Task |-> "none"]
  /\ origin = [t \in Task |-> "none"]
  /\ reply = [t \in Task |-> [outcome |-> "none", status |-> "none"]]
  /\ ran = [t \in Task |-> {}]

-----------------------------------------------------------------------------
(* Submission: taskrunner accepts first, the ledger row follows. *)

\* client.Submit / client.TriggerJob answered "accepted", or taskrunner's own
\* cron started t.
Accept(t, how) ==
  /\ runner[t] = "none"
  /\ runner' = [runner EXCEPT ![t] = "pending"]
  /\ origin' = [origin EXCEPT ![t] = how]
  /\ ledger' = [ledger EXCEPT ![t] = IF how = "cron" THEN "none" ELSE how]
  /\ UNCHANGED <<row, clock, cb, job, reply, ran>>

\* A caller submits again under a task_id that is already known.
Resubmit(t) ==
  /\ runner[t] # "none" /\ ledger[t] = "booked" /\ origin[t] = "submit"
  /\ ledger' = [ledger EXCEPT ![t] = "submit"]
  /\ UNCHANGED <<row, clock, cb, runner, job, origin, reply, ran>>

\* RecordSubmit's INSERT ... ON CONFLICT DO NOTHING, or its failure (logged
\* and forgotten: the task stays accepted).
RecordSubmit(t) ==
  /\ ledger[t] \in {"submit", "trigger"}
  /\ ledger' = [ledger EXCEPT ![t] = "booked"]
  /\ \/ /\ row[t].status = "none"
        /\ row' = [row EXCEPT ![t] =
             [status |-> "submitted", claimed |-> 0,
              action |-> IF ledger[t] = "trigger" THEN TriggerMark ELSE job[t]]]
     \/ UNCHANGED row
  /\ UNCHANGED <<clock, cb, runner, job, origin, reply, ran>>

-----------------------------------------------------------------------------
(* taskrunner: deliveries, verdicts, retries. *)

\* taskrunner (re)delivers the callback of a pending task; the previous
\* delivery may have timed out and still be running.
Deliver(w, t) ==
  /\ runner[t] = "pending" /\ cb[w].pc = "idle"
  /\ cb' = [cb EXCEPT ![w] =
       [pc |-> "received", task |-> t, action |-> job[t], token |-> 0]]
  /\ UNCHANGED <<row, clock, runner, job, ledger, origin, reply, ran>>

\* RetryTask: an operator revives a failed task.
RetryTask(t) ==
  /\ runner[t] = "dead"
  /\ runner' = [runner EXCEPT ![t] = "pending"]
  /\ UNCHANGED <<row, clock, cb, job, ledger, origin, reply, ran>>

\* UpdateJob: the definition behind t now names another action or params.
UpdateJob(t, a) ==
  /\ MayRedefine /\ origin[t] \in {"cron", "trigger"}
  /\ job' = [job EXCEPT ![t] = a]
  /\ UNCHANGED <<row, clock, cb, runner, ledger, origin, reply, ran>>

\* 2xx ends the task, 404 and 409 kill it, 500 leaves it to be retried.
Verdict(o) ==
  CASE o \in {"executed", "idempotent"} -> "done"
    [] o \in {"unknownAction", "mismatch", "aborted"} -> "dead"
    [] OTHER -> "pending"

\* Execute returns o: w is free again; taskrunner hears it, or has stopped
\* listening (timeout, lost response).
Answer(w, o, status) ==
  LET t == cb[w].task IN
  /\ cb' = [cb EXCEPT ![w] = IdleCb]
  /\ reply' = [reply EXCEPT ![t] = [outcome |-> o,
        status |-> IF o = "idempotent" THEN status ELSE "none"]]
  /\ \/ /\ runner[t] = "pending"
        /\ runner' = [runner EXCEPT ![t] = Verdict(o)]
     \/ UNCHANGED runner

-----------------------------------------------------------------------------
(* JobsCallbackService.Execute, one action per database round trip. *)

UnknownAction(w) ==
  /\ cb[w].pc = "received" /\ cb[w].action \notin Registered
  /\ Answer(w, "unknownAction", "none")
  /\ UNCHANGED <<row, clock, job, ledger, origin, ran>>

\* Mutants of Claimable: any running row can be taken; a succeeded row can be
\* taken; the lease ends one tick early.
ClaimableInFlight(r) == r.status # "succeeded"
ClaimableAgain(r) == r.status # "running" \/ r.claimed < clock - Lease
ClaimableAtLease(r) ==
  \/ r.status \in {"none", "submitted", "failed"}
  \/ r.status = "running" /\ r.claimed <= clock - Lease

\* The WHERE of the upsert: free to claim, or running past the lease.
Claimable(r) ==
  \/ r.status \in {"none", "submitted", "failed"}
  \/ r.status = "running" /\ r.claimed # 0 /\ r.claimed < clock - Lease

\* Mutants of ClaimedRow: the claim time is rounded up; the last action wins.
ClaimedRowAhead(r, a) ==
  [status |-> "running", claimed |-> clock + 1,
   action |-> IF r.status = "none" THEN a ELSE r.action]
ClaimedRowLast(r, a) == [status |-> "running", claimed |-> clock, action |-> a]

\* The row after a successful upsert: the first recorded action stays.
ClaimedRow(r, a) ==
  [status |-> "running", claimed |-> clock,
   action |-> IF r.status = "none" THEN a ELSE r.action]

\* ClaimCallbackRow returned the row with claimed = true.  The snapshot check
\* comes next, on the returned row: on a mismatch Execute answers 409 and
\* leaves the row running.
ClaimCallbackRow(w) ==
  LET t == cb[w].task
      new == ClaimedRow(row[t], cb[w].action)
  IN
  /\ cb[w].pc = "received" /\ cb[w].action \in Registered
  /\ Claimable(row[t])
  /\ row' = [row EXCEPT ![t] = new]
  /\ \/ /\ new.action = cb[w].action
        /\ cb' = [cb EXCEPT ![w].pc = "handling", ![w].token = clock]
        /\ UNCHANGED <<runner, reply>>
     \/ /\ new.action # cb[w].action
        /\ Answer(w, "mismatch", "running")
  /\ UNCHANGED <<clock, job, ledger, origin, ran>>

\* The upsert hit a row it may not take: ErrNoRows, GetByTaskID comes next.
ClaimMiss(w) ==
  /\ cb[w].pc = "received" /\ cb[w].action \in Registered
  /\ ~Claimable(row[cb[w].task])
  /\ cb' = [cb EXCEPT ![w].pc = "missed"]
  /\ UNCHANGED <<row, clock, runner, job, ledger, origin, reply, ran>>

\* GetByTaskID, a statement of its own: whatever the row is by now decides
\* between 409 (snapshot) and 2xx (idempotent).
GetByTaskID(w) ==
  LET r == row[cb[w].task] IN
  /\ cb[w].pc = "missed"
  /\ Answer(w, IF r.action = cb[w].action THEN "idempotent" ELSE "mismatch", r.status)
  /\ UNCHANGED <<row, clock, job, ledger, origin, ran>>

\* A database error before the handler ran: 500.  The claim may have been
\* committed all the same (the connection broke after the commit).
ClaimError(w) ==
  LET t == cb[w].task IN
  /\ cb[w].pc = "missed" \/ (cb[w].pc = "received" /\ cb[w].action \in Registered)
  /\ \/ UNCHANGED row
     \/ /\ cb[w].pc = "received" /\ Claimable(row[t])
        /\ row' = [row EXCEPT ![t] = ClaimedRow(row[t], cb[w].action)]
  /\ Answer(w, "retryable", row[t].status)
  /\ UNCHANGED <<clock, job, ledger, origin, ran>>

\* handler.Handle returns: nil, ErrAbort or another error.
Handle(w) ==
  /\ cb[w].pc = "handling"
  /\ \E r \in {"ok", "abort", "err"} :
       /\ cb' = [cb EXCEPT ![w].pc = r]
       /\ ran' = IF r = "ok"
                 THEN [ran EXCEPT ![cb[w].task] = @ \cup {cb[w].token}]
                 ELSE ran
  /\ UNCHANGED <<row, clock, runner, job, ledger, origin, reply>>

\* Mutant of Fence: the status alone.
FenceByStatus(w) == row[cb[w].task].status = "running"

\* The fence of both Mark statements: still running, under my claim.
Fence(w) ==
  LET r == row[cb[w].task] IN r.status = "running" /\ r.claimed = cb[w].token

\* MarkSucceeded: booked, refused by the fence or failed, the answer is 2xx.
MarkSucceeded(w) ==
  LET t == cb[w].task IN
  /\ cb[w].pc = "ok"
  /\ \/ Fence(w) /\ row' = [row EXCEPT ![t].status = "succeeded"]
     \/ UNCHANGED row
  /\ Answer(w, "executed", row[t].status)
  /\ UNCHANGED <<clock, job, ledger, origin, ran>>

\* MarkFailed: booked -> 409 for ErrAbort and 500 otherwise; refused by the
\* fence -> 2xx; statement error (before or after its commit) -> 500.
MarkFailed(w) ==
  LET t == cb[w].task IN
  /\ cb[w].pc \in {"abort", "err"}
  /\ \/ /\ Fence(w)
        /\ row' = [row EXCEPT ![t].status = "failed"]
        /\ Answer(w, IF cb[w].pc = "abort" THEN "aborted" ELSE "retryable", "failed")
     \/ /\ Fence(w)
        /\ row' = [row EXCEPT ![t].status = "failed"]
        /\ Answer(w, "retryable", "failed")
     \/ /\ ~Fence(w)
        /\ Answer(w, "idempotent", "running")
        /\ UNCHANGED row
     \/ /\ Answer(w, "retryable", row[t].status)
        /\ UNCHANGED row
  /\ UNCHANGED <<clock, job, ledger, origin, ran>>

\* The process serving w dies, or the handler panics: no Mark, no answer.
Crash(w) ==
  /\ cb[w].pc # "idle"
  /\ cb' = [cb EXCEPT ![w] = IdleCb]
  /\ UNCHANGED <<row, clock, runner, job, ledger, origin, reply, ran>>

Tick ==
  /\ clock < MaxClock
  /\ clock' = clock + 1
  /\ UNCHANGED <<row, cb, runner, job, ledger, origin, reply, ran>>

-----------------------------------------------------------------------------
Execute(w) ==
  \/ UnknownAction(w) \/ ClaimCallbackRow(w) \/ ClaimMiss(w) \/ GetByTaskID(w)
  \/ ClaimError(w) \/ Handle(w) \/ MarkSucceeded(w) \/ MarkFailed(w)

Next ==
  \/ \E t \in Task :
       \/ \E how \in {"submit", "trigger", "cron"} : Accept(t, how)
       \/ Resubmit(t) \/ RecordSubmit(t) \/ RetryTask(t)
       \/ \E a \in Action : UpdateJob(t, a)
       \/ \E w \in Worker : Deliver(w, t)
  \/ \E w \in Worker : Execute(w) \/ Crash(w)
  \/ Tick

Spec == Init /\ [][Next]_vars

-----------------------------------------------------------------------------
Executing(w) == cb[w].pc \in {"handling", "ok", "abort", "err"}

(* Two executions of one task overlap only if the later one claimed the row *)
(* more than the lease after the earlier one: ClaimCallbackRow's single     *)
(* statement never hands out two live claims of the same window.            *)
OverlapOnlyWhenStale ==
  \A v, w \in Worker :
    (v # w /\ Executing(v) /\ Executing(w) /\ cb[v].task = cb[w].task)
      => \/ cb[v].token < cb[w].token - Lease
         \/ cb[w].token < cb[v].token - Lease

(* A row says succeeded only if the very execution whose claim it carries   *)
(* ran its handler to the end: an overtaken writer never books for the one  *)
(* that replaced it (the claimed_at fence of MarkSucceeded).                *)
SucceededByItsClaimant ==
  \A t \in Task : row[t].status = "succeeded" => row[t].claimed \in ran[t]

(* A handler only runs for the action that the row recorded first, and the  *)
(* row cannot change it while it runs: the snapshot check of Execute.       *)
RunsTheRecordedAction ==
  \A w \in Worker : Executing(w) => row[cb[w].task].action = cb[w].action

(* A failed or abandoned execution can be retried, a succeeded task cannot: *)
(* the row of a succeeded task never changes again, whatever is delivered,  *)
(* resubmitted or marked late.                                              *)
SucceededIsFinal ==
  [][\A t \in Task : row[t].status = "succeeded" => row'[t] = row[t]]_row

(* The claim time of a row only moves forward, and a running row changes    *)
(* hands only after the lease: no stale writer takes a row back.            *)
ClaimsMoveForward ==
  [][\A t \in Task :
       /\ row'[t].claimed >= row[t].claimed
       /\ (row[t].status = "running" /\ row'[t].claimed # row[t].claimed)
            => row[t].claimed < clock - Lease]_row

\* Execute's comment on a callback that did not get the claim: somebody else
\* has completed the task, or is executing it now; either way nothing is left
\* to do and the callback is answered 2xx.
IdempotentMeansTaken ==
  \A t \in Task :
    reply[t].outcome = "idempotent" => reply[t].status \in {"succeeded", "running"}

\* The comment on Trigger: "run a job definition once by hand": its callback is
\* not refused as long as nobody edits the definition.
TriggerIsNotRefused ==
  \A t \in Task : origin[t] = "trigger" => reply[t].outcome # "mismatch"

-----------------------------------------------------------------------------
(* The execution lease behind the rows: the holder of t is the worker that  *)
(* executes under the claim the row carries.                                *)
Holds(w, t) ==
  /\ Executing(w) /\ cb[w].task = t
  /\ row[t].status = "running" /\ row[t].claimed = cb[w].token

LeaseHolder(t) ==
  IF \E w \in Worker : Holds(w, t)
  THEN CHOOSE w \in Worker : Holds(w, t)
  ELSE NoOne

LeaseRight(t) ==
  CASE row[t].status = "running" -> "held"
    [] row[t].status = "succeeded" -> "spent"
    [] OTHER -> "free"

LeaseExpired(t) == row[t].status = "running" /\ row[t].claimed < clock - Lease

Abs == INSTANCE ExecLease WITH
         NoOne <- NoOne,
         right <- [t \in Task |-> LeaseRight(t)],
         holder <- [t \in Task |-> LeaseHolder(t)],
         expired <- [t \in Task |-> LeaseExpired(t)]

(* The rows, tokens and retries of job_submissions implement the lease.     *)
ImplementsLease == Abs!LeaseSpec
=============================================================================
