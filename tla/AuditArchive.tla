---------------------------- MODULE AuditArchive ----------------------------
(***************************************************************************)
(* audit_logs and policy_evaluation_logs, and their archive: rows past the *)
(* retention are exported to a file and then deleted, one batch of each    *)
(* table per run.  A run is started by the scheduler of a replica, which   *)
(* holds an advisory lock of the database meanwhile, or by a job callback, *)
(* which does not.  A retention named by the callback only makes rows old  *)
(* earlier, which they may become at any time.                             *)
(*                                                                         *)
(* Database and archive volume survive a process.  A step is one statement *)
(* or one operation on files.                                              *)
(***************************************************************************)
EXTENDS Naturals, Sequences, FiniteSets

CONSTANTS Replica,      \* server processes, which share the database and the volume
          NoRunner,     \* nobody holds the advisory lock
          BatchRows,    \* rows a run exports of one table
          MaxRow,       \* bound on rows
          MaxFault,     \* bound on failing commands and timeouts
          MaxStop,      \* bound on crashes and graceful stops
          MaxCallback   \* bound on runs that a callback starts

archiveTablesOrdered == <<"audit_logs", "policy_evaluation_logs">>
Runner == Replica \X {"cron", "callback"}
DeadSession == <<NoRunner, "dead">>

ASSUME ArchiveAssumption ==
  /\ NoRunner \notin Runner \cup Replica
  /\ BatchRows \in Nat \ {0} /\ MaxRow \in Nat
  /\ MaxFault \in Nat /\ MaxStop \in Nat /\ MaxCallback \in Nat

VARIABLES
  up,        \* up[r] : running, stopping (the signal came) or down
  table,     \* table[i] : the table that row i was inserted into
  live,      \* the rows that are there
  old,       \* the rows 1..old are past the retention
  copies,    \* copies[i] : the synced files that hold row i
  lapsed,    \* the rows whose files were removed when past the retention of files
  run,       \* run[k] : the run of k: its step, table and batch
  lock,      \* who holds the advisory lock: a runner, nobody or a session of a dead process
  faults, stops, calls

bounds == <<faults, stops, calls>>
archiveVars == <<up, table, live, old, copies, lapsed, run, lock, bounds>>

IdleRun == [pc |-> "idle", t |-> 1, batch |-> {}]
ArchiveInit ==
  /\ up = [r \in Replica |-> "running"]
  /\ table = <<>> /\ live = {} /\ old = 0 /\ copies = <<>> /\ lapsed = {}
  /\ run = [k \in Runner |-> IdleRun] /\ lock = NoRunner
  /\ faults = 0 /\ stops = 0 /\ calls = 0

Fails == faults < MaxFault /\ faults' = faults + 1 /\ UNCHANGED <<stops, calls>>

-----------------------------------------------------------------------------
(* A request or a login leaves a row, a flush of evaluations leaves        *)
(* others.  The context of the write is detached from the request.         *)
NewRow(r, t) ==
  /\ up[r] # "down" /\ Len(table) < MaxRow
  /\ table' = Append(table, t)
  /\ live' = live \cup {Len(table) + 1}
  /\ copies' = Append(copies, 0)
  /\ UNCHANGED <<up, old, lapsed, run, lock, bounds>>
AuditLog(r) == NewRow(r, "audit_logs")
InsertPolicyEvals(r) == NewRow(r, "policy_evaluation_logs")
(* Time passes. *)
RowAges ==
  /\ old < Len(table)
  /\ old' = old + 1
  /\ UNCHANGED <<up, table, live, copies, lapsed, run, lock, bounds>>

-----------------------------------------------------------------------------
(* tickOnce: a tick that finds the lock taken is skipped.  One that finds  *)
(* no row past the retention would only look for old files: it is left     *)
(* out, the run of another tick does that.                                 *)
TryLockIgnored(k) == lock' = k
TryLock(k) == lock = NoRunner /\ lock' = k
TickOnce(k) ==
  /\ k[2] = "cron" /\ up[k[1]] = "running" /\ run[k].pc = "idle"
  /\ live \cap 1..old # {}
  /\ TryLock(k)
  /\ run' = [run EXCEPT ![k].pc = "fetch"]
  /\ UNCHANGED <<up, table, live, old, copies, lapsed, bounds>>
Callback(k) ==
  /\ k[2] = "callback" /\ up[k[1]] # "down" /\ run[k].pc = "idle"
  /\ calls < MaxCallback /\ calls' = calls + 1
  /\ run' = [run EXCEPT ![k].pc = "fetch"]
  /\ UNCHANGED <<up, table, live, old, copies, lapsed, lock, faults, stops>>

(* Handle: the next table, or the old files after the last.                *)
NextTable(a) ==
  IF a.t < Len(archiveTablesOrdered)
  THEN [a EXCEPT !.pc = "fetch", !.t = a.t + 1, !.batch = {}]
  ELSE [a EXCEPT !.pc = "clean", !.batch = {}]
(* ArchiveFetchBatch: rows older than the cutoff, lowest ids first.        *)
Due(a) == {i \in live : table[i] = archiveTablesOrdered[a.t] /\ i <= old}
Batch(a) == {i \in Due(a) : Cardinality({j \in Due(a) : j < i}) < BatchRows}
DeleteFirst == "delete"
ExportFirst == "export"
Fetch(k) ==
  /\ run[k].pc = "fetch"
  /\ run' = [run EXCEPT ![k] = IF Batch(@) = {} THEN NextTable(@)
                               ELSE [@ EXCEPT !.pc = ExportFirst, !.batch = Batch(run[k])]]
  /\ UNCHANGED <<up, table, live, old, copies, lapsed, lock, bounds>>
(* archiveTable writes the batch to a file of its own and syncs it.        *)
NewFile(b) ==
  copies' = [i \in 1..Len(table) |-> IF i \in b THEN copies[i] + 1 ELSE copies[i]]
Export(k) ==
  /\ run[k].pc = "export"
  /\ NewFile(run[k].batch)
  /\ run' = [run EXCEPT ![k].pc = "delete"]
  /\ UNCHANGED <<up, table, live, old, lapsed, lock, bounds>>
Delete(k) ==
  /\ run[k].pc = "delete"
  /\ live' = live \ run[k].batch
  /\ run' = [run EXCEPT ![k] = NextTable(@)]
  /\ UNCHANGED <<up, table, old, copies, lapsed, lock, bounds>>
(* A statement fails, the context is cancelled or two minutes are over.    *)
(* The other table is still tried.  A file that was not synced may hold    *)
(* some of the batch.                                                      *)
TableFails(k) ==
  /\ run[k].pc \in {"fetch", "export", "delete"}
  /\ IF up[k[1]] = "running" THEN Fails ELSE UNCHANGED bounds
  /\ IF run[k].pc = "export"
     THEN \E part \in SUBSET run[k].batch : NewFile(part)
     ELSE UNCHANGED copies
  /\ run' = [run EXCEPT ![k] = NextTable(@)]
  /\ UNCHANGED <<up, table, live, old, lapsed, lock>>
(* cleanExpiredArchiveFiles removes the files that have become too old, by *)
(* now any of them; then Handle returns and the deferred unlock runs.      *)
UnlockNothing(k) == lock
Unlock(k) == IF lock = k THEN NoRunner ELSE lock
Clean(k) ==
  /\ run[k].pc = "clean"
  /\ \E aged \in SUBSET {i \in 1..Len(table) : copies[i] > 0} :
       /\ copies' = [i \in 1..Len(table) |-> IF i \in aged THEN 0 ELSE copies[i]]
       /\ lapsed' = lapsed \cup aged
  /\ run' = [run EXCEPT ![k] = IdleRun]
  /\ lock' = Unlock(k)
  /\ UNCHANGED <<up, table, live, old, bounds>>

-----------------------------------------------------------------------------
(* The signal stops the scheduler; its run goes on with a cancelled        *)
(* context.  A callback is a request, for which Shutdown waits.            *)
Signal(r) ==
  /\ up[r] = "running" /\ stops < MaxStop /\ stops' = stops + 1
  /\ up' = [up EXCEPT ![r] = "stopping"]
  /\ UNCHANGED <<table, live, old, copies, lapsed, run, lock, faults, calls>>
(* The process ends: after Shutdown, which does not wait for the           *)
(* scheduler, or in a crash.                                               *)
Gone(r) ==
  /\ up' = [up EXCEPT ![r] = "down"]
  /\ run' = [k \in Runner |-> IF k[1] = r THEN IdleRun ELSE run[k]]
  /\ lock' = IF lock = <<r, "cron">> THEN DeadSession ELSE lock
  /\ UNCHANGED <<table, live, old, copies, lapsed, faults, calls>>
Exit(r) ==
  /\ up[r] = "stopping" /\ run[<<r, "callback">>].pc = "idle"
  /\ Gone(r) /\ UNCHANGED stops
CrashReplica(r) ==
  /\ up[r] # "down" /\ stops < MaxStop /\ stops' = stops + 1
  /\ Gone(r)
Restart(r) ==
  /\ up[r] = "down"
  /\ up' = [up EXCEPT ![r] = "running"]
  /\ UNCHANGED <<table, live, old, copies, lapsed, run, lock, bounds>>
(* The database ends the session of a process that is gone.                *)
SessionEnds ==
  /\ lock = DeadSession
  /\ lock' = NoRunner
  /\ UNCHANGED <<up, table, live, old, copies, lapsed, run, bounds>>

RunStep(k) == Fetch(k) \/ Export(k) \/ Delete(k) \/ TableFails(k) \/ Clean(k)
ArchiveNext ==
  \/ \E r \in Replica : AuditLog(r) \/ InsertPolicyEvals(r)
  \/ RowAges
  \/ \E k \in Runner : TickOnce(k) \/ Callback(k) \/ RunStep(k)
  \/ \E r \in Replica : Signal(r) \/ Exit(r) \/ CrashReplica(r) \/ Restart(r)
  \/ SessionEnds

(* A running scheduler ticks and a run goes on, a process that was told to *)
(* stop exits, one that is gone is started again, and the database notices *)
(* that a session is gone.  Nothing is assumed of requests, callbacks,     *)
(* signals, crashes and of the age of rows and files.                      *)
Fairness ==
  /\ \A k \in Runner : WF_archiveVars(TickOnce(k)) /\ WF_archiveVars(RunStep(k))
  /\ \A r \in Replica : WF_archiveVars(Exit(r)) /\ WF_archiveVars(Restart(r))
  /\ WF_archiveVars(SessionEnds)
ArchiveSpec == ArchiveInit /\ [][ArchiveNext]_archiveVars
FairSpec == ArchiveSpec /\ Fairness

-----------------------------------------------------------------------------
ArchiveTypeOK ==
  /\ up \in [Replica -> {"running", "stopping", "down"}]
  /\ table \in Seq({"audit_logs", "policy_evaluation_logs"}) /\ Len(table) <= MaxRow
  /\ old \in 0..Len(table) /\ live \cup lapsed \subseteq 1..Len(table)
  /\ copies \in Seq(Nat) /\ Len(copies) = Len(table)
  /\ run \in [Runner -> [pc : {"idle", "fetch", "export", "delete", "clean"}, t : {1, 2},
                         batch : SUBSET (1..Len(table))]]
  /\ lock \in Runner \cup {NoRunner, DeadSession}
  /\ faults \in 0..MaxFault /\ stops \in 0..MaxStop /\ calls \in 0..MaxCallback

(* No audit record is lost: a row that is no longer in its table was       *)
(* synced to a file before, whatever crashed, failed or overlapped, and    *)
(* that file is gone only when it was past the retention of files.         *)
DeletedWasExported == \A i \in 1..Len(table) : i \in live \/ copies[i] > 0 \/ i \in lapsed

(* The advisory lock keeps the schedulers of the replicas apart: while     *)
(* nothing fails, stops or is called back, no record is exported twice.    *)
ExportedOnceUndisturbed ==
  faults = 0 /\ stops = 0 /\ calls = 0 =>
    \A i \in 1..Len(table) : copies[i] <= 1

(* A row past the retention leaves its table in the end: a failed run, a   *)
(* dead replica or one that died with the lock does not stop the archive.  *)
OldRowsAreArchived == \A i \in 1..MaxRow : (i \in live /\ i <= old) ~> i \notin live
=============================================================================
