----------------------------- MODULE ExecLease -----------------------------
(***************************************************************************)
(* What the callback fence of job_submissions promises, independently of   *)
(* rows, timestamps and HTTP: every task carries one right to execute.     *)
(* The right is free, held or spent.  It is taken when free, or taken over *)
(* once the lease has expired; only its current holder can spend it        *)
(* (success) or give it back (failure).  A holder that dies or is turned   *)
(* away leaves the right held by nobody until the lease expires.           *)
(***************************************************************************)
CONSTANTS Task,      \* task ids
          Worker,    \* callback requests being served
          NoOne      \* the absent holder

VARIABLES right,     \* right[t] : "free", "held" or "spent"
          holder,    \* holder[t] : the worker that may decide t, or NoOne
          expired    \* expired[t] : the lease on t ran out

leaseVars == <<right, holder, expired>>

LeaseTypeOK ==
  /\ right \in [Task -> {"free", "held", "spent"}]
  /\ holder \in [Task -> Worker \cup {NoOne}]
  /\ expired \in [Task -> BOOLEAN]

LeaseInit ==
  /\ right = [t \in Task |-> "free"]
  /\ holder = [t \in Task |-> NoOne]
  /\ expired = [t \in Task |-> FALSE]

\* h takes the right: it was free, or its lease had run out.
Acquire(t, h) ==
  /\ right[t] = "free" \/ (right[t] = "held" /\ expired[t])
  /\ right' = [right EXCEPT ![t] = "held"]
  /\ holder' = [holder EXCEPT ![t] = h]
  /\ expired' = [expired EXCEPT ![t] = FALSE]

\* The holder goes away without deciding the task.
Abandon(t) ==
  /\ right[t] = "held"
  /\ holder' = [holder EXCEPT ![t] = NoOne]
  /\ UNCHANGED <<right, expired>>

\* The holder, and nobody else, decides: "spent" for good or "free" again.
Decide(t, r) ==
  /\ right[t] = "held" /\ holder[t] \in Worker
  /\ right' = [right EXCEPT ![t] = r]
  /\ holder' = [holder EXCEPT ![t] = NoOne]
  /\ expired' = [expired EXCEPT ![t] = FALSE]

\* Time passes: some held leases run out.
Expire(S) ==
  /\ \A t \in S : right[t] = "held"
  /\ expired' = [t \in Task |-> expired[t] \/ t \in S]
  /\ UNCHANGED <<right, holder>>

LeaseNext ==
  \/ \E t \in Task, h \in Worker \cup {NoOne} : Acquire(t, h)
  \/ \E t \in Task : Abandon(t)
  \/ \E t \in Task, r \in {"free", "spent"} : Decide(t, r)
  \/ \E S \in SUBSET Task : Expire(S)

LeaseSpec == LeaseInit /\ [][LeaseNext]_leaseVars
=============================================================================
