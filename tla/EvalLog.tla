------------------------------- MODULE EvalLog -------------------------------
(***************************************************************************)
(* The log of policy evaluations.  Write puts an entry into a bounded      *)
(* channel; pump pushes it to a Redis list; the flusher moves it to a      *)
(* processing list, inserts it into policy_evaluation_logs and trims the   *)
(* list.  Redis and the database survive a process, the channel does not.  *)
(*                                                                         *)
(* Both goroutines stop on the signal that also starts the shutdown of the *)
(* HTTP server, which goes on answering the requests it has.  A step is    *)
(* one command to Redis or to the database.  The client repeats a command  *)
(* to Redis whose answer is lost, so that it may be applied once more.     *)
(***************************************************************************)
EXTENDS Naturals, Sequences

CONSTANTS Replica,      \* server processes, which share Redis and the database
          MaxEval,      \* bound on evaluations, numbered as they are written
          BufferSize,   \* of the channel
          BatchSize,    \* entries a flush inserts at once
          MaxFault,     \* bound on failing or repeated commands and timeouts
          MaxStop       \* bound on crashes and graceful stops

ASSUME EvalLogAssumption ==
  /\ MaxEval \in Nat /\ BufferSize \in Nat \ {0} /\ BatchSize \in Nat \ {0}
  /\ MaxFault \in Nat /\ MaxStop \in Nat

Eval == 1..MaxEval

VARIABLES
  up,        \* up[r] : running, stopping (the signal came), closed (no requests left) or down
  ch,        \* ch[r] : the channel
  pump,      \* pump[r] : loop, drain or exited
  flush,     \* flush[r] : the flusher: its step, entries moved, entries read, is it the last flush
  queue,     \* the Redis list
  processing,\* the Redis processing list
  rows,      \* the evaluations that have a row in policy_evaluation_logs, one or more
  faults, stops,
  written,   \* number of evaluations written so far (auxiliary)
  late,      \* those written after the signal (auxiliary)
  pushed,    \* those that reached Redis (auxiliary)
  silent,    \* those that went with a process without a warning (auxiliary)
  doubled    \* LTRIM was repeated, or two flushes had read the same entries (auxiliary)

redis == <<queue, processing>>
bounds == <<faults, stops>>
fate == <<written, late, pushed, silent>>
vars == <<up, ch, pump, flush, redis, rows, bounds, fate, doubled>>

IdleFlush == [pc |-> "idle", n |-> 0, items |-> <<>>, last |-> FALSE]
Items(s) == {s[i] : i \in 1..Len(s)}

Init ==
  /\ up = [r \in Replica |-> "running"]
  /\ ch = [r \in Replica |-> <<>>]
  /\ pump = [r \in Replica |-> "loop"]
  /\ flush = [r \in Replica |-> IdleFlush]
  /\ queue = <<>> /\ processing = <<>>
  /\ rows = {}
  /\ faults = 0 /\ stops = 0
  /\ written = 0 /\ late = {} /\ pushed = {} /\ silent = {} /\ doubled = FALSE

(* A command fails or is repeated, or a time limit passes. *)
Fails == faults < MaxFault /\ faults' = faults + 1 /\ UNCHANGED stops

-----------------------------------------------------------------------------
(* Write never blocks: an entry that finds the channel full is dropped.    *)
Write(r) ==
  /\ up[r] \in {"running", "stopping"} /\ written < MaxEval
  /\ written' = written + 1
  /\ late' = IF up[r] = "stopping" THEN late \cup {written'} ELSE late
  /\ ch' = IF Len(ch[r]) < BufferSize THEN [ch EXCEPT ![r] = Append(@, written')] ELSE ch
  /\ UNCHANGED <<up, pump, flush, redis, rows, bounds, pushed, silent, doubled>>

(* RPUSH of one entry; when it fails the entry is dropped, and when it is  *)
(* repeated the entry is there twice.                                      *)
Push(r) ==
  /\ ch[r] # <<>>
  /\ ch' = [ch EXCEPT ![r] = Tail(@)]
  /\ \/ /\ \/ queue' = Append(queue, Head(ch[r])) /\ UNCHANGED bounds
           \/ queue' = queue \o <<Head(ch[r]), Head(ch[r])>> /\ Fails
        /\ pushed' = pushed \cup {Head(ch[r])}
     \/ Fails /\ UNCHANGED <<queue, pushed>>
  /\ UNCHANGED <<up, pump, flush, processing, rows, written, late, silent, doubled>>
Pump(r) == up[r] # "down" /\ pump[r] = "loop" /\ Push(r)

(* The select of pump takes the cancellation or an entry, whichever is     *)
(* ready.                                                                  *)
OnCancelExit == "exited"
OnCancel == "drain"
PumpCancelled(r) ==
  /\ up[r] \in {"stopping", "closed"} /\ pump[r] = "loop"
  /\ pump' = [pump EXCEPT ![r] = OnCancel]
  /\ UNCHANGED <<up, ch, flush, redis, rows, bounds, fate, doubled>>
(* drain pushes until the channel is empty, or for three seconds.          *)
Drain(r) == up[r] # "down" /\ pump[r] = "drain" /\ Push(r)
DrainEnds(r) ==
  /\ up[r] # "down" /\ pump[r] = "drain"
  /\ IF ch[r] = <<>> THEN UNCHANGED bounds ELSE Fails
  /\ pump' = [pump EXCEPT ![r] = "exited"]
  /\ UNCHANGED <<up, ch, flush, redis, rows, fate, doubled>>

-----------------------------------------------------------------------------
(* flusher.  After the signal every command fails with the cancelled       *)
(* context, except in the last flush, which has a context of its own.      *)
Works(r) == up[r] = "running" \/ flush[r].last
Upset(r) == IF Works(r) THEN Fails ELSE UNCHANGED bounds
FlushTo(r, f) ==
  /\ flush' = [flush EXCEPT ![r] = f]
  /\ UNCHANGED <<up, ch, pump, fate>>
FlushEnd(r) ==
  FlushTo(r, IF flush[r].last THEN [IdleFlush EXCEPT !.pc = "exited"] ELSE IdleFlush)
(* A tick that finds both lists empty changes nothing and is left out.     *)
FlushTick(r) ==
  /\ up[r] # "down" /\ flush[r].pc = "idle"
  /\ queue # <<>> \/ processing # <<>>
  /\ FlushTo(r, [IdleFlush EXCEPT !.pc = "move"])
  /\ UNCHANGED <<redis, rows, bounds, doubled>>
FlushCancelled(r) ==
  /\ up[r] \in {"stopping", "closed"} /\ flush[r].pc = "idle"
  /\ FlushTo(r, [IdleFlush EXCEPT !.pc = "move", !.last = TRUE])
  /\ UNCHANGED <<redis, rows, bounds, doubled>>

(* flushOnce: LMOVE up to a batch; an empty list or an error ends it.  A   *)
(* repeated LMOVE moves another entry.                                     *)
LMove(r) ==
  /\ flush[r].pc = "move" /\ flush[r].n < BatchSize /\ Works(r)
  /\ \E k \in 1..2 :
       /\ k <= Len(queue)
       /\ queue' = SubSeq(queue, k + 1, Len(queue))
       /\ processing' = processing \o SubSeq(queue, 1, k)
       /\ IF k = 1 THEN UNCHANGED bounds ELSE Fails
  /\ FlushTo(r, [flush[r] EXCEPT !.n = @ + 1])
  /\ UNCHANGED <<rows, doubled>>
LMoveEnds(r) ==
  /\ flush[r].pc = "move"
  /\ \/ (queue = <<>> \/ flush[r].n = BatchSize) /\ UNCHANGED bounds
     \/ Upset(r)
  /\ FlushTo(r, [flush[r] EXCEPT !.pc = "read"])
  /\ UNCHANGED <<redis, rows, doubled>>
(* LRANGE: the first batch of the processing list, what an earlier flush   *)
(* left there included, and what another replica is about to insert and to *)
(* trim: nothing keeps two flushes apart.                                  *)
FirstOf(s, n) == IF Len(s) < n THEN s ELSE SubSeq(s, 1, n)
LRangeMoved(f) == FirstOf(processing, f.n)
LRange(f) == FirstOf(processing, BatchSize)
FlushRead(r) ==
  /\ flush[r].pc = "read" /\ Works(r)
  /\ IF LRange(flush[r]) = <<>> THEN FlushEnd(r) /\ UNCHANGED doubled
     ELSE /\ FlushTo(r, [flush[r] EXCEPT !.pc = "insert", !.n = 0, !.items = LRange(flush[r])])
          /\ doubled' = (doubled \/ \E q \in Replica : flush[q].pc \in {"insert", "trim"})
  /\ UNCHANGED <<redis, rows, bounds>>
(* The batch is one INSERT; it may commit and its answer be lost.          *)
FlushInsert(r) ==
  /\ flush[r].pc = "insert" /\ Works(r)
  /\ rows' = rows \cup Items(flush[r].items)
  /\ \/ FlushTo(r, [flush[r] EXCEPT !.pc = "trim"]) /\ UNCHANGED bounds
     \/ FlushEnd(r) /\ Fails
  /\ UNCHANGED <<redis, doubled>>
(* LTRIM drops as many entries as were read, and as many again when it is  *)
(* repeated; a full batch is followed by another.                          *)
LTrimAll(n) == <<>>
LTrim(n) == SubSeq(processing, n + 1, Len(processing))
FlushTrim(r) ==
  /\ flush[r].pc = "trim"
  /\ \/ Works(r) /\ processing' = LTrim(Len(flush[r].items)) /\ UNCHANGED <<bounds, doubled>>
     \/ /\ Works(r) /\ processing' = LTrim(2 * Len(flush[r].items)) /\ Fails
        /\ doubled' = TRUE
     \/ Upset(r) /\ UNCHANGED <<processing, doubled>>
  /\ IF Len(flush[r].items) < BatchSize THEN FlushEnd(r)
     ELSE FlushTo(r, [flush[r] EXCEPT !.pc = "move", !.items = <<>>])
  /\ UNCHANGED <<queue, rows>>
(* LRANGE or INSERT fails: the next tick tries again.                      *)
FlushFails(r) ==
  /\ flush[r].pc \in {"read", "insert"}
  /\ Upset(r) /\ FlushEnd(r)
  /\ UNCHANGED <<redis, rows, doubled>>

-----------------------------------------------------------------------------
(* Run: the signal cancels pump and flusher, and Shutdown waits for the    *)
(* requests that the server still has.                                     *)
Signal(r) ==
  /\ up[r] = "running" /\ stops < MaxStop
  /\ stops' = stops + 1
  /\ up' = [up EXCEPT ![r] = "stopping"]
  /\ UNCHANGED <<ch, pump, flush, redis, rows, faults, fate, doubled>>
ServerShutdown(r) ==
  /\ up[r] = "stopping"
  /\ up' = [up EXCEPT ![r] = "closed"]
  /\ UNCHANGED <<ch, pump, flush, redis, rows, bounds, fate, doubled>>
(* The process is gone, and its channel with it. *)
Gone(r) ==
  /\ up' = [up EXCEPT ![r] = "down"]
  /\ ch' = [ch EXCEPT ![r] = <<>>]
  /\ pump' = [pump EXCEPT ![r] = "loop"]
  /\ flush' = [flush EXCEPT ![r] = IdleFlush]
  /\ UNCHANGED <<redis, rows, written, late, pushed, doubled>>
(* Stop has waited for both goroutines, or one of the two waits of         *)
(* Shutdown has run out of time, which is logged.                          *)
Exit(r) ==
  /\ up[r] \in {"stopping", "closed"}
  /\ IF up[r] = "closed" /\ pump[r] = "exited" /\ flush[r].pc = "exited"
     THEN silent' = silent \cup Items(ch[r]) /\ UNCHANGED bounds
     ELSE Fails /\ UNCHANGED silent
  /\ Gone(r)
Crash(r) ==
  /\ up[r] # "down" /\ stops < MaxStop
  /\ stops' = stops + 1
  /\ Gone(r) /\ UNCHANGED <<faults, silent>>
Restart(r) ==
  /\ up[r] = "down"
  /\ up' = [up EXCEPT ![r] = "running"]
  /\ UNCHANGED <<ch, pump, flush, redis, rows, bounds, fate, doubled>>

PumpStep(r) == Pump(r) \/ PumpCancelled(r) \/ Drain(r) \/ DrainEnds(r)
FlushStep(r) ==
  \/ FlushTick(r) \/ FlushCancelled(r) \/ LMove(r) \/ LMoveEnds(r) \/ FlushRead(r) \/ FlushInsert(r)
  \/ FlushTrim(r) \/ FlushFails(r)
Next ==
  \E r \in Replica :
    \/ Write(r)
    \/ PumpStep(r) \/ FlushStep(r)
    \/ Signal(r) \/ ServerShutdown(r) \/ Exit(r) \/ Crash(r) \/ Restart(r)

(* The goroutines of a process go on and the ticker ticks; a select that   *)
(* finds the context cancelled again and again takes that branch at last;  *)
(* Shutdown comes to its end and a process that is gone is started again.  *)
(* Nothing is assumed of requests, signals and crashes.                    *)
Fairness ==
  \A r \in Replica :
    /\ WF_vars(PumpStep(r)) /\ WF_vars(FlushStep(r)) /\ SF_vars(FlushCancelled(r))
    /\ WF_vars(ServerShutdown(r)) /\ WF_vars(Exit(r)) /\ WF_vars(Restart(r))
Spec == Init /\ [][Next]_vars
FairSpec == Spec /\ Fairness

-----------------------------------------------------------------------------
(* The channel keeps within its size, and what is in flight anywhere in    *)
(* the pipeline is something that Write was called with.                   *)
TypeOK ==
  /\ up \in [Replica -> {"running", "stopping", "closed", "down"}]
  /\ pump \in [Replica -> {"loop", "drain", "exited"}]
  /\ \A r \in Replica :
       /\ Items(ch[r]) \subseteq 1..written /\ Len(ch[r]) <= BufferSize
       /\ flush[r].pc \in {"idle", "move", "read", "insert", "trim", "exited"}
       /\ flush[r].n \in 0..BatchSize /\ Items(flush[r].items) \subseteq pushed
  /\ Items(queue) \cup Items(processing) \subseteq pushed
  /\ faults \in 0..MaxFault /\ stops \in 0..MaxStop
  /\ written \in 0..MaxEval /\ late \cup pushed \cup silent \subseteq 1..written
  /\ rows \subseteq pushed

(* What has reached Redis is not lost, whatever fails, crashes or is done  *)
(* again between LMOVE, LRANGE, INSERT and LTRIM, on any number of         *)
(* replicas: it waits in one of the two lists or it is a row.  The         *)
(* exceptions are an LTRIM that the client has repeated, and two flushes   *)
(* that had read the same entries, each of which trims its number.         *)
AcceptedIsKept ==
  doubled \/ \A e \in pushed : e \in Items(queue) \cup Items(processing) \/ e \in rows

(* A graceful stop in which nothing fails loses no evaluation that was     *)
(* written before the signal: pump drains the channel before it exits.     *)
StopKeepsEarlierWrites == faults = 0 => silent \subseteq late

(* What has reached Redis becomes a row, with the same exceptions: the     *)
(* flusher comes back to entries that an interrupted flush left in the     *)
(* processing list.                                                        *)
AcceptedIsStored == \A e \in Eval : e \in pushed ~> e \in rows \/ doubled
=============================================================================
