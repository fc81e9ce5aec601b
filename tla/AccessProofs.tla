---------------------------- MODULE AccessProofs ----------------------------
(***************************************************************************)
(* Proofs about what is judged and what is kept of it. First EvalLog, the  *)
(* log of the evaluations, for any sizes of channel and batch and any      *)
(* number of evaluations, failures, stops and crashes; then TicketAccess,  *)
(* for any tree of organizations, users, tickets and number of changes.    *)
(* The two share no variable; the proofs about the second start with       *)
(* "Access".                                                               *)
(***************************************************************************)
EXTENDS EvalLog, TicketAccess, SequenceTheorems, WellFoundedInduction, TLAPS

-----------------------------------------------------------------------------
(* The evaluation log: its inductive invariants.                           *)

FlushState == [pc : {"idle", "move", "read", "insert", "trim", "exited"}, n : Nat,
               items : Seq(Eval), last : BOOLEAN]

Typed ==
  /\ up \in [Replica -> {"running", "stopping", "closed", "down"}]
  /\ ch \in [Replica -> Seq(Eval)]
  /\ pump \in [Replica -> {"loop", "drain", "exited"}]
  /\ flush \in [Replica -> FlushState]
  /\ queue \in Seq(Eval) /\ processing \in Seq(Eval)
  /\ faults \in 0..MaxFault
  /\ written \in 0..MaxEval
  /\ pushed \subseteq Eval

\* A pump that has exited left nothing in the channel that was written
\* before the signal.
Drained(r) ==
  /\ pump[r] # "loop" => up[r] \in {"stopping", "closed"}
  /\ pump[r] = "exited" /\ faults = 0 => Items(ch[r]) \subseteq late

\* The entries a flush has read are the first of the processing list, and at
\* the trim they are rows; no two flushes hold entries at once.
Ahead(s, z) == Len(s) <= Len(z) /\ \A i \in 1..Len(s) : z[i] = s[i]
Holds(r) == flush[r].pc \in {"insert", "trim"}
Batched(r) ==
  /\ Holds(r) => Ahead(flush[r].items, processing)
  /\ flush[r].pc = "trim" => Items(flush[r].items) \subseteq rows
Apart == \A q, r \in Replica : Holds(q) /\ Holds(r) => q = r

DrainInv == Typed /\ StopKeepsEarlierWrites /\ \A r \in Replica : Drained(r)
Kept == pushed \subseteq Items(queue) \cup Items(processing) \cup rows
KeepInv == Typed /\ (~doubled => Kept /\ Apart /\ \A r \in Replica : Batched(r))

-----------------------------------------------------------------------------
\* Sequences.

LEMMA ItemsAppend ==
  ASSUME NEW s \in Seq(Eval), NEW e \in Eval
  PROVE  Append(s, e) \in Seq(Eval) /\ Items(Append(s, e)) = Items(s) \cup {e}
<1>1. /\ Append(s, e) \in Seq(Eval) /\ Len(s) \in Nat /\ Len(Append(s, e)) = Len(s) + 1
      /\ Append(s, e)[Len(s) + 1] = e /\ \A i \in 1..Len(s) : Append(s, e)[i] = s[i]
  OBVIOUS
<1>2. 1..(Len(s) + 1) = (1..Len(s)) \cup {Len(s) + 1}
  BY <1>1
<1>3. QED
  BY <1>1, <1>2 DEF Items

LEMMA ItemsTail ==
  ASSUME NEW s \in Seq(Eval), s # <<>>
  PROVE  /\ Tail(s) \in Seq(Eval) /\ Head(s) \in Eval
         /\ Items(s) = {Head(s)} \cup Items(Tail(s))
<1>1. /\ Tail(s) \in Seq(Eval) /\ Len(s) \in Nat \ {0} /\ Len(Tail(s)) = Len(s) - 1
      /\ Head(s) = s[1] /\ \A i \in 1..(Len(s) - 1) : Tail(s)[i] = s[i + 1]
      /\ \A i \in 1..Len(s) : s[i] \in Eval
  OBVIOUS
<1>2. ASSUME NEW i \in 1..Len(s) PROVE s[i] \in {Head(s)} \cup Items(Tail(s))
  <2>1. CASE i = 1
    BY <1>1, <2>1
  <2>2. CASE i # 1
    <3>1. i - 1 \in 1..(Len(s) - 1) /\ Tail(s)[i - 1] = s[(i - 1) + 1]
      BY <1>1, <2>2
    <3>2. (i - 1) + 1 = i /\ i - 1 \in 1..Len(Tail(s))
      BY <1>1, <3>1
    <3>3. Tail(s)[i - 1] = s[i]
      BY <3>1, <3>2
    <3>4. QED
      BY <3>2, <3>3 DEF Items
  <2>3. QED
    BY <2>1, <2>2
<1>3. ASSUME NEW i \in 1..Len(Tail(s)) PROVE Tail(s)[i] \in Items(s)
  <2>1. i + 1 \in 1..Len(s) /\ Tail(s)[i] = s[i + 1]
    BY <1>1
  <2>2. QED
    BY <2>1 DEF Items
<1>4. Head(s) \in Items(s) /\ Head(s) \in Eval
  <2>1. 1 \in 1..Len(s)
    BY <1>1
  <2>2. QED
    BY <1>1, <2>1 DEF Items
<1>5. Items(s) \subseteq {Head(s)} \cup Items(Tail(s))
  BY <1>2 DEF Items
<1>6. Items(Tail(s)) \subseteq Items(s)
  BY <1>3 DEF Items
<1>7. QED
  BY <1>1, <1>4, <1>5, <1>6

LEMMA ItemsJoin ==
  ASSUME NEW s \in Seq(Eval), NEW t \in Seq(Eval)
  PROVE  /\ s \o t \in Seq(Eval) /\ Items(s \o t) = Items(s) \cup Items(t)
         /\ \A z \in Seq(Eval) : Ahead(z, s) => Ahead(z, s \o t)
<1> DEFINE j == s \o t
<1>1. /\ j \in Seq(Eval) /\ Len(s) \in Nat /\ Len(t) \in Nat /\ Len(j) = Len(s) + Len(t)
      /\ \A i \in 1..Len(s) : j[i] = s[i]
      /\ \A i \in 1..Len(t) : j[Len(s) + i] = t[i]
  OBVIOUS
<1> HIDE DEF j
<1>2. ASSUME NEW i \in 1..Len(j) PROVE j[i] \in Items(s) \cup Items(t)
  <2>1. CASE i <= Len(s)
    BY <1>1, <2>1 DEF Items
  <2>2. CASE i > Len(s)
    <3>1. i - Len(s) \in 1..Len(t) /\ Len(s) + (i - Len(s)) = i
      BY <1>1, <2>2
    <3>2. j[i] = t[i - Len(s)]
      BY <1>1, <3>1
    <3>3. QED
      BY <3>1, <3>2 DEF Items
  <2>3. QED
    BY <1>1, <2>1, <2>2
<1>3. ASSUME NEW i \in 1..Len(s) PROVE s[i] \in Items(j)
  BY <1>1 DEF Items
<1>4. ASSUME NEW i \in 1..Len(t) PROVE t[i] \in Items(j)
  <2>1. Len(s) + i \in 1..Len(j) /\ j[Len(s) + i] = t[i]
    BY <1>1
  <2>2. QED
    BY <2>1 DEF Items
<1>5. Items(j) \subseteq Items(s) \cup Items(t)
  BY <1>2 DEF Items
<1>6. Items(s) \subseteq Items(j)
  BY <1>3 DEF Items
<1>7. Items(t) \subseteq Items(j)
  BY <1>4 DEF Items
<1>8. ASSUME NEW z \in Seq(Eval), Ahead(z, s) PROVE Ahead(z, j)
  BY <1>1, <1>8 DEF Ahead
<1>9. QED
  BY <1>1, <1>5, <1>6, <1>7, <1>8 DEF j

LEMMA ItemsTwice ==
  ASSUME NEW e \in Eval
  PROVE  <<e, e>> \in Seq(Eval) /\ Items(<<e, e>>) = {e}
<1>1. <<e, e>> \in Seq(Eval) /\ Len(<<e, e>>) = 2
  OBVIOUS
<1>2. \A i \in 1..2 : <<e, e>>[i] = e
  OBVIOUS
<1>3. 1 \in 1..2
  OBVIOUS
<1>4. QED
  BY <1>1, <1>2, <1>3 DEF Items

LEMMA FirstOfIsAhead ==
  ASSUME NEW s \in Seq(Eval), NEW n \in Nat
  PROVE  FirstOf(s, n) \in Seq(Eval) /\ Ahead(FirstOf(s, n), s)
<1>1. CASE Len(s) < n
  BY <1>1 DEF FirstOf, Ahead
<1>2. CASE ~(Len(s) < n)
  <2>1. Len(s) \in Nat /\ n <= Len(s)
    BY <1>2
  <2>2. /\ SubSeq(s, 1, n) \in Seq(Eval) /\ Len(SubSeq(s, 1, n)) = n
        /\ \A i \in 1..n : SubSeq(s, 1, n)[i] = s[i]
    BY <2>1
  <2>3. QED
    BY <1>2, <2>1, <2>2 DEF FirstOf, Ahead
<1>3. QED
  BY <1>1, <1>2

\* LTRIM drops the batch that is ahead and nothing else.
Rest(z, s, t) == t \in Seq(Eval) /\ Items(z) = Items(s) \cup Items(t)
LEMMA ItemsTrim ==
  ASSUME NEW s \in Seq(Eval), NEW z \in Seq(Eval), Ahead(s, z), NEW t,
         t = SubSeq(z, Len(s) + 1, Len(z))
  PROVE  Rest(z, s, t)
<1> DEFINE k == Len(s)
           n == Len(z)
<1>1. k \in Nat /\ n \in Nat /\ k <= n /\ \A i \in 1..k : z[i] = s[i]
  BY DEF Ahead
<1>2. t = SubSeq(z, k + 1, n)
  OBVIOUS
<1>3. /\ t \in Seq(Eval) /\ Len(t) = n - k
      /\ \A i \in 1..(n - k) : t[i] = z[i + k]
  <2> HIDE DEF k
  <2>1. k + 1 \in Int /\ n \in Int /\ \A i \in (k + 1)..n : z[i] \in Eval
    BY <1>1
  <2> HIDE DEF n
  <2>2. t \in Seq(Eval) /\ Len(t) = (IF k + 1 <= n THEN n - (k + 1) + 1 ELSE 0)
    BY <1>2, <2>1, SubSeqProperties
  <2>3. ASSUME NEW m \in Int, m = k + 1 PROVE \A i \in 1..(n - m + 1) : t[i] = z[m + i - 1]
    <3>1. n \in Int /\ \A i \in m..n : z[i] \in Eval
      BY <2>1, <2>3
    <3>2. \A i \in 1..(n - m + 1) : SubSeq(z, m, n)[i] = z[m + i - 1]
      <4>1. SubSeq(z, m, n) = [i \in 1..(n - m + 1) |-> z[m + i - 1]]
        BY <3>1, z \in Seq(Eval) DEF SubSeq
      <4>2. QED
        BY <4>1
    <3>3. t = SubSeq(z, m, n)
      BY <1>2, <2>3
    <3>4. QED
      BY <3>2, <3>3
  <2>4. Len(t) = n - k
    <3>1. CASE k + 1 <= n
      BY <2>2, <1>1, <3>1
    <3>2. CASE ~(k + 1 <= n)
      BY <2>2, <1>1, <3>2
    <3>3. QED
      BY <3>1, <3>2
  <2>5. ASSUME NEW i \in 1..(n - k) PROVE t[i] = z[i + k]
    <3>1. PICK m \in Int : m = k + 1
      BY <2>1
    <3>2. m + i - 1 = i + k /\ n - m + 1 = n - k
      BY <1>1, <3>1
    <3>3. QED
      BY <2>3, <3>1, <3>2
  <2>6. QED
    BY <2>2, <2>4, <2>5
<1> HIDE DEF k, n
<1>4. ASSUME NEW i \in 1..n PROVE z[i] \in Items(s) \cup Items(t)
  <2>1. CASE i \in 1..k
    BY <2>1, <1>1 DEF Items, k
  <2>2. CASE i \notin 1..k
    <3>1. i - k \in 1..(n - k) /\ (i - k) + k = i
      BY <2>2, <1>1
    <3>2. t[i - k] = z[i]
      BY <3>1, <1>3
    <3>3. QED
      BY <3>1, <3>2, <1>3 DEF Items
  <2>3. QED
    BY <2>1, <2>2
<1>5. ASSUME NEW i \in 1..k PROVE s[i] \in Items(z)
  <2>1. i \in 1..n /\ z[i] = s[i]
    BY <1>1
  <2>2. QED
    BY <2>1 DEF Items, n
<1>6. ASSUME NEW i \in 1..(n - k) PROVE t[i] \in Items(z)
  <2>1. i + k \in 1..n /\ t[i] = z[i + k]
    BY <1>1, <1>3
  <2>2. QED
    BY <2>1 DEF Items, n
<1>7. Items(z) \subseteq Items(s) \cup Items(t)
  BY <1>4 DEF Items, n
<1>8. Items(s) \subseteq Items(z)
  BY <1>5 DEF Items, k
<1>9. Items(t) \subseteq Items(z)
  BY <1>6, <1>3 DEF Items
<1>10. QED
  BY <1>3, <1>7, <1>8, <1>9 DEF Rest

LEMMA ItemsTaken ==
  ASSUME NEW z \in Seq(Eval), NEW k \in Nat, k <= Len(z), NEW a, a = SubSeq(z, 1, k),
         NEW t, t = SubSeq(z, k + 1, Len(z))
  PROVE  a \in Seq(Eval) /\ Rest(z, a, t)
<1>1. a = FirstOf(z, k) /\ Len(a) = k
  BY DEF FirstOf
<1>2. a \in Seq(Eval) /\ Ahead(a, z)
  BY <1>1, FirstOfIsAhead
<1>3. t = SubSeq(z, Len(a) + 1, Len(z))
  BY <1>1
<1>4. QED
  BY <1>2, <1>3, ItemsTrim

\* Dropping any number of entries leaves a sequence.
LEMMA RestIsSeq ==
  ASSUME NEW z \in Seq(Eval), NEW k \in Nat
  PROVE  SubSeq(z, k + 1, Len(z)) \in Seq(Eval)
<1> DEFINE n == Len(z)
<1>1. \A i \in (k + 1)..n : z[i] \in Eval
  OBVIOUS
<1>2. n \in Nat
  OBVIOUS
<1> HIDE DEF n
<1>3. SubSeq(z, k + 1, n) \in Seq(Eval)
  BY <1>1, <1>2, SubSeqProperties
<1>4. QED
  BY <1>3 DEF n

-----------------------------------------------------------------------------
\* Types.

LEMMA EmptyTypes == <<>> \in Seq(Eval) /\ Items(<<>>) = {}
BY DEF Items

LEMMA IdleTypes ==
  /\ IdleFlush \in FlushState
  /\ [IdleFlush EXCEPT !.pc = "exited"] \in FlushState
  /\ [IdleFlush EXCEPT !.pc = "move"] \in FlushState
  /\ [IdleFlush EXCEPT !.pc = "move", !.last = TRUE] \in FlushState
<1>1. PICK z \in Seq(Eval) : z = <<>>
  BY EmptyTypes
<1>2. IdleFlush = [pc |-> "idle", n |-> 0, items |-> z, last |-> FALSE]
  BY <1>1 DEF IdleFlush
<1>3. QED
  BY <1>2 DEF FlushState

LEMMA FailsType == ASSUME Typed, Fails PROVE faults' \in 0..MaxFault /\ faults' # 0
<1>1. faults \in 0..MaxFault /\ faults < MaxFault /\ faults' = faults + 1
  BY DEF Typed, Fails
<1>2. MaxFault \in Nat
  BY EvalLogAssumption
<1>3. QED
  BY <1>1, <1>2

LEMMA FlushToType ==
  ASSUME Typed, NEW r \in Replica, NEW f \in FlushState, FlushTo(r, f)
  PROVE  /\ flush' \in [Replica -> FlushState] /\ flush'[r] = f
         /\ \A q \in Replica \ {r} : flush'[q] = flush[q]
         /\ UNCHANGED <<up, ch, pump, fate>>
BY DEF Typed, FlushTo

LEMMA FlushEndType ==
  ASSUME Typed, NEW r \in Replica, FlushEnd(r)
  PROVE  /\ flush' \in [Replica -> FlushState] /\ flush'[r].pc \in {"idle", "exited"}
         /\ \A q \in Replica \ {r} : flush'[q] = flush[q]
         /\ UNCHANGED <<up, ch, pump, fate>>
<1> DEFINE f == IF flush[r].last THEN [IdleFlush EXCEPT !.pc = "exited"] ELSE IdleFlush
<1>1. FlushTo(r, f)
  BY DEF FlushEnd
<1>2. f \in FlushState
  BY IdleTypes
<1>3. f.pc \in {"idle", "exited"}
  BY DEF IdleFlush
<1> HIDE DEF f
<1>4. QED
  BY <1>1, <1>2, <1>3, FlushToType

LEMMA GoneType ==
  ASSUME Typed, NEW r \in Replica, Gone(r)
  PROVE  /\ up' \in [Replica -> {"running", "stopping", "closed", "down"}]
         /\ ch' \in [Replica -> Seq(Eval)]
         /\ pump' \in [Replica -> {"loop", "drain", "exited"}]
         /\ flush' \in [Replica -> FlushState]
         /\ pump'[r] = "loop" /\ flush'[r] = IdleFlush
         /\ \A q \in Replica \ {r} : /\ up'[q] = up[q] /\ ch'[q] = ch[q]
                                     /\ pump'[q] = pump[q] /\ flush'[q] = flush[q]
         /\ UNCHANGED <<redis, rows, written, late, pushed, doubled>>
BY IdleTypes DEF Typed, Gone

LEMMA PushType ==
  ASSUME Typed, NEW r \in Replica, Push(r)
  PROVE  /\ ch' \in [Replica -> Seq(Eval)] /\ \A q \in Replica \ {r} : ch'[q] = ch[q]
         /\ Head(ch[r]) \in Eval
         /\ queue' \in Seq(Eval) /\ (UNCHANGED bounds \/ Fails)
         /\ \/ /\ Items(queue') = Items(queue) \cup {Head(ch[r])}
               /\ pushed' = pushed \cup {Head(ch[r])}
            \/ UNCHANGED <<queue, pushed>>
         /\ UNCHANGED <<up, pump, flush, processing, rows, written, late, silent, doubled>>
<1>1. ch' = [ch EXCEPT ![r] = Tail(@)] /\ ch[r] # <<>> /\ ch[r] \in Seq(Eval)
  BY DEF Push, Typed
<1>2. Tail(ch[r]) \in Seq(Eval) /\ Head(ch[r]) \in Eval
  BY <1>1, ItemsTail
<1>3. ch' \in [Replica -> Seq(Eval)] /\ \A q \in Replica \ {r} : ch'[q] = ch[q]
  BY <1>1, <1>2 DEF Typed
<1>4. PICK e \in Eval : e = Head(ch[r])
  BY <1>2
<1>5. queue \in Seq(Eval)
  BY DEF Typed
<1>6. /\ Append(queue, e) \in Seq(Eval) /\ Items(Append(queue, e)) = Items(queue) \cup {e}
      /\ queue \o <<e, e>> \in Seq(Eval) /\ Items(queue \o <<e, e>>) = Items(queue) \cup {e}
  <2>1. Append(queue, e) \in Seq(Eval) /\ Items(Append(queue, e)) = Items(queue) \cup {e}
    BY <1>5, ItemsAppend
  <2>2. PICK d \in Seq(Eval) : d = <<e, e>> /\ Items(d) = {e}
    BY ItemsTwice
  <2>3. queue \o d \in Seq(Eval) /\ Items(queue \o d) = Items(queue) \cup Items(d)
    BY <1>5, <2>2, ItemsJoin
  <2>4. QED
    BY <2>1, <2>2, <2>3
<1>7. \/ UNCHANGED <<queue, pushed>>
      \/ /\ queue' = Append(queue, e) \/ queue' = queue \o <<e, e>>
         /\ pushed' = pushed \cup {e}
  BY <1>4 DEF Push
<1>8. /\ UNCHANGED bounds \/ Fails
      /\ UNCHANGED <<up, pump, flush, processing, rows, written, late, silent, doubled>>
  BY DEF Push
<1>9. QED
  BY <1>3, <1>4, <1>5, <1>6, <1>7, <1>8

LEMMA TrimEffect ==
  ASSUME Typed, NEW r \in Replica, FlushTrim(r), Batched(r), ~doubled'
  PROVE  Items(processing) \subseteq Items(processing') \cup rows
<1> DEFINE s == flush[r].items
<1>1. s \in Seq(Eval) /\ processing \in Seq(Eval) /\ flush[r].pc = "trim"
  BY DEF Typed, FlushState, FlushTrim
<1>2. Ahead(s, processing) /\ Items(s) \subseteq rows
  BY <1>1 DEF Batched, Holds
<1>3. CASE UNCHANGED processing
  BY <1>3
<1>4. CASE processing' = LTrim(Len(s))
  <2>1. processing' = SubSeq(processing, Len(s) + 1, Len(processing))
    BY <1>4 DEF LTrim
  <2> HIDE DEF s
  <2>2. PICK z \in Seq(Eval) : z = processing
    BY <1>1
  <2>3. PICK u : u = processing'
    OBVIOUS
  <2>4. Ahead(s, z) /\ u = SubSeq(z, Len(s) + 1, Len(z))
    BY <1>2, <2>1, <2>2, <2>3
  <2>5. Rest(z, s, u)
    BY <1>1, <2>2, <2>4, ItemsTrim
  <2>6. QED
    BY <1>2, <2>2, <2>3, <2>5 DEF Rest
<1>5. QED
  BY <1>3, <1>4 DEF FlushTrim

LEMMA TrimType ==
  ASSUME Typed, NEW r \in Replica, FlushTrim(r)
  PROVE  processing' \in Seq(Eval)
<1>1. PICK n \in Nat : n = Len(flush[r].items) /\ 2 * n \in Nat
  BY DEF Typed, FlushState
<1>2. processing \in Seq(Eval)
  BY DEF Typed
<1>3. LTrim(n) \in Seq(Eval) /\ LTrim(2 * n) \in Seq(Eval)
  BY <1>1, <1>2, RestIsSeq DEF LTrim
<1>4. processing' \in {processing, LTrim(n), LTrim(2 * n)}
  BY <1>1 DEF FlushTrim
<1>5. QED
  BY <1>2, <1>3, <1>4

\* LMOVE: nothing leaves the two lists, and the processing list grows at its
\* end.
LEMMA LMoveEffect ==
  ASSUME Typed, NEW r \in Replica, LMove(r)
  PROVE  /\ queue' \in Seq(Eval) /\ processing' \in Seq(Eval)
         /\ Items(queue) \cup Items(processing) = Items(queue') \cup Items(processing')
         /\ \A z \in Seq(Eval) : Ahead(z, processing) => Ahead(z, processing')
         /\ UNCHANGED bounds \/ Fails
<1>1. PICK k \in 1..2 : /\ k <= Len(queue)
                        /\ queue' = SubSeq(queue, k + 1, Len(queue))
                        /\ processing' = processing \o SubSeq(queue, 1, k)
                        /\ UNCHANGED bounds \/ Fails
  BY DEF LMove
<1>2. PICK a : a = SubSeq(queue, 1, k)
  OBVIOUS
<1>3. queue \in Seq(Eval) /\ processing \in Seq(Eval) /\ k \in Nat
  BY <1>1 DEF Typed
<1>4. a \in Seq(Eval) /\ queue' \in Seq(Eval) /\ Items(queue) = Items(a) \cup Items(queue')
  <2>1. PICK z \in Seq(Eval) : z = queue
    BY <1>3
  <2>2. PICK u : u = queue'
    OBVIOUS
  <2>3. k <= Len(z) /\ a = SubSeq(z, 1, k) /\ u = SubSeq(z, k + 1, Len(z))
    BY <1>1, <1>2, <2>1, <2>2
  <2>4. a \in Seq(Eval) /\ Rest(z, a, u)
    BY <1>3, <2>1, <2>3, ItemsTaken
  <2>5. QED
    BY <2>1, <2>2, <2>4 DEF Rest
<1>5. processing' = processing \o a
  BY <1>1, <1>2
<1>6. /\ processing' \in Seq(Eval) /\ Items(processing') = Items(processing) \cup Items(a)
      /\ \A z \in Seq(Eval) : Ahead(z, processing) => Ahead(z, processing')
  BY <1>3, <1>4, <1>5, ItemsJoin
<1>7. QED
  BY <1>1, <1>4, <1>6

\* The steps of the flusher keep the types.
LEMMA FlushTypes ==
  ASSUME Typed, NEW r \in Replica, FlushStep(r)
  PROVE  Typed'
<1>1. /\ flush[r] \in FlushState /\ flush[r].items \in Seq(Eval)
      /\ queue \in Seq(Eval) /\ processing \in Seq(Eval)
  BY DEF Typed, FlushState
<1>2. CASE FlushTick(r) \/ FlushCancelled(r)
  <2>1. /\ \/ FlushTo(r, [IdleFlush EXCEPT !.pc = "move"])
           \/ FlushTo(r, [IdleFlush EXCEPT !.pc = "move", !.last = TRUE])
        /\ UNCHANGED <<redis, rows, bounds>>
    BY <1>2 DEF FlushTick, FlushCancelled
  <2>2. flush' \in [Replica -> FlushState] /\ UNCHANGED <<up, ch, pump, fate>>
    BY <2>1, IdleTypes, FlushToType
  <2>3. QED
    BY <2>1, <2>2 DEF Typed, redis, bounds, fate
<1>3. CASE LMove(r)
  <2> DEFINE f == [flush[r] EXCEPT !.n = @ + 1]
  <2>1. f \in FlushState
    BY <1>1 DEF FlushState
  <2>2. FlushTo(r, f)
    BY <1>3 DEF LMove
  <2> HIDE DEF f
  <2>3. flush' \in [Replica -> FlushState] /\ UNCHANGED <<up, ch, pump, fate>>
    BY <2>1, <2>2, FlushToType
  <2>4. queue' \in Seq(Eval) /\ processing' \in Seq(Eval) /\ (UNCHANGED bounds \/ Fails)
    BY <1>3, LMoveEffect
  <2>5. faults' \in 0..MaxFault
    BY <2>4, FailsType DEF Typed, bounds
  <2>6. QED
    BY <2>3, <2>4, <2>5 DEF Typed, fate
<1>4. CASE LMoveEnds(r)
  <2> DEFINE f == [flush[r] EXCEPT !.pc = "read"]
  <2>1. f \in FlushState
    BY <1>1 DEF FlushState
  <2>2. FlushTo(r, f) /\ UNCHANGED <<redis, rows>> /\ (UNCHANGED bounds \/ Fails)
    BY <1>4 DEF LMoveEnds, Upset
  <2> HIDE DEF f
  <2>3. flush' \in [Replica -> FlushState] /\ UNCHANGED <<up, ch, pump, fate>>
    BY <2>1, <2>2, FlushToType
  <2>4. faults' \in 0..MaxFault
    BY <2>2, FailsType DEF Typed, bounds
  <2>5. QED
    BY <2>2, <2>3, <2>4 DEF Typed, redis, fate
<1>5. CASE FlushRead(r)
  <2> DEFINE f == [flush[r] EXCEPT !.pc = "insert", !.n = 0, !.items = LRange(flush[r])]
  <2>1. LRange(flush[r]) \in Seq(Eval)
    BY <1>1, FirstOfIsAhead, EvalLogAssumption DEF LRange
  <2>2. f \in FlushState
    BY <1>1, <2>1 DEF FlushState
  <2>3. (FlushEnd(r) \/ FlushTo(r, f)) /\ UNCHANGED <<redis, rows, bounds>>
    BY <1>5 DEF FlushRead
  <2> HIDE DEF f
  <2>4. flush' \in [Replica -> FlushState] /\ UNCHANGED <<up, ch, pump, fate>>
    BY <2>2, <2>3, FlushToType, FlushEndType
  <2>5. QED
    BY <2>3, <2>4 DEF Typed, redis, bounds, fate
<1>6. CASE FlushInsert(r)
  <2> DEFINE f == [flush[r] EXCEPT !.pc = "trim"]
  <2>1. f \in FlushState
    BY <1>1 DEF FlushState
  <2>2. ((FlushTo(r, f) /\ UNCHANGED bounds) \/ (FlushEnd(r) /\ Fails)) /\ UNCHANGED redis
    BY <1>6 DEF FlushInsert
  <2> HIDE DEF f
  <2>3. flush' \in [Replica -> FlushState] /\ UNCHANGED <<up, ch, pump, fate>>
    BY <2>1, <2>2, FlushToType, FlushEndType
  <2>4. faults' \in 0..MaxFault
    BY <2>2, FailsType DEF Typed, bounds
  <2>5. QED
    BY <2>2, <2>3, <2>4 DEF Typed, redis, fate
<1>7. CASE FlushTrim(r)
  <2> DEFINE f == [flush[r] EXCEPT !.pc = "move", !.items = <<>>]
  <2>1. f \in FlushState
    <3>1. PICK z \in Seq(Eval) : z = <<>>
      BY EmptyTypes
    <3>2. f = [flush[r] EXCEPT !.pc = "move", !.items = z]
      BY <3>1
    <3>3. QED
      BY <1>1, <3>2 DEF FlushState
  <2>2. /\ FlushEnd(r) \/ FlushTo(r, f)
        /\ UNCHANGED <<queue, rows>> /\ (UNCHANGED bounds \/ Fails)
    BY <1>7 DEF FlushTrim, Upset
  <2> HIDE DEF f
  <2>3. flush' \in [Replica -> FlushState] /\ UNCHANGED <<up, ch, pump, fate>>
    BY <2>1, <2>2, FlushToType, FlushEndType
  <2>4. faults' \in 0..MaxFault
    BY <2>2, FailsType DEF Typed, bounds
  <2>5. processing' \in Seq(Eval)
    BY <1>7, TrimType
  <2>6. QED
    BY <2>2, <2>3, <2>4, <2>5 DEF Typed, fate
<1>8. CASE FlushFails(r)
  <2>1. FlushEnd(r) /\ UNCHANGED <<redis, rows>> /\ (UNCHANGED bounds \/ Fails)
    BY <1>8 DEF FlushFails, Upset
  <2>2. flush' \in [Replica -> FlushState] /\ UNCHANGED <<up, ch, pump, fate>>
    BY <2>1, FlushEndType
  <2>3. faults' \in 0..MaxFault
    BY <2>1, FailsType DEF Typed, bounds
  <2>4. QED
    BY <2>1, <2>2, <2>3 DEF Typed, redis, fate
<1>9. QED
  BY <1>2, <1>3, <1>4, <1>5, <1>6, <1>7, <1>8 DEF FlushStep

LEMMA TypedStep ==
  ASSUME Typed, Next
  PROVE  Typed'
<1>1. ASSUME NEW r \in Replica, Write(r) PROVE Typed'
  <2>1. written \in 0..MaxEval /\ written < MaxEval /\ written' = written + 1
    BY <1>1 DEF Write, Typed
  <2>2. written' \in Eval /\ written' \in 0..MaxEval
    BY <2>1, EvalLogAssumption DEF Eval
  <2>3. ch[r] \in Seq(Eval)
    BY DEF Typed
  <2>4. Append(ch[r], written') \in Seq(Eval)
    BY <2>2, <2>3, ItemsAppend
  <2>5. ch' \in [Replica -> Seq(Eval)]
    BY <1>1, <2>4 DEF Write, Typed
  <2>6. QED
    BY <1>1, <2>2, <2>5 DEF Write, Typed, redis, bounds
<1>2. ASSUME NEW r \in Replica, Push(r) PROVE Typed'
  <2>1. queue' \in Seq(Eval) /\ pushed' \subseteq Eval /\ faults' \in 0..MaxFault
    BY <1>2, PushType, FailsType DEF Typed, bounds
  <2>2. QED
    BY <1>2, <2>1, PushType DEF Typed
<1>3. ASSUME NEW r \in Replica, PumpCancelled(r) PROVE Typed'
  BY <1>3 DEF PumpCancelled, OnCancel, Typed, redis, bounds, fate
<1>4. ASSUME NEW r \in Replica, DrainEnds(r) PROVE Typed'
  <2>1. faults' \in 0..MaxFault
    BY <1>4, FailsType DEF DrainEnds, Typed, bounds
  <2>2. QED
    BY <1>4, <2>1 DEF DrainEnds, Typed, redis, fate
<1>5. ASSUME NEW r \in Replica, Signal(r) \/ ServerShutdown(r) \/ Restart(r) PROVE Typed'
  BY <1>5 DEF Signal, ServerShutdown, Restart, Typed, redis, bounds, fate
<1>6. ASSUME NEW r \in Replica, Exit(r) \/ Crash(r) PROVE Typed'
  <2>1. faults' \in 0..MaxFault
    BY <1>6, FailsType DEF Exit, Crash, Typed, bounds
  <2>2. Gone(r)
    BY <1>6 DEF Exit, Crash
  <2>3. QED
    BY <2>1, <2>2, GoneType DEF Typed, redis
<1>7. QED
  BY <1>1, <1>2, <1>3, <1>4, <1>5, <1>6, FlushTypes DEF Next, PumpStep, Pump, Drain

LEMMA TypedStart == ASSUME Init PROVE Typed
BY EmptyTypes, IdleTypes, EvalLogAssumption DEF Init, Typed

LEMMA TypedStays == ASSUME Typed, UNCHANGED vars PROVE Typed'
BY DEF Typed, vars, redis, bounds, fate

-----------------------------------------------------------------------------
\* Graceful stops.

LEMMA DrainStep ==
  ASSUME DrainInv, Next
  PROVE  DrainInv'
<1>1. Typed /\ Typed' /\ (faults = 0 => silent \subseteq late) /\ \A q \in Replica : Drained(q)
  BY TypedStep DEF DrainInv, StopKeepsEarlierWrites
<1>2. ASSUME NEW r \in Replica, Write(r) PROVE DrainInv'
  <2>1. late \subseteq late' /\ (up[r] = "stopping" => written' \in late')
    BY <1>2 DEF Write
  <2>2. UNCHANGED <<up, pump, faults, silent>> /\ up[r] \in {"running", "stopping"}
    BY <1>2 DEF Write, bounds
  <2>3. \A q \in Replica \ {r} : ch'[q] = ch[q]
    BY <1>1, <1>2 DEF Write, Typed
  <2>4. Items(ch'[r]) \subseteq Items(ch[r]) \cup {written'}
    <3>1. ch[r] \in Seq(Eval) /\ written' \in Eval
      <4>1. written \in 0..MaxEval /\ written < MaxEval /\ written' = written + 1
        BY <1>1, <1>2 DEF Write, Typed
      <4>2. QED
        BY <1>1, <4>1, EvalLogAssumption DEF Typed, Eval
    <3>2. Items(Append(ch[r], written')) = Items(ch[r]) \cup {written'}
      BY <3>1, ItemsAppend
    <3>3. ch'[r] = ch[r] \/ ch'[r] = Append(ch[r], written')
      BY <1>1, <1>2 DEF Write, Typed
    <3>4. QED
      BY <3>2, <3>3
  <2>5. ASSUME NEW q \in Replica PROVE Drained(q)'
    BY <1>1, <2>1, <2>2, <2>3, <2>4 DEF Drained
  <2>6. QED
    BY <1>1, <2>1, <2>2, <2>5 DEF DrainInv, StopKeepsEarlierWrites
<1>3. ASSUME NEW r \in Replica, Push(r), pump[r] \in {"loop", "drain"} PROVE DrainInv'
  <2>1. /\ UNCHANGED <<up, pump, late, silent>> /\ (faults' = faults \/ faults' # 0)
        /\ \A q \in Replica \ {r} : ch'[q] = ch[q]
    BY <1>1, <1>3, PushType, FailsType DEF bounds
  <2>2. QED
    BY <1>1, <1>3, <2>1 DEF DrainInv, StopKeepsEarlierWrites, Drained
<1>4. ASSUME NEW r \in Replica, PumpCancelled(r) PROVE DrainInv'
  <2>1. /\ UNCHANGED <<up, ch, faults, late, silent>> /\ pump'[r] = "drain"
        /\ up[r] \in {"stopping", "closed"}
        /\ \A q \in Replica \ {r} : pump'[q] = pump[q]
    BY <1>1, <1>4 DEF PumpCancelled, OnCancel, bounds, fate, Typed
  <2>2. QED
    BY <1>1, <2>1 DEF DrainInv, StopKeepsEarlierWrites, Drained
<1>5. ASSUME NEW r \in Replica, DrainEnds(r) PROVE DrainInv'
  <2>1. /\ UNCHANGED <<up, ch, late, silent>> /\ pump[r] = "drain"
        /\ \A q \in Replica \ {r} : pump'[q] = pump[q]
        /\ (ch[r] = <<>> /\ faults' = faults) \/ faults' # 0
    BY <1>1, <1>5, FailsType DEF DrainEnds, bounds, fate, Typed
  <2>2. ASSUME NEW q \in Replica PROVE Drained(q)'
    BY <1>1, <2>1, EmptyTypes DEF Drained
  <2>3. QED
    BY <1>1, <2>1, <2>2 DEF DrainInv, StopKeepsEarlierWrites
<1>6. ASSUME NEW r \in Replica, FlushStep(r) PROVE DrainInv'
  <2>1. UNCHANGED <<up, ch, pump, late, silent>> /\ (faults' = faults \/ faults' # 0)
    BY <1>1, <1>6, FailsType
       DEF FlushStep, FlushTick, FlushCancelled, LMove, LMoveEnds, FlushRead, FlushInsert,
           FlushTrim, FlushFails, FlushEnd, FlushTo, Upset, bounds, fate
  <2>2. QED
    BY <1>1, <2>1 DEF DrainInv, StopKeepsEarlierWrites, Drained
<1>7. ASSUME NEW r \in Replica, Signal(r) \/ ServerShutdown(r) \/ Restart(r) PROVE DrainInv'
  <2>1. /\ UNCHANGED <<ch, pump, faults, late, silent>>
        /\ \A q \in Replica \ {r} : up'[q] = up[q]
        /\ up[r] \in {"running", "down"} \/ up'[r] = "closed"
    BY <1>1, <1>7 DEF Signal, ServerShutdown, Restart, bounds, fate, Typed
  <2>2. ASSUME NEW q \in Replica PROVE Drained(q)'
    BY <1>1, <2>1 DEF Drained
  <2>3. QED
    BY <1>1, <2>1, <2>2 DEF DrainInv, StopKeepsEarlierWrites
<1>8. ASSUME NEW r \in Replica, Exit(r) \/ Crash(r) PROVE DrainInv'
  <2>1. /\ Gone(r) /\ UNCHANGED late
        /\ \/ silent' = silent \cup Items(ch[r]) /\ faults' = faults /\ pump[r] = "exited"
           \/ faults' # 0
           \/ UNCHANGED <<faults, silent>>
    BY <1>1, <1>8, FailsType DEF Exit, Crash, Gone, bounds
  <2>2. /\ pump'[r] = "loop"
        /\ \A q \in Replica \ {r} : up'[q] = up[q] /\ ch'[q] = ch[q] /\ pump'[q] = pump[q]
    BY <1>1, <2>1, GoneType
  <2>3. faults' = 0 => silent' \subseteq late'
    BY <1>1, <2>1 DEF Drained
  <2>4. faults' = 0 => faults = 0
    BY <1>8, FailsType, <1>1, <2>1
  <2>5. ASSUME NEW q \in Replica PROVE Drained(q)'
    BY <1>1, <2>1, <2>2, <2>4 DEF Drained
  <2>6. QED
    BY <1>1, <2>3, <2>5 DEF DrainInv, StopKeepsEarlierWrites
<1>9. QED
  BY <1>2, <1>3, <1>4, <1>5, <1>6, <1>7, <1>8 DEF Next, PumpStep, Pump, Drain

LEMMA DrainStart == ASSUME Init PROVE DrainInv
BY TypedStart DEF Init, DrainInv, StopKeepsEarlierWrites, Drained

-----------------------------------------------------------------------------
\* The two lists, on any number of replicas.

\* A step of which no flush has a part that matters here.
LEMMA KeepAside ==
  ASSUME KeepInv, Typed', UNCHANGED <<processing, rows, doubled>>,
         Items(queue) \subseteq Items(queue'), pushed' \subseteq pushed \cup Items(queue'),
         \A r \in Replica : flush'[r] = flush[r] \/ flush'[r].pc \notin {"insert", "trim"}
  PROVE  KeepInv'
<1>1. SUFFICES ASSUME ~doubled PROVE (Kept /\ Apart /\ \A r \in Replica : Batched(r))'
  BY DEF KeepInv
<1>2. Kept /\ Apart /\ \A r \in Replica : Batched(r)
  BY <1>1 DEF KeepInv
<1>3. Kept'
  BY <1>2 DEF Kept
<1>4. \A r \in Replica : Holds(r)' => Holds(r) /\ flush'[r] = flush[r]
  BY DEF Holds
<1>5. Apart'
  BY <1>2, <1>4 DEF Apart
<1>6. \A r \in Replica : Batched(r)'
  BY <1>2, <1>4 DEF Batched, Holds
<1>7. QED
  BY <1>3, <1>5, <1>6

\* A flush ends, or turns to its next step without a batch.
LEMMA KeepTurn ==
  ASSUME KeepInv, Typed', NEW r \in Replica, UNCHANGED <<redis, rows, pushed, doubled>>,
         flush'[r].pc \notin {"insert", "trim"}, \A q \in Replica \ {r} : flush'[q] = flush[q]
  PROVE  KeepInv'
<1>1. UNCHANGED <<queue, processing>>
  BY DEF redis
<1>2. QED
  BY <1>1, KeepAside

LEMMA KeepFlush ==
  ASSUME KeepInv, NEW r \in Replica, FlushStep(r)
  PROVE  KeepInv'
<1>1. /\ Typed /\ flush[r] \in FlushState /\ flush[r].items \in Seq(Eval)
      /\ queue \in Seq(Eval) /\ processing \in Seq(Eval)
  BY DEF KeepInv, Typed, FlushState
<1>2. Typed'
  BY <1>1, FlushTypes
<1>3. pushed' = pushed
  BY DEF FlushStep, FlushTick, FlushCancelled, LMove, LMoveEnds, FlushRead, FlushInsert,
         FlushTrim, FlushFails, FlushEnd, FlushTo, fate
<1>4. ASSUME doubled PROVE doubled'
  <2>1. CASE FlushRead(r)
    <3>1. UNCHANGED doubled \/ doubled' = (doubled \/ \E q \in Replica : flush[q].pc \in {"insert", "trim"})
      BY <2>1 DEF FlushRead
    <3>2. QED
      BY <1>4, <3>1, Zenon
  <2>2. CASE FlushTrim(r)
    BY <1>4, <2>2 DEF FlushTrim
  <2>3. CASE ~FlushRead(r) /\ ~FlushTrim(r)
    BY <1>4, <2>3 DEF FlushStep, FlushTick, FlushCancelled, LMove, LMoveEnds, FlushInsert, FlushFails
  <2>4. QED
    BY <2>1, <2>2, <2>3
<1>5. CASE FlushTick(r) \/ FlushCancelled(r)
  <2>1. /\ \/ FlushTo(r, [IdleFlush EXCEPT !.pc = "move"])
           \/ FlushTo(r, [IdleFlush EXCEPT !.pc = "move", !.last = TRUE])
        /\ UNCHANGED <<redis, rows, doubled>>
    BY <1>5 DEF FlushTick, FlushCancelled
  <2>2. flush'[r].pc = "move" /\ \A q \in Replica \ {r} : flush'[q] = flush[q]
    BY <1>1, <2>1 DEF FlushTo, IdleFlush, Typed
  <2>3. QED
    BY <1>2, <1>3, <2>1, <2>2, KeepTurn
<1>6. CASE LMoveEnds(r)
  <2>1. FlushTo(r, [flush[r] EXCEPT !.pc = "read"]) /\ UNCHANGED <<redis, rows, doubled>>
    BY <1>6 DEF LMoveEnds
  <2>2. flush'[r].pc = "read" /\ \A q \in Replica \ {r} : flush'[q] = flush[q]
    BY <1>1, <2>1 DEF FlushTo, Typed, FlushState
  <2>3. QED
    BY <1>2, <1>3, <2>1, <2>2, KeepTurn
<1>7. CASE FlushFails(r)
  <2>1. FlushEnd(r) /\ UNCHANGED <<redis, rows, doubled>>
    BY <1>7 DEF FlushFails
  <2>2. QED
    BY <1>1, <1>2, <1>3, <2>1, FlushEndType, KeepTurn
<1>8. SUFFICES ASSUME ~doubled, ~doubled',
                      LMove(r) \/ FlushRead(r) \/ FlushInsert(r) \/ FlushTrim(r)
               PROVE  (Kept /\ Apart /\ \A q \in Replica : Batched(q))'
  BY <1>2, <1>4, <1>5, <1>6, <1>7 DEF FlushStep, KeepInv
<1>9. Kept /\ Apart /\ \A q \in Replica : Batched(q)
  BY <1>8 DEF KeepInv
<1>10. \A q \in Replica : flush[q].items \in Seq(Eval)
  BY <1>1 DEF Typed, FlushState
<1>11. CASE LMove(r)
  <2>1. /\ Items(queue) \cup Items(processing) = Items(queue') \cup Items(processing')
        /\ \A z \in Seq(Eval) : Ahead(z, processing) => Ahead(z, processing')
    BY <1>1, <1>11, LMoveEffect
  <2>2. UNCHANGED rows /\ flush[r].pc = "move"
    BY <1>11 DEF LMove
  <2>3. flush'[r].pc = "move" /\ \A q \in Replica \ {r} : flush'[q] = flush[q]
    BY <1>1, <1>11, <2>2 DEF LMove, FlushTo, Typed, FlushState
  <2>4. Kept'
    BY <1>3, <1>9, <2>1, <2>2 DEF Kept
  <2>5. Apart'
    BY <1>9, <2>3 DEF Apart, Holds
  <2>6. \A q \in Replica : Batched(q)'
    BY <1>9, <1>10, <2>1, <2>2, <2>3 DEF Batched, Holds
  <2>7. QED
    BY <2>4, <2>5, <2>6
<1>12. CASE FlushRead(r)
  <2>1. UNCHANGED <<queue, processing, rows>>
    BY <1>12 DEF FlushRead, redis
  <2>2. Kept'
    BY <1>3, <1>9, <2>1 DEF Kept
  <2>3. CASE FlushEnd(r)
    <3>1. flush'[r].pc \notin {"insert", "trim"} /\ \A q \in Replica \ {r} : flush'[q] = flush[q]
      BY <1>1, <2>3, FlushEndType
    <3>2. QED
      BY <1>9, <2>1, <2>2, <3>1 DEF Apart, Batched, Holds
  <2>4. CASE /\ FlushTo(r, [flush[r] EXCEPT !.pc = "insert", !.n = 0, !.items = LRange(flush[r])])
             /\ doubled' = (doubled \/ \E q \in Replica : flush[q].pc \in {"insert", "trim"})
    <3>1. LRange(flush[r]) \in Seq(Eval) /\ Ahead(LRange(flush[r]), processing)
      BY <1>1, FirstOfIsAhead, EvalLogAssumption DEF LRange
    <3>2. flush'[r] = [flush[r] EXCEPT !.pc = "insert", !.n = 0, !.items = LRange(flush[r])]
      BY <1>1, <2>4 DEF FlushTo, Typed
    <3>3. PICK z \in Seq(Eval) : z = LRange(flush[r])
      BY <3>1
    <3>4. flush'[r].pc = "insert" /\ flush'[r].items = z
      BY <1>1, <3>3, <3>2 DEF FlushState
    <3>5. \A q \in Replica \ {r} : flush'[q] = flush[q]
      BY <1>1, <2>4 DEF FlushTo, Typed
    <3>6. /\ flush'[r].pc = "insert" /\ flush'[r].items = LRange(flush[r])
          /\ \A q \in Replica \ {r} : flush'[q] = flush[q]
      BY <3>3, <3>4, <3>5
    <3>7. \A q \in Replica : ~Holds(q)
      BY <1>8, <2>4 DEF Holds
    <3>8. \A q \in Replica \ {r} : ~Holds(q)'
      BY <3>6, <3>7 DEF Holds
    <3>9. Apart'
      BY <3>8 DEF Apart
    <3>10. Ahead(flush'[r].items, processing')
      BY <2>1, <3>1, <3>6
    <3>11. \A q \in Replica : Batched(q)'
      BY <3>6, <3>8, <3>10 DEF Batched, Holds
    <3>12. QED
      BY <2>2, <3>9, <3>11
  <2>5. QED
    BY <1>12, <2>3, <2>4 DEF FlushRead
<1>13. CASE FlushInsert(r)
  <2>1. /\ rows' = rows \cup Items(flush[r].items)
        /\ UNCHANGED <<queue, processing>> /\ flush[r].pc = "insert"
    BY <1>13 DEF FlushInsert, redis
  <2>2. Kept'
    BY <1>3, <1>9, <2>1 DEF Kept
  <2>3. CASE FlushEnd(r)
    <3>1. flush'[r].pc \notin {"insert", "trim"} /\ \A q \in Replica \ {r} : flush'[q] = flush[q]
      BY <1>1, <2>3, FlushEndType
    <3>2. QED
      BY <1>9, <2>1, <2>2, <3>1 DEF Apart, Batched, Holds
  <2>4. CASE FlushTo(r, [flush[r] EXCEPT !.pc = "trim"])
    <3>1. flush'[r] = [flush[r] EXCEPT !.pc = "trim"]
      BY <1>1, <2>4 DEF FlushTo, Typed
    <3>2. /\ flush'[r].pc = "trim" /\ flush'[r].items = flush[r].items
          /\ \A q \in Replica \ {r} : flush'[q] = flush[q]
      BY <1>1, <2>4, <3>1 DEF FlushState, FlushTo
    <3>3. Holds(r) /\ \A q \in Replica : Holds(q)' => Holds(q)
      BY <2>1, <3>2 DEF Holds
    <3>4. Apart'
      BY <1>9, <3>3 DEF Apart
    <3>5. Ahead(flush[r].items, processing')
      BY <1>9, <2>1, <3>3 DEF Batched
    <3>6. Batched(r)'
      BY <2>1, <3>2, <3>5 DEF Batched
    <3>7. \A q \in Replica \ {r} : Batched(q)'
      BY <1>9, <2>1, <3>2 DEF Batched, Holds
    <3>8. QED
      BY <2>2, <3>4, <3>6, <3>7
  <2>5. QED
    BY <1>13, <2>3, <2>4 DEF FlushInsert
<1>14. CASE FlushTrim(r)
  <2>1. /\ Items(processing) \subseteq Items(processing') \cup rows
        /\ UNCHANGED <<queue, rows>> /\ flush[r].pc = "trim"
    <3>1. Items(processing) \subseteq Items(processing') \cup rows
      BY <1>1, <1>8, <1>9, <1>14, TrimEffect
    <3>2. QED
      BY <1>14, <3>1 DEF FlushTrim
  <2>2. Kept'
    BY <1>3, <1>9, <2>1 DEF Kept
  <2>3. flush'[r].pc \notin {"insert", "trim"} /\ \A q \in Replica \ {r} : flush'[q] = flush[q]
    <3>1. CASE FlushEnd(r)
      BY <1>1, <3>1, FlushEndType
    <3>2. CASE FlushTo(r, [flush[r] EXCEPT !.pc = "move", !.items = <<>>])
      <4>1. PICK z : z = <<>>
        OBVIOUS
      <4>2. /\ flush'[r] = [flush[r] EXCEPT !.pc = "move", !.items = z]
            /\ \A q \in Replica \ {r} : flush'[q] = flush[q]
        BY <1>1, <3>2, <4>1 DEF FlushTo, Typed
      <4>3. QED
        BY <1>1, <4>2 DEF FlushState
    <3>3. QED
      BY <1>14, <3>1, <3>2 DEF FlushTrim
  <2>4. Holds(r) /\ \A q \in Replica \ {r} : ~Holds(q)
    BY <1>9, <2>1 DEF Apart, Holds
  <2>5. \A q \in Replica : ~Holds(q)'
    BY <2>3, <2>4 DEF Holds
  <2>6. \A q \in Replica : flush'[q].pc # "trim"
    BY <2>5 DEF Holds
  <2>7. QED
    BY <2>2, <2>5, <2>6 DEF Apart, Batched
<1>15. QED
  BY <1>8, <1>11, <1>12, <1>13, <1>14

LEMMA KeepStep ==
  ASSUME KeepInv, Next
  PROVE  KeepInv'
<1>1. Typed /\ Typed'
  BY TypedStep DEF KeepInv
<1>2. ASSUME NEW r \in Replica, Push(r) PROVE KeepInv'
  <2>1. /\ UNCHANGED <<processing, rows, flush, doubled>>
        /\ \/ /\ Items(queue') = Items(queue) \cup {Head(ch[r])}
              /\ pushed' = pushed \cup {Head(ch[r])}
           \/ UNCHANGED <<queue, pushed>>
    BY <1>1, <1>2, PushType
  <2>2. Items(queue) \subseteq Items(queue') /\ pushed' \subseteq pushed \cup Items(queue')
    BY <2>1
  <2>3. QED
    BY <1>1, <2>1, <2>2, KeepAside
<1>3. ASSUME NEW r \in Replica,
             \/ Write(r) \/ PumpCancelled(r) \/ DrainEnds(r) \/ Signal(r)
             \/ ServerShutdown(r) \/ Restart(r)
      PROVE  KeepInv'
  <2>1. UNCHANGED <<queue, processing, rows, flush, pushed, doubled>>
    BY <1>3 DEF Write, PumpCancelled, DrainEnds, Signal, ServerShutdown, Restart, redis, fate
  <2>2. QED
    BY <1>1, <2>1, KeepAside
<1>4. ASSUME NEW r \in Replica, Exit(r) \/ Crash(r) PROVE KeepInv'
  <2>1. Gone(r)
    BY <1>4 DEF Exit, Crash
  <2>2. /\ UNCHANGED <<queue, processing, rows, pushed, doubled>>
        /\ \A q \in Replica : flush'[q] = flush[q] \/ flush'[q].pc = "idle"
    BY <1>1, <2>1, GoneType DEF redis, IdleFlush
  <2>3. QED
    BY <1>1, <2>2, KeepAside
<1>5. QED
  BY <1>2, <1>3, <1>4, KeepFlush DEF Next, PumpStep, Pump, Drain

LEMMA KeepStart == ASSUME Init PROVE KeepInv
BY TypedStart DEF Init, KeepInv, Kept, Apart, Batched, Holds, IdleFlush

-----------------------------------------------------------------------------
(* A graceful stop in which nothing fails loses no evaluation that was     *)
(* written before the signal, on any number of replicas: pump drains the   *)
(* channel before it exits.                                                *)
THEOREM StopDrains == Spec => []StopKeepsEarlierWrites
<1>1. Init => DrainInv
  BY DrainStart
<1>2. DrainInv /\ [Next]_vars => DrainInv'
  <2>1. ASSUME DrainInv, UNCHANGED vars PROVE DrainInv'
    BY <2>1, TypedStays DEF DrainInv, StopKeepsEarlierWrites, Drained, vars, bounds, fate
  <2>2. QED
    BY <2>1, DrainStep
<1>3. DrainInv => StopKeepsEarlierWrites
  BY DEF DrainInv
<1>4. QED
  BY <1>1, <1>2, <1>3, PTL DEF Spec

(* On any number of replicas no evaluation that has reached Redis is lost, *)
(* whatever fails, crashes or is done again between LMOVE, LRANGE, INSERT  *)
(* and LTRIM, unless the client has repeated an LTRIM or a flush has read  *)
(* entries that another had read and not trimmed yet: a flush that trims   *)
(* drops what it has inserted, since it alone holds the head of the list.  *)
THEOREM RedisKeeps == Spec => []AcceptedIsKept
<1>1. Init => KeepInv
  BY KeepStart
<1>2. KeepInv /\ [Next]_vars => KeepInv'
  <2>1. ASSUME KeepInv, UNCHANGED vars PROVE KeepInv'
    <3>1. UNCHANGED <<queue, processing, rows, flush, pushed, doubled>>
      BY <2>1 DEF vars, redis, fate
    <3>2. QED
      BY <2>1, <3>1, TypedStays, KeepAside DEF KeepInv
  <2>2. QED
    BY <2>1, KeepStep
<1>3. KeepInv => AcceptedIsKept
  BY DEF KeepInv, Kept, AcceptedIsKept
<1>4. QED
  BY <1>1, <1>2, <1>3, PTL DEF Spec

-----------------------------------------------------------------------------
(***************************************************************************)
(* Access: paths, prefixes label by label.                                 *)
(***************************************************************************)

LEMMA AboveIs ==
  ASSUME NEW s \in Seq(Org), NEW t \in Seq(Org)
  PROVE  Above(s, t) <=> Len(s) <= Len(t) /\ \A i \in 1..Len(s) : s[i] = t[i]
<1>1. ASSUME Above(s, t) PROVE Len(s) <= Len(t) /\ \A i \in 1..Len(s) : s[i] = t[i]
  <2>1. Len(s) <= Len(t) /\ SubSeq(s, 1, Len(s)) = SubSeq(t, 1, Len(s))
    BY <1>1 DEF Above, IsPrefix
  <2>2. ASSUME NEW i \in 1..Len(s) PROVE s[i] = t[i]
    <3>1. SubSeq(s, 1, Len(s))[i] = s[i] /\ SubSeq(t, 1, Len(s))[i] = t[i]
      BY <2>1
    <3>2. QED BY <2>1, <3>1
  <2>3. QED BY <2>1, <2>2
<1>2. ASSUME Len(s) <= Len(t), \A i \in 1..Len(s) : s[i] = t[i] PROVE Above(s, t)
  <2>1. SubSeq(s, 1, Len(s)) = SubSeq(t, 1, Len(s))
    BY <1>2
  <2>2. QED BY <1>2, <2>1 DEF Above, IsPrefix
<1>3. QED BY <1>1, <1>2

(* The first labels of a path. *)
LEMMA FirstLabels ==
  ASSUME NEW s \in Seq(Org), NEW i \in 1..Len(s)
  PROVE  /\ SubSeq(s, 1, i) \in Seq(Org) /\ Len(SubSeq(s, 1, i)) = i
         /\ \A j \in 1..i : SubSeq(s, 1, i)[j] = s[j]
         /\ Above(SubSeq(s, 1, i), s)
<1>1. SubSeq(s, 1, i) \in Seq(Org) /\ Len(SubSeq(s, 1, i)) = i
  OBVIOUS
<1>2. ASSUME NEW j \in 1..i PROVE SubSeq(s, 1, i)[j] = s[j]
  OBVIOUS
<1>3. Above(SubSeq(s, 1, i), s)
  <2> DEFINE t == SubSeq(s, 1, i)
  <2>1. t \in Seq(Org) /\ Len(t) <= Len(s) /\ \A j \in 1..Len(t) : t[j] = s[j]
    BY <1>1, <1>2
  <2> HIDE DEF t
  <2>2. Above(t, s)
    BY <2>1, AboveIs
  <2>3. QED BY <2>2 DEF t
<1>4. QED BY <1>1, <1>2, <1>3

(* Paths with the same labels are equal. *)
LEMMA SamePath ==
  ASSUME NEW s \in Seq(Org), NEW t \in Seq(Org), Len(s) = Len(t), \A i \in 1..Len(s) : s[i] = t[i]
  PROVE  s = t
OBVIOUS

LEMMA AboveAbove ==
  ASSUME NEW s \in Seq(Org), NEW t \in Seq(Org), NEW v \in Seq(Org)
  PROVE  /\ Above(s, t) /\ Above(t, v) => Above(s, v)
         /\ Above(s, v) /\ Above(t, v) /\ Len(s) <= Len(t) => Above(s, t)
         /\ Above(s, s) /\ Above(t, t)
<1> USE AboveIs
<1>1. Above(s, t) /\ Above(t, v) => Above(s, v)
  OBVIOUS
<1>2. Above(s, v) /\ Above(t, v) /\ Len(s) <= Len(t) => Above(s, t)
  OBVIOUS
<1>3. QED BY <1>1, <1>2

-----------------------------------------------------------------------------
(* Forests.                                                                *)

Paths == [Org -> Seq(Org)]

(* In a forest o is above d when it is a label of the path of d. *)
LEMMA ForestAbove ==
  ASSUME NEW P \in Paths, IsForest(P), NEW a \in Org, NEW d \in Org
  PROVE  /\ Len(P[a]) > 0 /\ P[a][Len(P[a])] = a
         /\ Above(P[a], P[d]) <=> Len(P[a]) <= Len(P[d]) /\ P[d][Len(P[a])] = a
<1> P[a] \in Seq(Org) /\ P[d] \in Seq(Org)
  BY DEF Paths
<1>1. Len(P[a]) > 0 /\ P[a][Len(P[a])] = a
  BY DEF IsForest
<1>2. ASSUME Above(P[a], P[d]) PROVE Len(P[a]) <= Len(P[d]) /\ P[d][Len(P[a])] = a
  BY <1>1, <1>2, AboveIs
<1>3. ASSUME Len(P[a]) <= Len(P[d]), P[d][Len(P[a])] = a PROVE Above(P[a], P[d])
  <2>1. P[a] = SubSeq(P[d], 1, Len(P[a]))
    BY <1>1, <1>3 DEF IsForest
  <2>2. Len(P[a]) \in 1..Len(P[d])
    BY <1>1, <1>3
  <2>3. Above(SubSeq(P[d], 1, Len(P[a])), P[d])
    BY <2>2, FirstLabels
  <2>4. QED BY <2>1, <2>3
<1>4. QED BY <1>1, <1>2, <1>3

(* A path of one forest that lies above a path of another is the same in both. *)
LEMMA SharedPath ==
  ASSUME NEW P \in Paths, IsForest(P), NEW Q \in Paths, IsForest(Q),
         NEW a \in Org, NEW d \in Org, Above(Q[a], P[d])
  PROVE  P[a] = Q[a]
<1> P[d] \in Seq(Org) /\ Q[a] \in Seq(Org) /\ P[a] \in Seq(Org)
  BY DEF Paths
<1> DEFINE n == Len(Q[a])
<1>1. n > 0 /\ Q[a][n] = a
  BY DEF IsForest
<1>2. n \in 1..Len(P[d]) /\ P[d][n] = a /\ \A i \in 1..n : Q[a][i] = P[d][i]
  BY <1>1, AboveIs
<1>3. P[a] = SubSeq(P[d], 1, n)
  BY <1>2 DEF IsForest
<1>4. Len(P[a]) = n /\ \A i \in 1..n : P[a][i] = P[d][i]
  BY <1>2, <1>3, FirstLabels
<1>5. QED BY <1>2, <1>4, SamePath

(* What a move of o, with all that is below it, makes of the forest P.     *)
Moved(P, Q, o) ==
  /\ Q[o] # P[o]
  /\ \A d \in Org : Above(P[o], P[d]) <=> Above(Q[o], Q[d])
  /\ \A d \in Org : ~Above(P[o], P[d]) => Q[d] = P[d]

(* A move is undone by a move. *)
LEMMA MovedBack ==
  ASSUME NEW P \in Paths, NEW Q \in Paths, NEW o \in Org, Moved(P, Q, o)
  PROVE  Moved(Q, P, o)
BY DEF Moved

(* The path rewrite of Move. *)
NewPath(P, o, par) == IF par = NoOrg THEN <<o>> ELSE Append(P[par], o)
Cascade(P, o, par) ==
  [d \in Org |-> IF Above(P[o], P[d])
                 THEN NewPath(P, o, par) \o SubSeq(P[d], Len(P[o]) + 1, Len(P[d]))
                 ELSE P[d]]

(* The labels of the new path of o: those of the parent's path, then o. *)
EndsBelow(s, P, o, par) ==
  /\ s \in Seq(Org) /\ Len(s) > 0 /\ s[Len(s)] = o
  /\ \A i \in 1..(Len(s) - 1) :
       par # NoOrg /\ par \in Org /\ i \in 1..Len(P[par]) /\ s[i] = P[par][i]

LEMMA NewPathIs ==
  ASSUME NEW P \in Paths, NEW o \in Org, NEW par \in Org \cup {NoOrg}
  PROVE  EndsBelow(NewPath(P, o, par), P, o, par)
<1>1. CASE par = NoOrg
  BY <1>1 DEF NewPath, EndsBelow
<1>2. CASE par # NoOrg
  <2>1. par \in Org /\ P[par] \in Seq(Org)
    BY <1>2 DEF Paths
  <2>2. NewPath(P, o, par) = Append(P[par], o)
    BY <1>2 DEF NewPath
  <2> HIDE DEF NewPath
  <2>3. Len(NewPath(P, o, par)) = Len(P[par]) + 1 /\ NewPath(P, o, par) \in Seq(Org)
    BY <2>1, <2>2
  <2>4. NewPath(P, o, par)[Len(P[par]) + 1] = o
    BY <2>1, <2>2
  <2>5. ASSUME NEW i \in 1..Len(P[par]) PROVE NewPath(P, o, par)[i] = P[par][i]
    BY <2>1, <2>2
  <2>6. QED BY <1>2, <2>1, <2>3, <2>4, <2>5 DEF EndsBelow
<1>3. QED BY <1>1, <1>2

LEMMA RestLabels ==
  ASSUME NEW s \in Seq(Org), NEW l \in Nat, l <= Len(s)
  PROVE  /\ SubSeq(s, l + 1, Len(s)) \in Seq(Org) /\ Len(SubSeq(s, l + 1, Len(s))) = Len(s) - l
         /\ \A i \in 1..(Len(s) - l) : SubSeq(s, l + 1, Len(s))[i] = s[l + i]
<1>1. SubSeq(s, l + 1, Len(s)) \in Seq(Org)
  OBVIOUS
<1>2. Len(SubSeq(s, l + 1, Len(s))) = Len(s) - l
  OBVIOUS
<1>3. ASSUME NEW i \in 1..(Len(s) - l) PROVE SubSeq(s, l + 1, Len(s))[i] = s[l + i]
  OBVIOUS
<1>4. QED BY <1>1, <1>2, <1>3

LEMMA JoinedLabels ==
  ASSUME NEW s \in Seq(Org), NEW t \in Seq(Org)
  PROVE  /\ s \o t \in Seq(Org) /\ Len(s \o t) = Len(s) + Len(t)
         /\ \A i \in 1..Len(s) : (s \o t)[i] = s[i]
         /\ \A i \in 1..Len(t) : (s \o t)[Len(s) + i] = t[i]
<1>1. ASSUME NEW i \in 1..Len(t) PROVE (s \o t)[Len(s) + i] = t[i]
  OBVIOUS
<1>2. QED BY <1>1

LEMMA CascadeLabels ==
  ASSUME NEW P \in Paths, IsForest(P), NEW o \in Org, NEW par \in Org \cup {NoOrg},
         NEW d \in Org, Above(P[o], P[d])
  PROVE  LET new == NewPath(P, o, par)
             s == Cascade(P, o, par)[d]
             n == Len(new)
             l == Len(P[o])
         IN /\ s \in Seq(Org) /\ Len(s) = n + Len(P[d]) - l /\ Len(s) >= n
            /\ \A i \in 1..n : s[i] = new[i]
            /\ \A i \in 1..(Len(P[d]) - l) : s[n + i] = P[d][l + i]
<1> DEFINE new == NewPath(P, o, par)
           l == Len(P[o])
           t == SubSeq(P[d], l + 1, Len(P[d]))
           n == Len(new)
           s == Cascade(P, o, par)[d]
<1>1. new \in Seq(Org) /\ P[d] \in Seq(Org) /\ P[o] \in Seq(Org)
  BY NewPathIs DEF Paths, EndsBelow
<1>2. l <= Len(P[d]) /\ l \in Nat /\ n \in Nat /\ Len(P[d]) \in Nat
  BY <1>1, AboveIs
<1>3. s = new \o t
  BY DEF Cascade
<1>4. /\ t \in Seq(Org) /\ Len(t) = Len(P[d]) - l
      /\ \A i \in 1..(Len(P[d]) - l) : t[i] = P[d][l + i]
  <2> HIDE DEF l
  <2>1. QED BY <1>1, <1>2, RestLabels
<1> HIDE DEF t, new, s, l, n
<1>5. /\ s \in Seq(Org) /\ Len(s) = Len(new) + Len(t)
      /\ \A i \in 1..Len(new) : s[i] = new[i]
      /\ \A i \in 1..Len(t) : s[Len(new) + i] = t[i]
  BY <1>1, <1>3, <1>4, JoinedLabels
<1>6. n = Len(new)
  BY DEF n
<1>7. /\ s \in Seq(Org) /\ Len(s) = n + Len(P[d]) - l /\ Len(s) >= n
      /\ \A i \in 1..n : s[i] = new[i]
      /\ \A i \in 1..(Len(P[d]) - l) : s[n + i] = P[d][l + i]
  <2>1. s \in Seq(Org) /\ Len(s) = n + Len(P[d]) - l /\ Len(s) >= n
    BY <1>2, <1>4, <1>5, <1>6
  <2>2. \A i \in 1..n : s[i] = new[i]
    BY <1>5, <1>6
  <2>3. ASSUME NEW i \in 1..(Len(P[d]) - l) PROVE s[n + i] = P[d][l + i]
    <3>1. t[i] = P[d][l + i]
      BY <1>4
    <3>2. i \in 1..Len(t)
      BY <1>4
    <3>3. QED BY <1>5, <1>6, <3>1, <3>2
  <2>4. QED BY <2>1, <2>2, <2>3
<1>8. QED BY <1>7 DEF s, n, new, l

(* A move keeps the forest a forest, and moves just what is below o. *)
LEMMA MoveForest ==
  ASSUME NEW P \in Paths, IsForest(P), NEW o \in Org, NEW par \in Org \cup {NoOrg},
         par # NoOrg => ~Above(P[o], P[par]), NewPath(P, o, par) # P[o]
  PROVE  LET Q == Cascade(P, o, par) IN Q \in Paths /\ IsForest(Q) /\ Moved(P, Q, o)
<1> DEFINE Q == Cascade(P, o, par)
           new == NewPath(P, o, par)
           l == Len(P[o])
           n == Len(new)
           Under(d) == Above(P[o], P[d])
<1>1. l = Len(P[o]) /\ n = Len(new)
  OBVIOUS
<1>2. \A d \in Org : P[d] \in Seq(Org) /\ Len(P[d]) \in Nat
  BY DEF Paths
<1>3. /\ new \in Seq(Org) /\ n \in Nat /\ n > 0 /\ new[n] = o
      /\ \A i \in 1..(n - 1) :
           par # NoOrg /\ par \in Org /\ i \in 1..Len(P[par]) /\ new[i] = P[par][i]
  <2> HIDE DEF new, n
  <2>1. EndsBelow(new, P, o, par)
    BY NewPathIs DEF new
  <2>2. QED BY <1>1, <2>1 DEF EndsBelow
<1>4. l \in Nat /\ l > 0 /\ P[o][l] = o
  BY <1>2, ForestAbove
<1>5. ASSUME NEW d \in Org, ~Under(d) PROVE Q[d] = P[d]
  BY <1>5 DEF Cascade
<1>6. ASSUME NEW d \in Org, Under(d)
      PROVE  /\ Q[d] \in Seq(Org) /\ Len(Q[d]) = n + Len(P[d]) - l /\ Len(Q[d]) >= n
             /\ \A i \in 1..n : Q[d][i] = new[i]
             /\ \A i \in 1..(Len(P[d]) - l) : Q[d][n + i] = P[d][l + i]
             /\ l <= Len(P[d]) /\ P[d][l] = o
  <2>1. l <= Len(P[d]) /\ P[d][l] = o
    BY <1>6, ForestAbove
  <2>2. QED BY <1>6, <2>1, CascadeLabels
<1>7. Q \in Paths
  <2>1. ASSUME NEW d \in Org PROVE Q[d] \in Seq(Org)
    BY <1>2, <1>5, <1>6
  <2>2. QED BY <2>1 DEF Cascade, Paths
<1> HIDE DEF Q, new, n, l
<1>8. Under(o)
  BY <1>2, AboveAbove
<1>9. Q[o] = new
  <2>1. Q[o] \in Seq(Org) /\ Len(Q[o]) = n + Len(P[o]) - l /\ \A i \in 1..n : Q[o][i] = new[i]
    BY <1>6, <1>8
  <2>2. Len(Q[o]) = n
    BY <1>1, <1>3, <1>4, <2>1
  <2>3. QED BY <1>3, <1>1, <2>1, <2>2, SamePath
(* The ancestors in the path of a row that is not moved are not moved, and
   what is moved with a row stands below o in its path. *)
<1>10. ASSUME NEW d \in Org, NEW i \in 1..Len(P[d])
      PROVE  /\ P[d][i] \in Org /\ P[P[d][i]] = SubSeq(P[d], 1, i)
             /\ Under(P[d][i]) => Under(d)
             /\ Under(d) /\ i >= l => Under(P[d][i])
  <2>1. P[d][i] \in Org
    BY <1>2
  <2>2. P[P[d][i]] = SubSeq(P[d], 1, i)
    BY DEF IsForest
  <2>3. Above(P[P[d][i]], P[d]) /\ Len(P[P[d][i]]) = i
    BY <1>2, <2>2, FirstLabels
  <2>4. P[P[d][i]] \in Seq(Org)
    BY <1>2, <2>1
  <2>5. Under(P[d][i]) => Under(d)
    BY <1>2, <2>3, <2>4, AboveAbove
  <2>6. Under(d) /\ i >= l => Under(P[d][i])
    BY <1>1, <1>2, <2>3, <2>4, AboveAbove
  <2>7. QED BY <2>1, <2>2, <2>5, <2>6
<1>11. ASSUME NEW d \in Org, Under(d)
       PROVE  /\ Len(Q[d]) > 0 /\ Q[d][Len(Q[d])] = d
              /\ \A i \in 1..Len(Q[d]) : Q[Q[d][i]] = SubSeq(Q[d], 1, i)
  <2> USE <1>11
  <2>1. P[d][Len(P[d])] = d /\ Len(P[d]) > 0
    BY ForestAbove
  <2>2. Q[d][Len(Q[d])] = d
    <3>1. CASE Len(P[d]) = l
      <4>1. d = o
        BY <1>1, <1>6, <2>1, <3>1
      <4>2. QED BY <1>1, <1>3, <1>9, <4>1
    <3>2. CASE Len(P[d]) # l
      <4>1. Len(P[d]) - l \in 1..(Len(P[d]) - l)
        BY <1>2, <1>4, <1>6, <3>2
      <4>2. Q[d][n + (Len(P[d]) - l)] = P[d][l + (Len(P[d]) - l)]
        BY <1>6, <4>1
      <4>3. QED BY <1>2, <1>3, <1>4, <1>6, <2>1, <4>2
    <3>3. QED BY <3>1, <3>2
  <2>3. ASSUME NEW i \in 1..Len(Q[d]) PROVE Q[Q[d][i]] = SubSeq(Q[d], 1, i)
    <3> DEFINE e == Q[d][i]
               q == SubSeq(Q[d], 1, i)
    <3>1. q \in Seq(Org) /\ Len(q) = i /\ \A j \in 1..i : q[j] = Q[d][j]
      BY <1>6, FirstLabels
    <3>2. e \in Org /\ Q[e] \in Seq(Org) /\ e = Q[d][i]
      BY <1>6, <1>7 DEF Paths
    <3> HIDE DEF q, e
    <3>3. CASE i < n
      <4>1. i \in 1..(n - 1) /\ i \in 1..n
        BY <1>3, <3>3
      <4>2. par # NoOrg /\ par \in Org /\ i \in 1..Len(P[par]) /\ e = P[par][i]
        BY <1>3, <1>6, <3>2, <4>1
      <4>3. ~Under(e) /\ P[e] = SubSeq(P[par], 1, i)
        BY <1>10, <4>2
      <4>4. Q[e] = P[e]
        BY <1>5, <3>2, <4>3
      <4>5. Len(Q[e]) = i /\ \A j \in 1..i : Q[e][j] = P[par][j]
        BY <1>2, <4>2, <4>3, <4>4, FirstLabels
      <4>6. \A j \in 1..i : j \in 1..(n - 1) /\ j \in 1..n
        BY <1>3, <4>1
      <4>7. ASSUME NEW j \in 1..i PROVE Q[e][j] = q[j]
        <5>1. j \in 1..(n - 1) /\ j \in 1..n
          BY <4>6
        <5>2. q[j] = new[j] /\ new[j] = P[par][j]
          BY <1>3, <1>6, <3>1, <5>1
        <5>3. QED BY <4>5, <5>2
      <4>8. Q[e] = q
        BY <3>1, <3>2, <4>5, <4>7, SamePath
      <4>9. QED BY <4>8 DEF q, e
    <3>4. CASE i = n
      <4>1. e = o
        BY <1>3, <1>6, <3>2, <3>4
      <4>2. \A j \in 1..i : Q[e][j] = q[j]
        BY <1>6, <1>9, <3>1, <3>4, <4>1
      <4>3. Len(Q[e]) = i
        BY <1>1, <1>9, <3>4, <4>1
      <4>4. Q[e] = q
        BY <3>1, <3>2, <4>2, <4>3, SamePath
      <4>5. QED BY <4>4 DEF q, e
    <3>5. CASE i > n
      <4> DEFINE k == i - n
      <4>1. k \in 1..(Len(P[d]) - l) /\ n + k = i /\ k \in Nat /\ k > 0
        BY <1>2, <1>3, <1>4, <1>6, <3>5
      <4>2. e = P[d][l + k]
        BY <1>6, <3>2, <4>1
      <4>3. l + k \in 1..Len(P[d]) /\ l + k >= l
        BY <1>2, <1>4, <4>1
      <4>4. Under(e) /\ P[e] = SubSeq(P[d], 1, l + k)
        BY <1>10, <4>2, <4>3
      <4>5. Len(P[e]) = l + k /\ \A j \in 1..(l + k) : P[e][j] = P[d][j]
        BY <1>2, <4>3, <4>4, FirstLabels
      <4>6. Len(Q[e]) = i
        <5>1. Len(Q[e]) = n + Len(P[e]) - l
          BY <1>6, <3>2, <4>4
        <5>2. QED BY <1>3, <1>4, <4>1, <4>5, <5>1
      <4>7. ASSUME NEW j \in 1..i PROVE Q[e][j] = q[j]
        <5>1. CASE j <= n
          <6>1. j \in 1..n
            BY <1>3, <5>1
          <6>2. Q[e][j] = new[j] /\ Q[d][j] = new[j]
            BY <1>6, <3>2, <4>4, <6>1
          <6>3. QED BY <3>1, <6>2
        <5>2. CASE j > n
          <6>1. j - n \in 1..k /\ n + (j - n) = j /\ l + (j - n) \in 1..(l + k)
            BY <1>3, <1>4, <5>2
          <6>2. j - n \in 1..(Len(P[e]) - l) /\ j - n \in 1..(Len(P[d]) - l)
            BY <1>1, <1>2, <1>4, <4>1, <4>5, <6>1
          <6>3. Q[e][n + (j - n)] = P[e][l + (j - n)]
            BY <1>6, <3>2, <4>4, <6>2
          <6>4. Q[d][n + (j - n)] = P[d][l + (j - n)]
            BY <1>6, <6>2
          <6>5. P[e][l + (j - n)] = P[d][l + (j - n)]
            BY <4>5, <6>1
          <6>6. QED BY <3>1, <6>1, <6>3, <6>4, <6>5
        <5>3. QED BY <1>3, <5>1, <5>2
      <4>8. Q[e] = q
        BY <3>1, <3>2, <4>6, <4>7, SamePath
      <4>9. QED BY <4>8 DEF q, e
    <3>6. QED BY <1>3, <3>3, <3>4, <3>5
  <2>4. Len(Q[d]) > 0
    BY <1>3, <1>6
  <2>5. QED BY <2>2, <2>3, <2>4
<1>12. ASSUME NEW d \in Org, ~Under(d)
       PROVE  /\ Len(Q[d]) > 0 /\ Q[d][Len(Q[d])] = d
              /\ \A i \in 1..Len(Q[d]) : Q[Q[d][i]] = SubSeq(Q[d], 1, i)
  <2>1. Q[d] = P[d]
    BY <1>5, <1>12
  <2>2. Len(P[d]) > 0 /\ P[d][Len(P[d])] = d
    BY ForestAbove
  <2>3. ASSUME NEW i \in 1..Len(P[d]) PROVE Q[P[d][i]] = SubSeq(P[d], 1, i)
    <3>1. P[d][i] \in Org /\ P[P[d][i]] = SubSeq(P[d], 1, i) /\ ~Under(P[d][i])
      BY <1>10, <1>12
    <3>2. QED BY <1>5, <3>1
  <2>4. QED BY <2>1, <2>2, <2>3
<1>13. IsForest(Q)
  BY <1>11, <1>12 DEF IsForest
<1>14. ASSUME NEW d \in Org, Under(d) PROVE Above(Q[o], Q[d])
  <2>1. n <= Len(Q[d]) /\ Q[d] \in Seq(Org) /\ \A i \in 1..n : Q[o][i] = Q[d][i]
    BY <1>1, <1>6, <1>9, <1>14
  <2>2. QED BY <1>1, <1>3, <1>9, <2>1, AboveIs
<1>15. ASSUME NEW d \in Org, Above(Q[o], Q[d]) PROVE Under(d)
  <2> SUFFICES ASSUME ~Under(d) PROVE FALSE
    OBVIOUS
  <2>1. Q[d] = P[d]
    BY <1>5
  <2>2. n <= Len(P[d]) /\ P[d][n] = o
    BY <1>1, <1>2, <1>3, <1>9, <1>15, <2>1, AboveIs
  <2>3. n \in 1..Len(P[d])
    BY <1>2, <1>3, <2>2
  <2>4. QED BY <1>8, <1>10, <2>2, <2>3
<1>16. Moved(P, Q, o)
  <2>1. Q[o] # P[o]
    BY <1>9 DEF new
  <2>2. QED BY <1>5, <1>14, <1>15, <2>1 DEF Moved
<1>17. QED BY <1>7, <1>13, <1>16 DEF Q

-----------------------------------------------------------------------------
(* The scope that a tree gives, as a function of its paths.                *)

Up(P, m) == {a \in Org \ Virtual : Above(P[a], P[m])}
IsNearest(P, m, a) == a \in Up(P, m) /\ \A b \in Up(P, m) : Len(P[b]) <= Len(P[a])
AnchorIn(P, m) ==
  LET higher == {a \in Org \ Virtual : Above(P[a], P[m])} IN
  IF higher = {} THEN NoOrg ELSE CHOOSE a \in higher : \A b \in higher : Len(P[b]) <= Len(P[a])
MineIn(P, u) == {m \in Org : row[u][m].role # "none" /\ AnchorIn(P, m) # NoOrg}
ScopeIn(P, u) ==
  [anchors |-> {P[a] : a \in {AnchorIn(P, m) : m \in MineIn(P, u)} \ opaque},
   groups |-> {P[m] : m \in {m \in MineIn(P, u) : row[u][m].scope = "group"}},
   all |-> \E m \in MineIn(P, u) : row[u][m].scope = "all"]

LEMMA NearestExists ==
  ASSUME NEW P \in Paths, NEW m \in Org, Up(P, m) # {}
  PROVE  \E a \in Org : IsNearest(P, m, a)
<1> DEFINE T == {Len(P[m]) - Len(P[a]) : a \in Up(P, m)}
<1>1. \A a \in Up(P, m) : /\ a \in Org /\ Len(P[a]) \in Nat /\ Len(P[m]) \in Nat
                          /\ Len(P[a]) <= Len(P[m])
  BY AboveIs DEF Up, Paths
<1>2. T \subseteq Nat /\ T # {}
  <2>1. ASSUME NEW x \in Up(P, m) PROVE Len(P[m]) - Len(P[x]) \in Nat
    BY <1>1
  <2>2. QED BY <2>1
<1>3. PICK n \in T : \A k \in T : ~(<<k, n>> \in OpToRel(<, Nat))
  BY <1>2, NatLessThanWellFounded, WFMin
<1>4. \A k \in T : ~(k < n)
  BY <1>2, <1>3 DEF OpToRel
<1>5. PICK a \in Up(P, m) : n = Len(P[m]) - Len(P[a])
  BY <1>3
<1>6. ASSUME NEW b \in Up(P, m) PROVE Len(P[b]) <= Len(P[a])
  <2>1. Len(P[m]) - Len(P[b]) \in T
    OBVIOUS
  <2>2. ~(Len(P[m]) - Len(P[b]) < Len(P[m]) - Len(P[a]))
    BY <1>4, <1>5, <2>1
  <2>3. Len(P[b]) \in Nat /\ Len(P[a]) \in Nat /\ Len(P[m]) \in Nat
    BY <1>1
  <2>4. \A x, y, z \in Nat : ~(z - x < z - y) => x <= y
    OBVIOUS
  <2> HIDE DEF T
  <2>5. QED BY <2>2, <2>3, <2>4
<1>7. QED BY <1>1, <1>5, <1>6 DEF IsNearest

(* The anchor of o is the nearest entity of its path. *)
LEMMA AnchorIs ==
  ASSUME NEW P \in Paths, NEW m \in Org
  PROVE  /\ AnchorIn(P, m) # NoOrg => IsNearest(P, m, AnchorIn(P, m))
         /\ AnchorIn(P, m) # NoOrg <=> Up(P, m) # {}
<1>1. CASE Up(P, m) = {}
  BY <1>1 DEF AnchorIn, Up
<1>2. CASE Up(P, m) # {}
  <2>1. AnchorIn(P, m) = CHOOSE a \in Up(P, m) : \A b \in Up(P, m) : Len(P[b]) <= Len(P[a])
    BY <1>2 DEF AnchorIn, Up
  <2>2. \E a \in Up(P, m) : \A b \in Up(P, m) : Len(P[b]) <= Len(P[a])
    BY <1>2, NearestExists DEF IsNearest
  <2>3. IsNearest(P, m, AnchorIn(P, m))
    BY <2>1, <2>2 DEF IsNearest
  <2>4. AnchorIn(P, m) # NoOrg
    BY <2>3, AccessAssumption DEF IsNearest, Up
  <2>5. QED BY <1>2, <2>3, <2>4
<1>3. QED BY <1>1, <1>2

LEMMA NearestIsUnique ==
  ASSUME NEW P \in Paths, IsForest(P), NEW m \in Org, NEW a, NEW b,
         IsNearest(P, m, a), IsNearest(P, m, b)
  PROVE  a = b
<1>1. /\ a \in Org /\ b \in Org /\ Above(P[a], P[m]) /\ Above(P[b], P[m])
      /\ Len(P[a]) <= Len(P[b]) /\ Len(P[b]) <= Len(P[a])
  BY DEF IsNearest, Up
<1>2. Len(P[a]) = Len(P[b])
  BY <1>1 DEF Paths
<1>3. P[m][Len(P[a])] = a /\ P[m][Len(P[b])] = b
  BY <1>1, ForestAbove
<1>4. QED BY <1>2, <1>3

(* Where two trees agree on a path, they agree on its anchor. *)
LEMMA SameAnchor ==
  ASSUME NEW P \in Paths, IsForest(P), NEW Q \in Paths, IsForest(Q), NEW m \in Org, P[m] = Q[m]
  PROVE  /\ AnchorIn(P, m) = AnchorIn(Q, m)
         /\ AnchorIn(P, m) # NoOrg => P[AnchorIn(P, m)] = Q[AnchorIn(P, m)]
<1>1. ASSUME NEW a \in Up(P, m) PROVE a \in Up(Q, m) /\ P[a] = Q[a]
  <2>1. a \in Org /\ Above(P[a], Q[m])
    BY DEF Up
  <2>2. P[a] = Q[a]
    BY <2>1, SharedPath
  <2>3. QED BY <2>2 DEF Up
<1>2. ASSUME NEW a \in Up(Q, m) PROVE a \in Up(P, m)
  <2>1. a \in Org /\ Above(Q[a], P[m])
    BY DEF Up
  <2>2. P[a] = Q[a]
    BY <2>1, SharedPath
  <2>3. QED BY <2>2 DEF Up
<1>3. Up(P, m) = Up(Q, m)
  BY <1>1, <1>2
<1>4. CASE Up(P, m) = {}
  BY <1>3, <1>4 DEF AnchorIn, Up
<1>5. CASE Up(P, m) # {}
  <2>1. IsNearest(P, m, AnchorIn(P, m)) /\ IsNearest(Q, m, AnchorIn(Q, m))
    BY <1>3, <1>5, AnchorIs
  <2>2. IsNearest(P, m, AnchorIn(Q, m))
    BY <1>1, <1>3, <2>1 DEF IsNearest
  <2>3. AnchorIn(P, m) = AnchorIn(Q, m)
    BY <2>1, <2>2, NearestIsUnique
  <2>4. QED BY <1>1, <2>1, <2>3 DEF IsNearest
<1>6. QED BY <1>4, <1>5

(* A group path of one tree above a path of another is one of the other's. *)
LEMMA MixedGroups ==
  ASSUME NEW P \in Paths, IsForest(P), NEW Q \in Paths, IsForest(Q), NEW u, NEW d \in Org,
         PathInAnchors(P[d], ScopeIn(Q, u).groups)
  PROVE  PathInAnchors(P[d], ScopeIn(P, u).groups)
<1>1. PICK m \in MineIn(Q, u) : row[u][m].scope = "group" /\ Above(Q[m], P[d])
  BY DEF PathInAnchors, ScopeIn
<1>2. m \in Org /\ row[u][m].role # "none" /\ AnchorIn(Q, m) # NoOrg
  BY DEF MineIn
<1>3. P[m] = Q[m]
  BY <1>1, <1>2, SharedPath
<1>4. m \in MineIn(P, u)
  BY <1>2, <1>3, SameAnchor DEF MineIn
<1>5. P[m] \in ScopeIn(P, u).groups
  BY <1>1, <1>4 DEF ScopeIn
<1>6. QED BY <1>1, <1>3, <1>5 DEF PathInAnchors

(* What is moved has another path then. *)
LEMMA MovedIsElsewhere ==
  ASSUME NEW P \in Paths, IsForest(P), NEW Q \in Paths, IsForest(Q), NEW o \in Org,
         Moved(P, Q, o), NEW d \in Org, P[d] = Q[d]
  PROVE  ~Above(P[o], P[d])
<1> SUFFICES ASSUME Above(P[o], P[d]) PROVE FALSE
  OBVIOUS
<1>1. Above(Q[o], P[d])
  BY DEF Moved
<1>2. P[o] = Q[o]
  BY <1>1, SharedPath
<1>3. QED BY <1>2 DEF Moved

(* An anchor of one tree above a path of the other puts no right together:
   either is the path below an anchor in its own tree, or the path that the
   place has in the tree of the anchor. *)
LEMMA MixedAnchors ==
  ASSUME NEW P \in Paths, IsForest(P), NEW Q \in Paths, IsForest(Q), NEW o \in Org,
         Moved(P, Q, o), NEW u, NEW d \in Org,
         PathInAnchors(P[d], ScopeIn(Q, u).anchors)
  PROVE  \/ PathInAnchors(P[d], ScopeIn(P, u).anchors)
         \/ PathInAnchors(Q[d], ScopeIn(Q, u).anchors)
<1>1. \A x \in Org : P[x] \in Seq(Org) /\ Q[x] \in Seq(Org)
  BY DEF Paths
<1>2. PICK m \in MineIn(Q, u) : AnchorIn(Q, m) \notin opaque /\ Above(Q[AnchorIn(Q, m)], P[d])
  BY DEF PathInAnchors, ScopeIn
<1> DEFINE a == AnchorIn(Q, m)
<1>3. m \in Org /\ row[u][m].role # "none" /\ a # NoOrg
  BY DEF MineIn
<1>4. a \in Org /\ Above(Q[a], Q[m])
  BY <1>3, AnchorIs DEF IsNearest, Up
<1>5. Q[a] \in ScopeIn(Q, u).anchors
  BY <1>2 DEF ScopeIn
<1> HIDE DEF a
<1>6. P[a] = Q[a]
  BY <1>2, <1>4, SharedPath DEF a
<1>7. ~Above(P[o], P[a]) /\ ~Above(Q[o], Q[a])
  BY <1>4, <1>6, MovedIsElsewhere, MovedBack
<1>8. CASE ~Above(P[o], P[d])
  <2>1. Above(Q[a], Q[d])
    BY <1>2, <1>8 DEF Moved, a
  <2>2. QED BY <1>5, <2>1 DEF PathInAnchors
<1>9. CASE Above(P[o], P[d]) /\ Above(P[o], P[m])
  <2>1. Above(Q[o], Q[d]) /\ Above(Q[o], Q[m])
    BY <1>3, <1>9 DEF Moved
  <2>2. Above(Q[a], Q[o])
    <3>1. Len(Q[a]) \in Nat /\ Len(Q[o]) \in Nat
      BY <1>1, <1>4
    <3>2. Len(Q[a]) <= Len(Q[o]) \/ Len(Q[o]) <= Len(Q[a])
      BY <3>1
    <3>3. QED BY <1>1, <1>3, <1>4, <1>7, <2>1, <3>2, AboveAbove
  <2>3. Above(Q[a], Q[d])
    BY <1>1, <1>4, <2>1, <2>2, AboveAbove
  <2>4. QED BY <1>5, <2>3 DEF PathInAnchors
<1>10. CASE ~Above(P[o], P[m])
  <2>1. P[m] = Q[m]
    BY <1>3, <1>10 DEF Moved
  <2>2. AnchorIn(P, m) = a
    BY <1>3, <2>1, SameAnchor DEF a
  <2>3. m \in MineIn(P, u)
    BY <1>3, <2>2 DEF MineIn
  <2>4. P[a] \in ScopeIn(P, u).anchors
    BY <1>2, <2>2, <2>3 DEF ScopeIn, a
  <2>5. Above(P[a], P[d])
    BY <1>2, <1>6 DEF a
  <2>6. QED BY <2>4, <2>5 DEF PathInAnchors
<1>11. QED BY <1>8, <1>9, <1>10

-----------------------------------------------------------------------------
(* The inductive invariant.                                                *)

TicketRow == [org : Org \cup {NoOrg}, creator : User \cup {Nobody}, assignee : User \cup {Nobody},
              path : Seq(Org)]
Scope == [anchors : SUBSET Seq(Org), groups : SUBSET Seq(Org), all : BOOLEAN]
Membership == [role : {"none", "member", "admin", "owner"}, scope : {"assigned", "group", "all"}]
AccessPc == {"idle", "roles", "ticket", "scope", "admin", "ancestor", "query", "global", "manage", "insert", "done"}
AccessAnswer == {"none", "ok", "forbidden", "hidden", "failed", "refused"}
AccessRequest ==
  [act : Verb, pc : AccessPc, step : Verb, user : User \cup {Nobody}, ticket : Ticket \cup {Nobody},
   org : Org \cup {NoOrg}, copy : TicketRow, scope : Scope, phase : {"see", "operate"},
   during : Nat, could : SUBSET (Verb \X (Ticket \cup Org)), answer : AccessAnswer,
   shown : SUBSET (Ticket \cup {"public", "internal"})]
TablesTyped ==
  /\ path \in Paths /\ IsForest(path)
  /\ opaque \subseteq Org /\ owners \in [Org -> SUBSET User]
  /\ row \in [User -> [Org -> Membership]]
  /\ ticket \in [Ticket -> TicketRow]

(* What a request can be at a step. *)
AboutTicket(r) == r.act \notin {"list", "create"}
Underway(r) == r.pc \notin {"idle", "done"}
Shaped(r) ==
  /\ r.pc # "done" => r.answer = "none"
  /\ Underway(r) =>
       /\ r.user \in User
       /\ r.act # "list" => r.ticket \in Ticket
       /\ r.act = "create" => r.org \in Org
       /\ r.pc \in {"ticket", "admin", "ancestor"} => AboutTicket(r) /\ r.user \notin Admin
       /\ r.pc = "scope" => r.act # "create" /\ r.user \notin Admin
       /\ r.pc = "query" => r.act = "list"
       /\ r.pc \in {"global", "manage", "insert"} => r.act = "create"
       /\ r.act = "comments" => r.step \in {"read", "note"}
       /\ r.act = "relations" => r.step = "read"
       /\ r.act \in Action => r.step = r.act
AccessTypes ==
  /\ TablesTyped
  /\ req \in AccessRequest /\ Shaped(req)
  /\ changes \in 0..MaxChange /\ req.during \in 0..changes

Judged(r) == Underway(r) /\ r.user \notin Admin
Now(r) == {w \in Asked(r) : Allowed(r.user, w)}
Visible(r) ==
  IsOwner(r.user, r.copy) \/ r.scope.all \/ PathInAnchors(r.copy.path, ReadPaths(r.scope))

(* As long as nothing has changed, what was read is the present, and what  *)
(* was asked already is known.                                             *)
Known(r) ==
  /\ r.pc \in {"scope", "admin", "ancestor"} /\ r.act # "list" =>
       Exists(r.ticket) /\ r.copy = Row(r.ticket)
  /\ r.pc \in {"admin", "ancestor", "query"} => r.scope = Resolve(r.user)
  /\ r.pc \in {"admin", "ancestor"} =>
       IF r.phase = "see" THEN ~Visible(r) ELSE ~CanOperate(r) /\ Rule(r.user, "read", r.ticket)
  /\ r.pc = "ancestor" => ~IsOrgAdminOrOwner(r.user, r.copy.org)
  /\ r.act = "comments" /\ r.step = "note" => Rule(r.user, "read", r.ticket)
  /\ r.pc \in {"global", "manage"} => ~IsInOrgBranch(r.user, r.org)
  /\ r.pc = "insert" => MayCreate(r.user, r.org)

(* The rights that a copy of the ticket and a scope give the user of r.    *)
Rights(r, A) == (A \X {r.ticket}) \cap Asked(r) \subseteq r.could
OwnRights(r) ==
  /\ r.copy.creator = r.user => Rights(r, {"read", "comment", "note", "close", "update"})
  /\ r.copy.assignee = r.user => Rights(r, {"read", "comment", "note", "close"})
ScopeRights(r, s) ==
  /\ s.all => Rights(r, {"read", "comment", "assign"})
  /\ PathInAnchors(r.copy.path, ReadPaths(s)) => Rights(r, {"read", "comment"})
  /\ PathInAnchors(r.copy.path, s.groups) => Rights(r, {"assign"})
DelegatedRights(r) ==
  IsOrgAdminOrOwner(r.user, r.copy.org) \/ IsAncestorOwner(r.user, r.copy.org, r.copy.path)
    => Asked(r) \subseteq r.could

(* After one change, whatever the reads so far and the reads to come can   *)
(* grant was allowed before the change or is allowed after it.             *)
Promised(r) ==
  /\ r.pc \in {"scope", "admin", "ancestor"} /\ r.act # "list" =>
       /\ OwnRights(r) /\ DelegatedRights(r)
       /\ ScopeRights(r, IF r.pc = "scope" THEN Resolve(r.user) ELSE r.scope)
  /\ r.act = "comments" /\ r.step = "note" => <<"read", r.ticket>> \in r.could
  /\ r.pc = "query" => \A k \in Matches(r.user, r.scope) : <<"read", k>> \in r.could
  /\ r.pc = "insert" => <<"create", r.org>> \in r.could

Present == Judged(req) =>
  Now(req) \subseteq req.could /\ (req.during = 0 => req.could = Now(req) /\ Known(req))
Prospect == Judged(req) /\ req.during <= 1 => Promised(req)
AccessInv == AccessTypes /\ Present /\ Prospect /\ GrantedWasAllowed /\ UndisturbedIsExact

-----------------------------------------------------------------------------
(* What a request asks and what an answer shows.                           *)

LEMMA AskedIs ==
  ASSUME NEW r, r.act \in Verb
  PROVE  /\ r.act = "list" => Asked(r) = {"read"} \X Ticket
         /\ r.act = "comments" => Asked(r) = {"read", "note"} \X {r.ticket}
         /\ r.act = "relations" => Asked(r) = {"read"} \X {r.ticket}
         /\ r.act = "create" => Asked(r) = {"create"} \X {r.org}
         /\ r.act \in Action => Asked(r) = {r.act, "read"} \X {r.ticket}
         /\ r.act \in Action \/ r.act \in {"list", "comments", "relations", "create"}
<1> USE DEF Asked, Verb, Action
<1>1. r.act \in Action \/ r.act \in {"list", "comments", "relations", "create"}
  OBVIOUS
<1>2. r.act = "list" => Asked(r) = {"read"} \X Ticket
  OBVIOUS
<1>3. r.act = "comments" => Asked(r) = {"read", "note"} \X {r.ticket}
  OBVIOUS
<1>4. r.act = "relations" => Asked(r) = {"read"} \X {r.ticket}
  OBVIOUS
<1>5. r.act = "create" => Asked(r) = {"create"} \X {r.org}
  OBVIOUS
<1>6. r.act \in Action => Asked(r) = {r.act, "read"} \X {r.ticket}
  OBVIOUS
<1>7. QED BY <1>1, <1>2, <1>3, <1>4, <1>5, <1>6

(* Requests that agree on what is asked. *)
LEMMA AskedSame ==
  ASSUME NEW q, NEW r, q.act = r.act, q.ticket = r.ticket, q.org = r.org
  PROVE  Asked(q) = Asked(r)
BY DEF Asked

LEMMA AskedOfTicket ==
  ASSUME NEW r, r.act \in Verb, Shaped(r), Underway(r), AboutTicket(r)
  PROVE  /\ r.step \in Action /\ r.ticket \in Ticket /\ r.user \in User
         /\ <<r.step, r.ticket>> \in Asked(r) /\ <<"read", r.ticket>> \in Asked(r)
         /\ \A w \in Asked(r) : w = <<w[1], r.ticket>> /\ w[1] \in Action
<1>1. r.act \in Action \cup {"comments", "relations"}
  BY AskedIs DEF AboutTicket
<1>2. r.ticket \in Ticket /\ r.user \in User
  BY <1>1 DEF Shaped, AboutTicket
<1>3. CASE r.act \in Action
  <2>1. r.step = r.act /\ Asked(r) = {r.act, "read"} \X {r.ticket}
    BY <1>3, AskedIs DEF Shaped
  <2>2. QED BY <1>2, <1>3, <2>1 DEF Action
<1>4. CASE r.act = "comments"
  <2>1. r.step \in {"read", "note"} /\ Asked(r) = {"read", "note"} \X {r.ticket}
    BY <1>4, AskedIs DEF Shaped
  <2>2. QED BY <1>2, <2>1 DEF Action
<1>5. CASE r.act = "relations"
  <2>1. r.step = "read" /\ Asked(r) = {"read"} \X {r.ticket}
    BY <1>5, AskedIs DEF Shaped
  <2>2. QED BY <1>2, <2>1 DEF Action
<1>6. QED BY <1>1, <1>3, <1>4, <1>5

-----------------------------------------------------------------------------
(* What the reads return and what the rules say.                           *)

(* resolve, on the present tree. *)
LEMMA ResolveIs ==
  ASSUME NEW u
  PROVE  Resolve(u) = ScopeIn(path, u)
BY DEF Resolve, ScopeIn, MineIn, Anchor, AnchorIn

LEMMA ResolveTyped ==
  ASSUME TablesTyped, NEW u
  PROVE  Resolve(u) \in Scope
<1>1. \A m \in Org : AnchorIn(path, m) # NoOrg => AnchorIn(path, m) \in Org
  BY AnchorIs DEF TablesTyped, IsNearest, Up
<1>2. ScopeIn(path, u).anchors \subseteq Seq(Org)
  BY <1>1 DEF ScopeIn, MineIn, TablesTyped, Paths
<1>3. ScopeIn(path, u).groups \subseteq Seq(Org)
  BY DEF ScopeIn, MineIn, TablesTyped, Paths
<1>4. QED BY <1>2, <1>3, ResolveIs DEF ScopeIn, Scope

LEMMA RowIs ==
  ASSUME TablesTyped, NEW k \in Ticket, Exists(k)
  PROVE  /\ Row(k) \in TicketRow /\ ticket[k].org \in Org
         /\ Row(k).org = ticket[k].org /\ Row(k).path = path[ticket[k].org]
         /\ Row(k).creator = ticket[k].creator /\ Row(k).assignee = ticket[k].assignee
<1>1. ticket[k] \in TicketRow /\ ticket[k].org # NoOrg
  BY DEF TablesTyped, Exists
<1>2. PICK t \in TicketRow : t = ticket[k]
  BY <1>1
<1>3. t.org \in Org /\ path[t.org] \in Seq(Org)
  BY <1>1, <1>2 DEF TicketRow, TablesTyped, Paths
<1>4. Row(k) = [t EXCEPT !.path = path[t.org]]
  BY <1>2 DEF Row, Exists
<1>5. [t EXCEPT !.path = path[t.org]] \in TicketRow
  BY <1>3 DEF TicketRow
<1>6. /\ [t EXCEPT !.path = path[t.org]].org = t.org
      /\ [t EXCEPT !.path = path[t.org]].path = path[t.org]
      /\ [t EXCEPT !.path = path[t.org]].creator = t.creator
      /\ [t EXCEPT !.path = path[t.org]].assignee = t.assignee
  BY DEF TicketRow
<1>7. QED BY <1>2, <1>3, <1>4, <1>5, <1>6

(* Delegation, as the two reads of it find it. *)
Delegates(r) ==
  IsOrgAdminOrOwner(r.user, r.copy.org) \/ IsAncestorOwner(r.user, r.copy.org, r.copy.path)

(* The rules, in the terms of a request that has read the present. *)
LEMMA RuleIs ==
  ASSUME TablesTyped, NEW r, r.user \notin Admin, r.ticket \in Ticket, Exists(r.ticket),
         r.copy = Row(r.ticket), r.scope = Resolve(r.user), r.step \in Action
  PROVE  /\ Delegates(r) => \A a \in Verb : Rule(r.user, a, r.ticket)
         /\ Visible(r) => Rule(r.user, "read", r.ticket)
         /\ Visible(r) /\ CanOperate(r) => Rule(r.user, r.step, r.ticket)
         /\ Rule(r.user, "read", r.ticket) => Visible(r) \/ Delegates(r)
         /\ Rule(r.user, r.step, r.ticket) => (Visible(r) /\ CanOperate(r)) \/ Delegates(r)
<1> DEFINE k == r.ticket
<1>1. /\ r.copy.org = ticket[k].org /\ r.copy.path = Row(k).path
      /\ r.copy.creator = ticket[k].creator /\ r.copy.assignee = ticket[k].assignee
  BY RowIs
<1>2. Delegates(r) <=> Delegated(r.user, k)
  BY <1>1 DEF Delegates, Delegated
<1>3. IsOwner(r.user, r.copy) <=> ticket[k].creator = r.user \/ ticket[k].assignee = r.user
  BY <1>1 DEF IsOwner
<1>4. Delegates(r) => \A a \in Verb : Rule(r.user, a, k)
  BY <1>2 DEF Rule
<1>5. Visible(r) => Rule(r.user, "read", k)
  BY <1>1, <1>3 DEF Rule, Visible
<1>6. Rule(r.user, "read", k) => Visible(r) \/ Delegates(r)
  BY <1>1, <1>2, <1>3 DEF Rule, Visible
<1>7. PathInAnchors(Row(k).path, r.scope.groups) => PathInAnchors(Row(k).path, ReadPaths(r.scope))
  BY DEF PathInAnchors, ReadPaths
<1>8. CASE r.step \in {"read", "comment"}
  <2>1. CanOperate(r)
    BY <1>8 DEF CanOperate
  <2>2. Visible(r) => Rule(r.user, r.step, k)
    BY <1>1, <1>3, <1>8 DEF Rule, Visible
  <2>3. Rule(r.user, r.step, k) => Visible(r) \/ Delegates(r)
    BY <1>1, <1>2, <1>3, <1>8 DEF Rule, Visible
  <2>4. QED BY <1>4, <1>5, <1>6, <2>1, <2>2, <2>3
<1>9. CASE r.step \in {"note", "close"}
  <2>1. CanOperate(r) <=> IsOwner(r.user, r.copy)
    BY <1>9 DEF CanOperate
  <2>2. CanOperate(r) => Rule(r.user, r.step, k)
    BY <1>3, <1>9, <2>1 DEF Rule
  <2>3. Rule(r.user, r.step, k) => CanOperate(r) \/ Delegates(r)
    BY <1>2, <1>3, <1>9, <2>1 DEF Rule
  <2>4. QED BY <1>4, <1>5, <1>6, <2>1, <2>2, <2>3 DEF Visible
<1>10. CASE r.step = "update"
  <2>1. CanOperate(r) <=> r.copy.creator = r.user
    BY <1>10 DEF CanOperate
  <2>2. CanOperate(r) => Rule(r.user, r.step, k)
    BY <1>1, <1>10, <2>1 DEF Rule
  <2>3. Rule(r.user, r.step, k) => CanOperate(r) \/ Delegates(r)
    BY <1>1, <1>2, <1>10, <2>1 DEF Rule
  <2>4. CanOperate(r) => Visible(r)
    BY <2>1 DEF Visible, IsOwner
  <2>5. QED BY <1>4, <1>5, <1>6, <2>2, <2>3, <2>4
<1>11. CASE r.step = "assign"
  <2>1. CanOperate(r) <=> r.scope.all \/ PathInAnchors(r.copy.path, r.scope.groups)
    BY <1>11 DEF CanOperate
  <2>2. CanOperate(r) => Rule(r.user, r.step, k)
    BY <1>1, <1>11, <2>1 DEF Rule
  <2>3. Rule(r.user, r.step, k) => CanOperate(r) \/ Delegates(r)
    BY <1>1, <1>2, <1>11, <2>1 DEF Rule
  <2>4. CanOperate(r) => Visible(r)
    BY <1>1, <1>7, <2>1 DEF Visible
  <2>5. QED BY <1>4, <1>5, <1>6, <2>2, <2>3, <2>4
<1>12. CASE r.step = "delete"
  <2>1. ~CanOperate(r)
    BY <1>12 DEF CanOperate
  <2>2. Rule(r.user, r.step, k) => Delegates(r)
    BY <1>2, <1>12 DEF Rule
  <2>3. QED BY <1>4, <1>5, <1>6, <2>1, <2>2
<1>13. QED BY <1>8, <1>9, <1>10, <1>11, <1>12 DEF Action

(* What the filter of the list selects is what reading shows. *)
LEMMA MatchesAre ==
  ASSUME TablesTyped, NEW u, u \notin Admin
  PROVE  Matches(u, Resolve(u)) = {k \in Ticket : Rule(u, "read", k)}
<1>1. ASSUME NEW k \in Ticket, Exists(k)
      PROVE  Filter(u, Resolve(u), k) <=> Rule(u, "read", k)
  <2>1. /\ Row(k).org = ticket[k].org /\ Row(k).path = path[ticket[k].org]
        /\ Row(k).creator = ticket[k].creator /\ Row(k).assignee = ticket[k].assignee
    BY <1>1, RowIs
  <2>2. DelegatedVisibility(u, Row(k).org) <=> Delegated(u, k)
    BY <2>1 DEF DelegatedVisibility, Delegated, IsOrgAdminOrOwner, IsAncestorOwner
  <2>3. QED BY <1>1, <2>1, <2>2 DEF Filter, Rule
<1>2. \A k \in Ticket : Rule(u, "read", k) => Exists(k)
  BY DEF Rule
<1>3. QED BY <1>1, <1>2 DEF Matches

-----------------------------------------------------------------------------
(* The kinds of steps.                                                     *)

Alike(q, r) ==
  /\ r.act = q.act /\ r.user = q.user /\ r.ticket = q.ticket /\ r.org = q.org
  /\ r.during = q.during /\ r.could = q.could

LEMMA TablesStay ==
  ASSUME TablesTyped, UNCHANGED tables
  PROVE  TablesTyped'
BY DEF TablesTyped, tables

(* What depends on the tables only stays when they do. *)
LEMMA ReadsStay ==
  ASSUME UNCHANGED tables, NEW r
  PROVE  /\ Known(r)' <=> Known(r)
         /\ Promised(r)' <=> Promised(r)
         /\ Now(r)' = Now(r)
<1> USE DEF tables
<1>1. \A u : Resolve(u)' = Resolve(u)
  BY DEF Resolve, Anchor
<1>2. \A k : (Exists(k)' <=> Exists(k)) /\ Row(k)' = Row(k)
  BY DEF Exists, Row
<1>3. \A u, o : /\ IsOrgAdminOrOwner(u, o)' <=> IsOrgAdminOrOwner(u, o)
                /\ IsInOrgBranch(u, o)' <=> IsInOrgBranch(u, o)
                /\ MayCreate(u, o)' <=> MayCreate(u, o)
                /\ DelegatedVisibility(u, o)' <=> DelegatedVisibility(u, o)
                /\ \A p : IsAncestorOwner(u, o, p)' <=> IsAncestorOwner(u, o, p)
  BY DEF IsOrgAdminOrOwner, IsInOrgBranch, MayCreate, DelegatedVisibility, IsAncestorOwner
<1>4. \A u, k : Delegated(u, k)' <=> Delegated(u, k)
  BY <1>2, <1>3 DEF Delegated
<1>5. \A u, a, k : Rule(u, a, k)' <=> Rule(u, a, k)
  BY <1>1, <1>2, <1>4 DEF Rule
<1>6. \A u, w : Allowed(u, w)' <=> Allowed(u, w)
  BY <1>3, <1>5 DEF Allowed
<1>7. Now(r)' = Now(r)
  BY <1>6 DEF Now, Asked
<1>8. \A u, c, k : Filter(u, c, k)' <=> Filter(u, c, k)
  BY <1>2, <1>3 DEF Filter
<1>9. \A u, c : Matches(u, c)' = Matches(u, c)
  BY <1>2, <1>8 DEF Matches
<1>10. Known(r)' <=> Known(r)
  BY <1>1, <1>2, <1>3, <1>5 DEF Known, Visible, CanOperate
<1>11. Promised(r)' <=> Promised(r)
  BY <1>1, <1>3, <1>9 DEF Promised, OwnRights, ScopeRights, DelegatedRights, Rights, Asked
<1>12. QED BY <1>7, <1>10, <1>11

(* The request goes on. *)
LEMMA GoStep ==
  ASSUME AccessInv, Underway(req), NEW r, To(r), r \in AccessRequest, Shaped(r), Underway(r),
         Alike(req, r),
         Judged(req) /\ r.during = 0 => Known(r),
         Judged(req) /\ r.during <= 1 => Promised(r)
  PROVE  AccessInv'
<1> USE DEF To
<1>1. UNCHANGED tables /\ changes' = changes /\ req' = r
  OBVIOUS
<1>2. AccessTypes'
  <2>1. TablesTyped'
    BY <1>1, TablesStay DEF AccessInv, AccessTypes
  <2>2. (req \in AccessRequest)' /\ Shaped(req)'
    BY <1>1 DEF Shaped, AboutTicket, Underway
  <2>3. (changes \in 0..MaxChange)' /\ (req.during \in 0..changes)'
    BY <1>1 DEF AccessInv, AccessTypes, Alike
  <2>4. QED BY <2>1, <2>2, <2>3 DEF AccessTypes
<1>3. Judged(req)' => Judged(req)
  BY <1>1 DEF Judged, Alike, Underway
<1>4. /\ (Known(req))' <=> Known(r)
      /\ (Promised(req))' <=> Promised(r)
      /\ Now(req)' = Now(req)
  <2>1. Asked(r) = Asked(req)
    BY AskedSame DEF Alike
  <2>2. Now(r) = Now(req)
    BY <2>1 DEF Now, Alike
  <2>3. Now(r)' = Now(r) /\ (Known(r)' <=> Known(r)) /\ (Promised(r)' <=> Promised(r))
    BY <1>1, ReadsStay
  <2>4. Now(req)' = Now(r)'
    BY <1>1 DEF Now, Asked
  <2>5. Known(req)' <=> Known(r)'
    BY <1>1 DEF Known, Visible, CanOperate
  <2>6. Promised(req)' <=> Promised(r)'
    BY <1>1 DEF Promised, OwnRights, ScopeRights, DelegatedRights, Rights, Asked
  <2>7. QED BY <2>2, <2>3, <2>4, <2>5, <2>6
<1>5. Present'
  BY <1>1, <1>3, <1>4 DEF Present, AccessInv, Alike
<1>6. Prospect'
  BY <1>1, <1>3, <1>4 DEF Prospect
<1>7. r.answer = "none" /\ r.pc # "done"
  BY DEF Shaped, Underway
<1>8. GrantedWasAllowed' /\ UndisturbedIsExact'
  BY <1>1, <1>7 DEF GrantedWasAllowed, Granted, UndisturbedIsExact, At
<1>9. QED BY <1>2, <1>5, <1>6, <1>8 DEF AccessInv

(* What the answers to a request show, and when they are exact. *)
ShownBy(r, seen) ==
  CASE r.act = "list" -> {"read"} \X seen
    [] r.act = "comments" ->
         {<<"read", r.ticket>>} \cup (IF "internal" \in seen THEN {<<"note", r.ticket>>} ELSE {})
    [] r.act = "relations" -> {<<"read", r.ticket>>}
    [] r.act = "create" -> {<<"create", r.org>>}
    [] OTHER -> {<<r.act, r.ticket>>}
ExactBy(r, a, seen) ==
  CASE r.act = "list" -> ShownBy(r, seen) = r.could
    [] r.act = "comments" /\ a = "ok" -> ShownBy(r, seen) = r.could
    [] r.act = "relations" -> (a = "ok") = (r.could # {})
    [] r.act = "create" -> (a = "ok") = (<<"create", r.org>> \in r.could)
    [] OTHER -> a = IF <<r.act, r.ticket>> \in r.could THEN "ok"
                    ELSE IF <<"read", r.ticket>> \in r.could THEN "forbidden"
                    ELSE "hidden"
Deserved(r, a, seen) == r.user \notin Admin =>
  /\ a = "ok" /\ r.during <= 1 => ShownBy(r, seen) \subseteq r.could
  /\ a \notin {"failed", "refused"} /\ r.during = 0 => ExactBy(r, a, seen)

(* The request is answered with what it deserves. *)
LEMMA AnswerStep ==
  ASSUME AccessInv, Underway(req), NEW a \in AccessAnswer,
         NEW seen \in SUBSET (Ticket \cup {"public", "internal"}),
         Answer(a, seen), changes' = changes, TablesTyped', Deserved(req, a, seen)
  PROVE  AccessInv'
<1>1. PICK q \in AccessRequest : q = req
  BY DEF AccessInv, AccessTypes
<1>2. PICK r : r = [IdleReq EXCEPT !.act = req.act, !.pc = "done", !.user = req.user,
                                   !.ticket = req.ticket, !.org = req.org, !.during = req.during,
                                   !.could = req.could, !.answer = a, !.shown = seen]
  OBVIOUS
<1>3. /\ r.act = q.act /\ r.user = q.user /\ r.ticket = q.ticket /\ r.org = q.org
      /\ r.during = q.during /\ r.could = q.could
      /\ r.pc = "done" /\ r.answer = a /\ r.shown = seen
  BY <1>1, <1>2 DEF IdleReq
<1>4. /\ q.act \in Verb /\ q.user \in User \cup {Nobody} /\ q.ticket \in Ticket \cup {Nobody}
      /\ q.org \in Org \cup {NoOrg} /\ q.during \in Nat
      /\ q.could \in SUBSET (Verb \X (Ticket \cup Org))
  BY DEF AccessRequest
<1>5. NoTicket \in TicketRow /\ NoScope \in Scope /\ "read" \in Verb
  BY DEF NoTicket, TicketRow, NoScope, Scope, Verb, Action
<1>6. r \in AccessRequest
  BY <1>1, <1>2, <1>4, <1>5 DEF IdleReq, AccessRequest, AccessPc
<1>7. req' = r
  BY <1>2 DEF Answer
<1>8. AccessTypes'
  <2>1. Shaped(req)'
    BY <1>3, <1>7 DEF Shaped, Underway
  <2>2. (req.during \in 0..changes)' /\ (changes \in 0..MaxChange)'
    BY <1>1, <1>3, <1>7 DEF AccessInv, AccessTypes
  <2>3. QED BY <1>6, <1>7, <2>1, <2>2 DEF AccessTypes
<1>9. ~Judged(req)'
  BY <1>3, <1>7 DEF Judged, Underway
<1>10. Present' /\ Prospect'
  BY <1>9 DEF Present, Prospect
<1>11. ShownBy(r, seen) = ShownBy(req, seen) /\ (ExactBy(r, a, seen) <=> ExactBy(req, a, seen))
  BY <1>1, <1>3 DEF ShownBy, ExactBy
<1>12. Shown' = ShownBy(r, seen)
  BY <1>3, <1>7 DEF Shown, ShownBy
<1>13. GrantedWasAllowed'
  BY <1>1, <1>3, <1>7, <1>11, <1>12 DEF GrantedWasAllowed, Granted, Deserved
<1>14. UndisturbedIsExact'
  <2>1. CASE r.user \notin Admin /\ a \notin {"failed", "refused"} /\ r.during = 0
    <3>1. ExactBy(r, a, seen)
      BY <1>1, <1>3, <1>11, <2>1 DEF Deserved
    <3>2. QED BY <1>3, <1>7, <1>12, <3>1 DEF UndisturbedIsExact, ExactBy
  <2>2. CASE ~(r.user \notin Admin /\ a \notin {"failed", "refused"} /\ r.during = 0)
    BY <1>3, <1>7, <2>2 DEF UndisturbedIsExact
  <2>3. QED BY <2>1, <2>2
<1>15. QED BY <1>8, <1>10, <1>13, <1>14 DEF AccessInv

LEMMA ReplyStep ==
  ASSUME AccessInv, Underway(req), NEW a \in AccessAnswer,
         NEW seen \in SUBSET (Ticket \cup {"public", "internal"}),
         Reply(a, seen), Deserved(req, a, seen)
  PROVE  AccessInv'
<1>1. TablesTyped'
  BY TablesStay DEF Reply, AccessInv, AccessTypes
<1>2. QED BY <1>1, AnswerStep DEF Reply

-----------------------------------------------------------------------------
(* The ways a judgement goes on.                                           *)

(* What the invariant says of a request about a ticket, while nothing has  *)
(* changed: a question it asks is in could exactly if the rule allows it.  *)
LEMMA CouldIs ==
  ASSUME AccessInv, Judged(req), AboutTicket(req)
  PROVE  /\ req.step \in Action /\ req.ticket \in Ticket /\ req.user \in User /\ Underway(req)
         /\ \A a : <<a, req.ticket>> \in Asked(req) /\ Rule(req.user, a, req.ticket)
                     => <<a, req.ticket>> \in req.could
         /\ <<req.step, req.ticket>> \in Asked(req) /\ <<"read", req.ticket>> \in Asked(req)
         /\ req.during = 0 =>
              /\ req.could \subseteq Asked(req) /\ Known(req)
              /\ \A a : <<a, req.ticket>> \in req.could => Rule(req.user, a, req.ticket)
<1>1. req \in AccessRequest /\ Shaped(req) /\ Underway(req) /\ req.act \in Verb
  BY DEF AccessInv, AccessTypes, Judged, AccessRequest
<1>2. /\ req.step \in Action /\ req.ticket \in Ticket /\ req.user \in User
      /\ <<req.step, req.ticket>> \in Asked(req) /\ <<"read", req.ticket>> \in Asked(req)
      /\ \A w \in Asked(req) : w = <<w[1], req.ticket>> /\ w[1] \in Action
  BY <1>1, AskedOfTicket
<1>3. \A w \in Asked(req) : w[1] # "create" /\ w[2] = req.ticket
  <2>1. ASSUME NEW w \in Asked(req) PROVE w[1] # "create" /\ w[2] = req.ticket
    <3>1. w = <<w[1], req.ticket>> /\ w[1] \in Action
      BY <1>2
    <3>2. "create" \notin Action
      BY DEF Action
    <3>3. w[2] = <<w[1], req.ticket>>[2]
      BY <3>1
    <3>4. QED BY <3>1, <3>2, <3>3
  <2>2. QED BY <2>1
<1>4. ASSUME NEW a, <<a, req.ticket>> \in Asked(req)
      PROVE  Allowed(req.user, <<a, req.ticket>>) <=> Rule(req.user, a, req.ticket)
  <2>1. a # "create"
    BY <1>3, <1>4
  <2>2. QED BY <2>1 DEF Allowed
<1>5. Now(req) \subseteq req.could /\ (req.during = 0 => req.could = Now(req) /\ Known(req))
  BY DEF AccessInv, Present
<1>6. QED BY <1>1, <1>2, <1>4, <1>5 DEF Now

(* The action asked for is allowed. *)
LEMMA PassedStep ==
  ASSUME AccessInv, Underway(req), AboutTicket(req), NEW r \in AccessRequest, Alike(req, r),
         r.step = req.step, r.answer = "none", Passed(r),
         Judged(req) /\ req.during <= 1 => <<req.step, req.ticket>> \in req.could
  PROVE  AccessInv'
<1>1. req \in AccessRequest /\ Shaped(req) /\ req.act \in Verb
  BY DEF AccessInv, AccessTypes, AccessRequest
<1>2. CASE r.act = "comments" /\ r.step = "read"
  <2>1. PICK n : n = [r EXCEPT !.step = "note", !.pc = "roles"]
    OBVIOUS
  <2>2. To(n)
    BY <1>2, <2>1 DEF Passed
  <2>3. n \in AccessRequest
    BY <2>1 DEF AccessRequest, AccessPc, Verb, Action
  <2>4. /\ n.step = "note" /\ n.pc = "roles" /\ n.act = r.act /\ n.user = r.user
        /\ n.ticket = r.ticket /\ n.org = r.org /\ n.during = r.during /\ n.could = r.could
        /\ n.answer = r.answer
    BY <2>1 DEF AccessRequest
  <2>5. Alike(req, n) /\ Underway(n)
    BY <2>4 DEF Alike, Underway
  <2>6. Shaped(n)
    BY <1>1, <1>2, <2>4, <2>5 DEF Shaped, Alike, Underway, Action
  <2>7. Judged(req) /\ n.during = 0 => Known(n)
    <3>1. ASSUME Judged(req), n.during = 0 PROVE Rule(req.user, "read", req.ticket)
      BY <1>2, <2>4, <3>1, CouldIs DEF Alike
    <3>2. QED BY <2>4, <3>1 DEF Known, Alike
  <2>8. Judged(req) /\ n.during <= 1 => Promised(n)
    BY <1>2, <2>4 DEF Promised, Alike
  <2>9. QED BY <2>2, <2>3, <2>5, <2>6, <2>7, <2>8, GoStep
<1>3. CASE r.act = "comments" /\ r.step # "read"
  <2>1. Reply("ok", CommentsOf(TRUE)) /\ req.act = "comments" /\ req.step = "note"
    BY <1>1, <1>3 DEF Passed, Alike, Shaped
  <2>2. CommentsOf(TRUE) = {"public", "internal"}
    BY DEF CommentsOf
  <2>3. ShownBy(req, CommentsOf(TRUE)) = {<<"read", req.ticket>>, <<"note", req.ticket>>}
    BY <2>1, <2>2 DEF ShownBy
  <2>4. Judged(req) /\ req.during <= 1 => ShownBy(req, CommentsOf(TRUE)) \subseteq req.could
    <3>1. ASSUME Judged(req), req.during <= 1 PROVE <<"read", req.ticket>> \in req.could
      BY <2>1, <3>1 DEF AccessInv, Prospect, Promised
    <3>2. QED BY <2>1, <2>3, <3>1
  <2>5. Judged(req) /\ req.during = 0 => ExactBy(req, "ok", CommentsOf(TRUE))
    <3> SUFFICES ASSUME Judged(req), req.during = 0
                 PROVE  ShownBy(req, CommentsOf(TRUE)) = req.could
      BY <2>1 DEF ExactBy
    <3>1. req.could \subseteq Asked(req)
      BY CouldIs
    <3>2. Asked(req) = {<<"read", req.ticket>>, <<"note", req.ticket>>}
      <4>1. Asked(req) = {"read", "note"} \X {req.ticket}
        BY <1>1, <2>1, AskedIs
      <4>2. QED BY <4>1
    <3>3. ShownBy(req, CommentsOf(TRUE)) \subseteq req.could
      <4>1. req.during <= 1
        OBVIOUS
      <4>2. QED BY <2>4, <4>1
    <3>4. ShownBy(req, CommentsOf(TRUE)) = Asked(req)
      BY <2>3, <3>2
    <3>5. QED BY <3>1, <3>3, <3>4
  <2>6. Deserved(req, "ok", CommentsOf(TRUE))
    BY <2>4, <2>5 DEF Deserved, Judged
  <2>7. QED BY <2>1, <2>2, <2>6, ReplyStep DEF AccessAnswer
<1>4. CASE r.act # "comments"
  <2>1. Reply("ok", {}) /\ req.act # "comments"
    BY <1>4 DEF Passed, Alike
  <2>2. ASSUME Judged(req), req.during <= 1
        PROVE  ShownBy(req, {}) = {<<req.step, req.ticket>>} /\ <<req.step, req.ticket>> \in req.could
    <3>1. CASE req.act = "relations"
      <4>1. req.step = "read"
        BY <1>1, <3>1 DEF Shaped
      <4>2. QED BY <2>2, <3>1, <4>1 DEF ShownBy
    <3>2. CASE req.act # "relations"
      <4>1. req.act \in Action
        BY <1>1, <2>1, <3>2, AskedIs DEF AboutTicket
      <4>2. req.step = req.act
        BY <1>1, <4>1 DEF Shaped
      <4>3. QED BY <2>1, <2>2, <3>2, <4>1, <4>2 DEF ShownBy, AboutTicket
    <3>3. QED BY <3>1, <3>2
  <2>3. Judged(req) /\ req.during = 0 => ExactBy(req, "ok", {})
    <3> SUFFICES ASSUME Judged(req), req.during = 0 PROVE ExactBy(req, "ok", {})
      OBVIOUS
    <3>1. <<req.step, req.ticket>> \in req.could
      OBVIOUS
    <3>2. CASE req.act = "relations"
      BY <3>1, <3>2 DEF ExactBy
    <3>3. CASE req.act # "relations"
      <4>1. req.act \in Action
        BY <1>1, <2>1, <3>3, AskedIs DEF AboutTicket
      <4>2. req.step = req.act
        BY <1>1, <4>1 DEF Shaped
      <4>3. QED BY <2>1, <3>1, <3>3, <4>2 DEF ExactBy, AboutTicket
    <3>4. QED BY <3>2, <3>3
  <2>4. Deserved(req, "ok", {})
    BY <2>2, <2>3 DEF Deserved, Judged
  <2>5. QED BY <2>1, <2>4, ReplyStep DEF AccessAnswer
<1>5. QED BY <1>2, <1>3, <1>4

(* It is not. *)
LEMMA RefusedStep ==
  ASSUME AccessInv, Judged(req), AboutTicket(req), NEW a \in {"hidden", "forbidden"}, Refused(a),
         req.during = 0 => /\ <<req.step, req.ticket>> \notin req.could
                           /\ a = "forbidden" <=> <<"read", req.ticket>> \in req.could
  PROVE  AccessInv'
<1>1. req \in AccessRequest /\ Shaped(req) /\ req.act \in Verb /\ Underway(req)
  BY DEF AccessInv, AccessTypes, AccessRequest, Judged
<1>2. CASE req.act = "comments" /\ req.step = "note"
  <2>1. Reply("ok", CommentsOf(FALSE)) /\ CommentsOf(FALSE) = {"public"}
    BY <1>2 DEF Refused, CommentsOf
  <2>2. ShownBy(req, CommentsOf(FALSE)) = {<<"read", req.ticket>>}
    BY <1>2, <2>1 DEF ShownBy
  <2>3. req.during <= 1 => <<"read", req.ticket>> \in req.could
    BY <1>2 DEF AccessInv, Prospect, Promised
  <2>4. ASSUME req.during = 0 PROVE ExactBy(req, "ok", CommentsOf(FALSE))
    <3>1. req.could \subseteq {<<"read", req.ticket>>, <<"note", req.ticket>>}
      <4>1. Asked(req) = {<<"read", req.ticket>>, <<"note", req.ticket>>}
        BY <1>1, <1>2, AskedIs
      <4>2. QED BY <2>4, <4>1, CouldIs
    <3>2. req.could = {<<"read", req.ticket>>}
      BY <1>2, <2>3, <2>4, <3>1
    <3>3. QED BY <1>2, <2>2, <3>2 DEF ExactBy
  <2>5. Deserved(req, "ok", CommentsOf(FALSE))
    BY <2>2, <2>3, <2>4 DEF Deserved
  <2>6. QED BY <1>1, <2>1, <2>5, ReplyStep DEF AccessAnswer
<1>3. CASE ~(req.act = "comments" /\ req.step = "note")
  <2>1. Reply(a, {})
    BY <1>3 DEF Refused
  <2>2. ASSUME req.during = 0 PROVE ExactBy(req, a, {})
    <3>1. req.could \subseteq Asked(req) /\ <<req.step, req.ticket>> \notin req.could
      BY <2>2, CouldIs
    <3>2. CASE req.act = "comments"
      <4>1. req.step = "read"
        BY <1>1, <1>3, <3>2 DEF Shaped
      <4>2. Asked(req) = {"read", "note"} \X {req.ticket}
        BY <1>1, <3>2, AskedIs
      <4>3. <<"comments", req.ticket>> \notin req.could /\ <<"read", req.ticket>> \notin req.could
        BY <3>1, <4>1, <4>2
      <4>4. a = "hidden"
        BY <2>2, <4>3
      <4>5. QED BY <3>2, <4>3, <4>4 DEF ExactBy
    <3>3. CASE req.act = "relations"
      <4>1. req.step = "read" /\ Asked(req) = {<<"read", req.ticket>>}
        BY <1>1, <3>3, AskedIs DEF Shaped
      <4>2. req.could = {}
        BY <3>1, <4>1
      <4>3. QED BY <3>3, <4>2 DEF ExactBy
    <3>4. CASE req.act \notin {"comments", "relations"}
      <4>1. req.act \in Action
        BY <1>1, <3>4, AskedIs DEF AboutTicket
      <4>2. req.step = req.act
        BY <1>1, <4>1 DEF Shaped
      <4>3. QED BY <2>2, <3>1, <3>4, <4>2 DEF ExactBy, AboutTicket
    <3>5. QED BY <3>2, <3>3, <3>4
  <2>3. Deserved(req, a, {})
    BY <2>2 DEF Deserved
  <2>4. QED BY <1>1, <2>1, <2>3, ReplyStep DEF AccessAnswer
<1>4. QED BY <1>2, <1>3

(* The rights of a request, for one that reads on. *)
LEMMA RightsAlike ==
  ASSUME NEW q, NEW r, Alike(q, r), r.copy = q.copy
  PROVE  /\ OwnRights(r) <=> OwnRights(q)
         /\ DelegatedRights(r) <=> DelegatedRights(q)
         /\ \A s : ScopeRights(r, s) <=> ScopeRights(q, s)
<1>1. Asked(r) = Asked(q) /\ \A A : Rights(r, A) <=> Rights(q, A)
  BY DEF Asked, Alike, Rights
<1>2. QED BY <1>1 DEF OwnRights, DelegatedRights, ScopeRights, Alike

(* What the own part of a ticket and a scope allow, they give as rights. *)
LEMMA VisibleRights ==
  ASSUME NEW r, OwnRights(r), ScopeRights(r, r.scope), Visible(r), CanOperate(r),
         r.step \in Action, <<r.step, r.ticket>> \in Asked(r)
  PROVE  <<r.step, r.ticket>> \in r.could
<1>1. ASSUME NEW A, r.step \in A, Rights(r, A) PROVE <<r.step, r.ticket>> \in r.could
  BY <1>1 DEF Rights
<1>2. CASE r.step \in {"read", "comment"}
  BY <1>1, <1>2 DEF Visible, OwnRights, ScopeRights, IsOwner
<1>3. CASE r.step \in {"note", "close"}
  <2>1. IsOwner(r.user, r.copy)
    BY <1>3 DEF CanOperate
  <2>2. QED BY <1>1, <1>3, <2>1 DEF OwnRights, IsOwner
<1>4. CASE r.step = "update"
  <2>1. r.copy.creator = r.user
    BY <1>4 DEF CanOperate
  <2>2. QED BY <1>1, <1>4, <2>1 DEF OwnRights
<1>5. CASE r.step = "assign"
  <2>1. r.scope.all \/ PathInAnchors(r.copy.path, r.scope.groups)
    BY <1>5 DEF CanOperate
  <2>2. QED BY <1>1, <1>5, <2>1 DEF ScopeRights
<1>6. CASE r.step = "delete"
  BY <1>6 DEF CanOperate
<1>7. QED BY <1>2, <1>3, <1>4, <1>5, <1>6 DEF Action

(* The ticket is visible: what is asked is granted, or delegation is asked. *)
LEMMA OperateStep ==
  ASSUME AccessInv, Judged(req), AboutTicket(req), NEW r \in AccessRequest, Alike(req, r),
         r.step = req.step, r.answer = "none", r.copy = req.copy, Operate(r),
         req.during = 0 => /\ Exists(r.ticket) /\ r.copy = Row(r.ticket)
                           /\ r.scope = Resolve(r.user)
                           /\ Rule(r.user, "read", r.ticket),
         req.during <= 1 => /\ OwnRights(req) /\ DelegatedRights(req) /\ ScopeRights(req, r.scope)
                            /\ CanOperate(r) => <<r.step, r.ticket>> \in r.could
  PROVE  AccessInv'
<1>1. req \in AccessRequest /\ Shaped(req) /\ Underway(req)
  BY DEF AccessInv, AccessTypes, Judged
<1>2. CASE CanOperate(r)
  <2>1. Passed(r)
    BY <1>2 DEF Operate
  <2>2. req.during <= 1 => <<req.step, req.ticket>> \in req.could
    BY <1>2 DEF Alike
  <2>3. QED BY <1>1, <2>1, <2>2, PassedStep
<1>3. CASE ~CanOperate(r)
  <2>1. PICK n : n = [r EXCEPT !.phase = "operate", !.pc = "admin"]
    OBVIOUS
  <2>2. To(n)
    BY <1>3, <2>1 DEF Operate
  <2>3. n \in AccessRequest
    BY <2>1 DEF AccessRequest, AccessPc
  <2>4. /\ n.phase = "operate" /\ n.pc = "admin" /\ n.act = r.act /\ n.user = r.user
        /\ n.ticket = r.ticket /\ n.org = r.org /\ n.during = r.during /\ n.could = r.could
        /\ n.answer = r.answer /\ n.step = r.step /\ n.copy = r.copy /\ n.scope = r.scope
    BY <2>1 DEF AccessRequest
  <2>5. Alike(req, n) /\ Underway(n) /\ n.copy = req.copy
    BY <2>4 DEF Alike, Underway
  <2>6. Shaped(n)
    <3>1. AboutTicket(n) /\ n.user \notin Admin
      BY <2>4 DEF Alike, AboutTicket, Judged
    <3>2. QED BY <1>1, <2>4, <2>5, <3>1 DEF Shaped, Alike, Underway
  <2>7. ~CanOperate(n)
    BY <1>3, <2>4 DEF CanOperate
  <2>8. ASSUME n.during = 0 PROVE Known(n)
    <3>1. /\ Exists(n.ticket) /\ n.copy = Row(n.ticket) /\ n.scope = Resolve(n.user)
          /\ Rule(n.user, "read", n.ticket)
      BY <2>4, <2>8 DEF Alike
    <3>2. QED BY <2>4, <2>7, <3>1 DEF Known
  <2>9. ASSUME n.during <= 1 PROVE Promised(n)
    <3>1. OwnRights(n) /\ DelegatedRights(n) /\ ScopeRights(n, n.scope)
      BY <2>4, <2>5, <2>9, RightsAlike DEF Alike
    <3>2. n.act = "comments" /\ n.step = "note" => <<"read", n.ticket>> \in n.could
      <4>1. Promised(req)
        BY <2>4, <2>9 DEF Alike, AccessInv, Prospect
      <4>2. QED BY <2>4, <4>1 DEF Promised, Alike
    <3>3. QED BY <2>4, <3>1, <3>2 DEF Promised
  <2>10. QED BY <1>1, <2>2, <2>3, <2>5, <2>6, <2>8, <2>9, GoStep
<1>4. QED BY <1>2, <1>3

-----------------------------------------------------------------------------
(* The steps of a judgement.                                               *)

LEMMA GetRolesHolds == ASSUME AccessInv, GetRoles PROVE AccessInv'
<1>1. req \in AccessRequest /\ Shaped(req) /\ req.pc = "roles" /\ AboutTicket(req) /\ Underway(req)
  BY DEF AccessInv, AccessTypes, GetRoles, At, AboutTicket, Underway
<1>2. req.answer = "none"
  BY <1>1 DEF Shaped
<1>3. CASE req.user \in Admin
  <2>1. Passed(req)
    BY <1>3 DEF GetRoles
  <2>2. QED BY <1>1, <1>2, <1>3, <2>1, PassedStep DEF Judged, Alike
<1>4. CASE req.user \notin Admin
  <2>1. Judged(req)
    BY <1>1, <1>4 DEF Judged
  <2>2. PICK n : n = [req EXCEPT !.pc = "ticket"]
    OBVIOUS
  <2>3. To(n)
    BY <1>4, <2>2 DEF GetRoles
  <2>4. n \in AccessRequest
    BY <1>1, <2>2 DEF AccessRequest, AccessPc
  <2>5. /\ n.pc = "ticket" /\ n.act = req.act /\ n.user = req.user /\ n.step = req.step
        /\ n.ticket = req.ticket /\ n.org = req.org /\ n.during = req.during /\ n.could = req.could
        /\ n.answer = req.answer
    BY <1>1, <2>2 DEF AccessRequest
  <2>6. Alike(req, n) /\ Underway(n)
    BY <2>5 DEF Alike, Underway
  <2>7. Shaped(n)
    BY <1>1, <1>4, <2>5 DEF Shaped, Underway, AboutTicket
  <2>8. ASSUME n.during = 0 PROVE Known(n)
    <3>1. Known(req)
      BY <2>1, <2>5, <2>8 DEF AccessInv, Present
    <3>2. QED BY <2>5, <3>1 DEF Known
  <2>9. ASSUME n.during <= 1 PROVE Promised(n)
    <3>1. Promised(req)
      BY <2>1, <2>5, <2>9 DEF AccessInv, Prospect
    <3>2. QED BY <2>5, <3>1 DEF Promised
  <2>10. QED BY <1>1, <2>3, <2>4, <2>6, <2>7, <2>8, <2>9, GoStep
<1>5. QED BY <1>3, <1>4

(* What the present allows, it gives as rights. *)
LEMMA PresentRights ==
  ASSUME AccessInv, Judged(req), AboutTicket(req), Exists(req.ticket),
         NEW r, Alike(req, r), r.copy = Row(req.ticket)
  PROVE  OwnRights(r) /\ DelegatedRights(r) /\ ScopeRights(r, Resolve(r.user))
<1> DEFINE k == req.ticket
           u == req.user
<1>1. TablesTyped /\ req.act \in Verb /\ Shaped(req) /\ Underway(req) /\ k \in Ticket
  BY CouldIs DEF AccessInv, AccessTypes, AccessRequest
<1>2. /\ r.copy.org = ticket[k].org /\ r.copy.path = Row(k).path
      /\ r.copy.creator = ticket[k].creator /\ r.copy.assignee = ticket[k].assignee
  BY <1>1, RowIs
<1>3. r.user = u /\ r.ticket = k /\ Asked(r) = Asked(req) /\ r.could = req.could
  BY AskedSame DEF Alike
<1>4. \A A : (\A a \in A : Rule(u, a, k)) => Rights(r, A)
  BY <1>3, CouldIs DEF Rights
<1>5. u \notin Admin
  BY DEF Judged
<1>6. OwnRights(r)
  <2>1. r.copy.creator = u => \A a \in {"read", "comment", "note", "close", "update"} : Rule(u, a, k)
    BY <1>2 DEF Rule
  <2>2. r.copy.assignee = u => \A a \in {"read", "comment", "note", "close"} : Rule(u, a, k)
    BY <1>2 DEF Rule
  <2>3. QED BY <1>3, <1>4, <2>1, <2>2 DEF OwnRights
<1>7. ScopeRights(r, Resolve(u))
  <2>1. Resolve(u).all => \A a \in {"read", "comment", "assign"} : Rule(u, a, k)
    BY DEF Rule
  <2>2. PathInAnchors(r.copy.path, ReadPaths(Resolve(u))) => \A a \in {"read", "comment"} : Rule(u, a, k)
    BY <1>2 DEF Rule
  <2>3. PathInAnchors(r.copy.path, Resolve(u).groups) => \A a \in {"assign"} : Rule(u, a, k)
    BY <1>2 DEF Rule
  <2>4. QED BY <1>4, <2>1, <2>2, <2>3 DEF ScopeRights
<1>8. DelegatedRights(r)
  <2>1. ASSUME IsOrgAdminOrOwner(u, r.copy.org) \/ IsAncestorOwner(u, r.copy.org, r.copy.path)
        PROVE  Asked(r) \subseteq r.could
    <3>1. Delegated(u, k)
      BY <1>2, <2>1 DEF Delegated
    <3>2. \A a : Rule(u, a, k)
      BY <3>1 DEF Rule
    <3>3. \A w \in Asked(req) : w = <<w[1], k>>
      BY <1>1, AskedOfTicket
    <3>4. QED BY <1>3, <3>2, <3>3, CouldIs
  <2>2. QED BY <1>3, <2>1 DEF DelegatedRights
<1>9. QED BY <1>3, <1>6, <1>7, <1>8

LEMMA GetByIDHolds == ASSUME AccessInv, GetByID PROVE AccessInv'
<1>1. req \in AccessRequest /\ Shaped(req) /\ req.pc = "ticket" /\ Underway(req)
  BY DEF AccessInv, AccessTypes, GetByID, At, Underway
<1>2. req.answer = "none" /\ AboutTicket(req) /\ Judged(req) /\ req.ticket \in Ticket
  BY <1>1 DEF Shaped, Judged, AboutTicket
<1>3. CASE Exists(req.ticket)
  <2>1. PICK n : n = [req EXCEPT !.copy = Row(req.ticket), !.pc = "scope"]
    OBVIOUS
  <2>2. To(n)
    BY <1>3, <2>1 DEF GetByID
  <2>3. Row(req.ticket) \in TicketRow
    BY <1>2, <1>3, RowIs DEF AccessInv, AccessTypes
  <2>4. n \in AccessRequest
    BY <1>1, <2>1, <2>3 DEF AccessRequest, AccessPc
  <2>5. /\ n.pc = "scope" /\ n.act = req.act /\ n.user = req.user /\ n.step = req.step
        /\ n.ticket = req.ticket /\ n.org = req.org /\ n.during = req.during /\ n.could = req.could
        /\ n.answer = req.answer /\ n.copy = Row(req.ticket)
    BY <1>1, <2>1 DEF AccessRequest
  <2>6. Alike(req, n) /\ Underway(n)
    BY <2>5 DEF Alike, Underway
  <2>7. Shaped(n)
    BY <1>1, <1>2, <2>5 DEF Shaped, Underway, AboutTicket, Judged
  <2>8. ASSUME n.during = 0 PROVE Known(n)
    <3>1. Known(req)
      BY <1>2, <2>5, <2>8 DEF AccessInv, Present
    <3>2. QED BY <1>3, <2>5, <3>1 DEF Known
  <2>9. ASSUME n.during <= 1 PROVE Promised(n)
    <3>1. Promised(req)
      BY <1>2, <2>5, <2>9 DEF AccessInv, Prospect
    <3>2. OwnRights(n) /\ DelegatedRights(n) /\ ScopeRights(n, Resolve(n.user))
      BY <1>2, <1>3, <2>5, <2>6, PresentRights
    <3>3. QED BY <2>5, <3>1, <3>2 DEF Promised
  <2>10. QED BY <1>1, <2>2, <2>4, <2>6, <2>7, <2>8, <2>9, GoStep
<1>4. CASE ~Exists(req.ticket)
  <2>1. Refused("hidden")
    BY <1>4 DEF GetByID
  <2>2. ASSUME req.during = 0
        PROVE  <<req.step, req.ticket>> \notin req.could /\ <<"read", req.ticket>> \notin req.could
    <3>1. \A a : ~Rule(req.user, a, req.ticket)
      BY <1>4 DEF Rule
    <3>2. QED BY <1>2, <2>2, <3>1, CouldIs
  <2>3. QED BY <1>2, <2>1, <2>2, RefusedStep
<1>5. QED BY <1>3, <1>4

LEMMA ResolveScopeHolds == ASSUME AccessInv, ResolveScope PROVE AccessInv'
<1>1. req \in AccessRequest /\ Shaped(req) /\ req.pc = "scope" /\ Underway(req) /\ req.act # "list"
  BY DEF AccessInv, AccessTypes, ResolveScope, At, Underway
<1>2. req.answer = "none" /\ AboutTicket(req) /\ Judged(req) /\ req.ticket \in Ticket
  BY <1>1 DEF Shaped, Judged, AboutTicket
<1>3. TablesTyped /\ Resolve(req.user) \in Scope
  BY ResolveTyped DEF AccessInv, AccessTypes
<1>4. PICK r : r = [req EXCEPT !.scope = Resolve(req.user)]
  OBVIOUS
<1>5. r \in AccessRequest
  BY <1>1, <1>3, <1>4 DEF AccessRequest
<1>6. /\ r.pc = "scope" /\ r.act = req.act /\ r.user = req.user /\ r.step = req.step
      /\ r.ticket = req.ticket /\ r.org = req.org /\ r.during = req.during /\ r.could = req.could
      /\ r.answer = req.answer /\ r.copy = req.copy /\ r.scope = Resolve(req.user)
  BY <1>1, <1>4 DEF AccessRequest
<1>7. Alike(req, r)
  BY <1>6 DEF Alike
<1>8. /\ Visible(r) => Operate(r)
      /\ ~Visible(r) => To([r EXCEPT !.phase = "see", !.pc = "admin"])
  BY <1>4, <1>6 DEF ResolveScope, Visible
<1>9. req.during = 0 => Exists(r.ticket) /\ r.copy = Row(r.ticket)
  BY <1>1, <1>2, <1>6 DEF AccessInv, Present, Known
<1>10. req.during <= 1 => OwnRights(req) /\ DelegatedRights(req) /\ ScopeRights(req, r.scope)
  BY <1>1, <1>2, <1>6 DEF AccessInv, Prospect, Promised
<1>11. r.step \in Action /\ <<r.step, r.ticket>> \in Asked(r)
  BY <1>2, <1>6, <1>7, CouldIs, AskedSame
<1>12. CASE Visible(r)
  <2>1. req.during = 0 => Rule(r.user, "read", r.ticket)
    BY <1>2, <1>3, <1>6, <1>9, <1>11, <1>12, RuleIs DEF Judged
  <2>2. req.during <= 1 /\ CanOperate(r) => <<r.step, r.ticket>> \in r.could
    BY <1>6, <1>7, <1>10, <1>11, <1>12, RightsAlike, VisibleRights
  <2>3. QED BY <1>2, <1>5, <1>6, <1>7, <1>8, <1>9, <1>10, <1>12, <2>1, <2>2, OperateStep
<1>13. CASE ~Visible(r)
  <2>1. PICK n : n = [r EXCEPT !.phase = "see", !.pc = "admin"]
    OBVIOUS
  <2>2. n \in AccessRequest
    BY <1>5, <2>1 DEF AccessRequest, AccessPc
  <2>3. /\ n.pc = "admin" /\ n.act = r.act /\ n.user = r.user /\ n.step = r.step
        /\ n.ticket = r.ticket /\ n.org = r.org /\ n.during = r.during /\ n.could = r.could
        /\ n.answer = r.answer /\ n.copy = r.copy /\ n.scope = r.scope /\ n.phase = "see"
    BY <1>5, <2>1 DEF AccessRequest
  <2>4. Alike(req, n) /\ Underway(n)
    BY <1>6, <2>3 DEF Alike, Underway
  <2>5. Shaped(n)
    BY <1>1, <1>2, <1>6, <2>3 DEF Shaped, Underway, AboutTicket, Judged
  <2>6. ~Visible(n)
    BY <1>13, <2>3 DEF Visible
  <2>7. ASSUME n.during = 0 PROVE Known(n)
    <3>1. Known(req)
      BY <1>2, <1>6, <2>3, <2>7 DEF AccessInv, Present
    <3>2. QED BY <1>6, <1>9, <2>3, <2>6, <2>7, <3>1 DEF Known
  <2>8. ASSUME n.during <= 1 PROVE Promised(n)
    <3>1. Promised(req)
      BY <1>2, <1>6, <2>3, <2>8 DEF AccessInv, Prospect
    <3>2. OwnRights(n) /\ DelegatedRights(n) /\ ScopeRights(n, n.scope)
      BY <1>6, <1>10, <2>3, <2>4, <2>8, RightsAlike
    <3>3. QED BY <1>6, <2>3, <3>1, <3>2 DEF Promised
  <2>9. QED BY <1>1, <1>8, <1>13, <2>1, <2>2, <2>4, <2>5, <2>7, <2>8, GoStep
<1>14. QED BY <1>12, <1>13

(* Delegation gives what is asked. *)
LEMMA DelegationStep ==
  ASSUME AccessInv, Underway(req), req.pc \in {"admin", "ancestor"}, Delegates(req),
         IF req.phase = "see" THEN Operate(req) ELSE Passed([req EXCEPT !.phase = "see"])
  PROVE  AccessInv'
<1>1. req \in AccessRequest /\ Shaped(req)
  BY DEF AccessInv, AccessTypes
<1>2. req.answer = "none" /\ AboutTicket(req) /\ Judged(req) /\ req.ticket \in Ticket
  BY <1>1 DEF Shaped, Judged, AboutTicket
<1>3. /\ req.step \in Action /\ <<req.step, req.ticket>> \in Asked(req)
  BY <1>2, CouldIs
<1>4. req.during = 0 => /\ Exists(req.ticket) /\ req.copy = Row(req.ticket)
                        /\ req.scope = Resolve(req.user)
  BY <1>2 DEF AccessInv, Present, Known, AboutTicket
<1>5. req.during <= 1 => OwnRights(req) /\ DelegatedRights(req) /\ ScopeRights(req, req.scope)
  BY <1>2 DEF AccessInv, Prospect, Promised, AboutTicket
<1>6. req.during <= 1 => <<req.step, req.ticket>> \in req.could
  BY <1>3, <1>5 DEF DelegatedRights, Delegates
<1>7. req.during = 0 => Rule(req.user, "read", req.ticket)
  <2>1. "read" \in Verb
    BY DEF Verb, Action
  <2>2. QED BY <1>2, <1>3, <1>4, <2>1, RuleIs DEF AccessInv, AccessTypes, Judged
<1>8. CASE req.phase = "see"
  <2>1. Operate(req)
    BY <1>8
  <2>2. QED BY <1>1, <1>2, <1>4, <1>5, <1>6, <1>7, <2>1, OperateStep DEF Alike
<1>9. CASE req.phase # "see"
  <2>1. PICK r : r = [req EXCEPT !.phase = "see"]
    OBVIOUS
  <2>2. r \in AccessRequest
    BY <1>1, <2>1 DEF AccessRequest
  <2>3. /\ r.act = req.act /\ r.user = req.user /\ r.step = req.step
        /\ r.ticket = req.ticket /\ r.org = req.org /\ r.during = req.during /\ r.could = req.could
        /\ r.answer = req.answer
    BY <1>1, <2>1 DEF AccessRequest
  <2>4. Alike(req, r)
    BY <2>3 DEF Alike
  <2>5. Passed(r)
    BY <1>9, <2>1
  <2>6. QED BY <1>2, <1>6, <2>2, <2>3, <2>4, <2>5, PassedStep
<1>10. QED BY <1>8, <1>9

LEMMA AskAdminHolds == ASSUME AccessInv, AskAdmin PROVE AccessInv'
<1>1. req \in AccessRequest /\ Shaped(req) /\ req.pc = "admin" /\ Underway(req)
  BY DEF AccessInv, AccessTypes, AskAdmin, At, Underway
<1>2. req.answer = "none" /\ AboutTicket(req) /\ Judged(req) /\ req.ticket \in Ticket
  BY <1>1 DEF Shaped, Judged, AboutTicket
<1>3. CASE IsOrgAdminOrOwner(req.user, req.copy.org)
  <2>1. IF req.phase = "see" THEN Operate(req) ELSE Passed([req EXCEPT !.phase = "see"])
    BY <1>3 DEF AskAdmin, ByDelegation
  <2>2. QED BY <1>1, <1>3, <2>1, DelegationStep DEF Delegates
<1>4. CASE ~IsOrgAdminOrOwner(req.user, req.copy.org)
  <2>1. PICK n : n = [req EXCEPT !.pc = "ancestor"]
    OBVIOUS
  <2>2. To(n)
    BY <1>4, <2>1 DEF AskAdmin, ByDelegation
  <2>3. n \in AccessRequest
    BY <1>1, <2>1 DEF AccessRequest, AccessPc
  <2>4. /\ n.pc = "ancestor" /\ n.act = req.act /\ n.user = req.user /\ n.step = req.step
        /\ n.ticket = req.ticket /\ n.org = req.org /\ n.during = req.during /\ n.could = req.could
        /\ n.answer = req.answer /\ n.copy = req.copy /\ n.scope = req.scope /\ n.phase = req.phase
    BY <1>1, <2>1 DEF AccessRequest
  <2>5. Alike(req, n) /\ Underway(n)
    BY <2>4 DEF Alike, Underway
  <2>6. Shaped(n)
    BY <1>1, <1>2, <2>4 DEF Shaped, Underway, AboutTicket, Judged
  <2>7. ASSUME n.during = 0 PROVE Known(n)
    <3>1. Known(req)
      BY <1>2, <2>4, <2>7 DEF AccessInv, Present
    <3>2. /\ Visible(n) <=> Visible(req)
          /\ CanOperate(n) <=> CanOperate(req)
      BY <2>4 DEF Visible, CanOperate
    <3>3. QED BY <1>1, <1>4, <2>4, <3>1, <3>2 DEF Known
  <2>8. ASSUME n.during <= 1 PROVE Promised(n)
    <3>1. Promised(req)
      BY <1>2, <2>4, <2>8 DEF AccessInv, Prospect
    <3>2. OwnRights(n) /\ DelegatedRights(n) /\ ScopeRights(n, n.scope)
      BY <1>1, <2>4, <2>5, <3>1, RightsAlike, <1>2 DEF Promised, AboutTicket
    <3>3. QED BY <2>4, <3>1, <3>2 DEF Promised
  <2>9. QED BY <1>1, <2>2, <2>3, <2>5, <2>6, <2>7, <2>8, GoStep
<1>5. QED BY <1>3, <1>4

LEMMA AskAncestorHolds == ASSUME AccessInv, AskAncestor PROVE AccessInv'
<1>1. req \in AccessRequest /\ Shaped(req) /\ req.pc = "ancestor" /\ Underway(req)
  BY DEF AccessInv, AccessTypes, AskAncestor, At, Underway
<1>2. req.answer = "none" /\ AboutTicket(req) /\ Judged(req) /\ req.ticket \in Ticket
  BY <1>1 DEF Shaped, Judged, AboutTicket
<1>3. CASE IsAncestorOwner(req.user, req.copy.org, req.copy.path)
  <2>1. IF req.phase = "see" THEN Operate(req) ELSE Passed([req EXCEPT !.phase = "see"])
    BY <1>3 DEF AskAncestor, ByDelegation
  <2>2. QED BY <1>1, <1>3, <2>1, DelegationStep DEF Delegates
<1>4. CASE ~IsAncestorOwner(req.user, req.copy.org, req.copy.path)
  <2> DEFINE a == IF req.phase = "see" THEN "hidden" ELSE "forbidden"
  <2>1. Refused(a) /\ a \in {"hidden", "forbidden"}
    BY <1>4 DEF AskAncestor, ByDelegation
  <2>2. ASSUME req.during = 0
        PROVE  /\ <<req.step, req.ticket>> \notin req.could
               /\ a = "forbidden" <=> <<"read", req.ticket>> \in req.could
    <3>1. Known(req)
      BY <1>2, <2>2, CouldIs
    <3>2. ~Delegates(req)
      BY <1>1, <1>4, <3>1 DEF Known, Delegates
    <3>3. Exists(req.ticket) /\ req.copy = Row(req.ticket) /\ req.scope = Resolve(req.user)
      BY <1>1, <1>2, <3>1 DEF Known, AboutTicket
    <3>4. req.step \in Action /\ TablesTyped /\ req.user \notin Admin
      BY <1>2, CouldIs DEF AccessInv, AccessTypes, Judged
    <3>5. /\ Rule(req.user, "read", req.ticket) => Visible(req)
          /\ Rule(req.user, req.step, req.ticket) => Visible(req) /\ CanOperate(req)
      BY <1>2, <3>2, <3>3, <3>4, RuleIs
    <3>6. IF req.phase = "see" THEN ~Visible(req)
          ELSE ~CanOperate(req) /\ Rule(req.user, "read", req.ticket)
      BY <1>1, <3>1 DEF Known
    <3>7. /\ ~Rule(req.user, req.step, req.ticket)
          /\ a = "forbidden" <=> Rule(req.user, "read", req.ticket)
      BY <3>5, <3>6
    <3>8. <<"read", req.ticket>> \in req.could <=> Rule(req.user, "read", req.ticket)
      BY <1>2, <2>2, CouldIs
    <3>9. <<req.step, req.ticket>> \notin req.could
      BY <1>2, <2>2, <3>7, CouldIs
    <3>10. QED BY <3>7, <3>8, <3>9
  <2> HIDE DEF a
  <2>3. QED BY <1>2, <2>1, <2>2, RefusedStep
<1>5. QED BY <1>3, <1>4

-----------------------------------------------------------------------------
(* The list, the creation, and the beginning and end of a request.         *)

LEMMA ListRolesHolds == ASSUME AccessInv, ListRoles PROVE AccessInv'
<1>1. req \in AccessRequest /\ Shaped(req) /\ req.pc = "roles" /\ req.act = "list" /\ Underway(req)
  BY DEF AccessInv, AccessTypes, ListRoles, At, Underway
<1>2. PICK n : n = [req EXCEPT !.pc = IF req.user \in Admin THEN "query" ELSE "scope",
                               !.scope.all = req.user \in Admin]
  OBVIOUS
<1>3. To(n)
  BY <1>2 DEF ListRoles
<1>4. PICK c \in Scope : c = req.scope
  BY <1>1 DEF AccessRequest
<1>5. [c EXCEPT !.all = req.user \in Admin] \in Scope
  <2>1. [anchors |-> c.anchors, groups |-> c.groups, all |-> req.user \in Admin] \in Scope
    BY DEF Scope
  <2>2. [c EXCEPT !.all = req.user \in Admin]
          = [anchors |-> c.anchors, groups |-> c.groups, all |-> req.user \in Admin]
    BY DEF Scope
  <2>3. QED BY <2>1, <2>2
<1>6. n = [req EXCEPT !.pc = IF req.user \in Admin THEN "query" ELSE "scope",
                      !.scope = [c EXCEPT !.all = req.user \in Admin]]
  BY <1>1, <1>2, <1>4 DEF AccessRequest
<1>7. n \in AccessRequest
  BY <1>1, <1>5, <1>6 DEF AccessRequest, AccessPc
<1>8. /\ n.pc = (IF req.user \in Admin THEN "query" ELSE "scope")
      /\ n.act = req.act /\ n.user = req.user /\ n.step = req.step
      /\ n.ticket = req.ticket /\ n.org = req.org /\ n.during = req.during /\ n.could = req.could
      /\ n.answer = req.answer
  BY <1>1, <1>6 DEF AccessRequest
<1>9. Alike(req, n) /\ Underway(n)
  BY <1>8 DEF Alike, Underway
<1>10. Shaped(n)
  BY <1>1, <1>8 DEF Shaped, Underway, Action
<1>11. Judged(req) => n.pc = "scope"
  BY <1>8 DEF Judged
<1>12. Judged(req) => Known(n) /\ Promised(n)
  BY <1>1, <1>8, <1>11 DEF Known, Promised
<1>13. QED BY <1>1, <1>3, <1>7, <1>9, <1>10, <1>12, GoStep

LEMMA GetFilterHolds == ASSUME AccessInv, GetFilter PROVE AccessInv'
<1>1. req \in AccessRequest /\ Shaped(req) /\ req.pc = "scope" /\ req.act = "list" /\ Underway(req)
  BY DEF AccessInv, AccessTypes, GetFilter, At, Underway
<1>2. TablesTyped /\ Resolve(req.user) \in Scope /\ Judged(req)
  BY <1>1, ResolveTyped DEF AccessInv, AccessTypes, Shaped, Judged
<1>3. PICK n : n = [req EXCEPT !.scope = Resolve(req.user), !.pc = "query"]
  OBVIOUS
<1>4. To(n)
  BY <1>3 DEF GetFilter
<1>5. n \in AccessRequest
  BY <1>1, <1>2, <1>3 DEF AccessRequest, AccessPc
<1>6. /\ n.pc = "query" /\ n.act = req.act /\ n.user = req.user /\ n.step = req.step
      /\ n.ticket = req.ticket /\ n.org = req.org /\ n.during = req.during /\ n.could = req.could
      /\ n.answer = req.answer /\ n.scope = Resolve(req.user)
  BY <1>1, <1>3 DEF AccessRequest
<1>7. Alike(req, n) /\ Underway(n)
  BY <1>6 DEF Alike, Underway
<1>8. Shaped(n)
  BY <1>1, <1>6 DEF Shaped, Underway, Action
<1>9. Known(n)
  BY <1>1, <1>6 DEF Known
<1>10. Promised(n)
  <2>1. Now(req) \subseteq req.could /\ Asked(req) = {"read"} \X Ticket
    BY <1>1, <1>2, AskedIs DEF AccessInv, Present, AccessRequest
  <2>2. ASSUME NEW k \in Ticket, Rule(req.user, "read", k) PROVE <<"read", k>> \in req.could
    <3>1. <<"read", k>> \in Asked(req)
      BY <2>1
    <3>2. Allowed(req.user, <<"read", k>>)
      BY <2>2 DEF Allowed
    <3>3. QED BY <2>1, <3>1, <3>2 DEF Now
  <2>3. \A k \in Matches(n.user, n.scope) : <<"read", k>> \in n.could
    BY <1>2, <1>6, <2>2, MatchesAre DEF Judged
  <2>4. QED BY <1>1, <1>6, <2>3 DEF Promised
<1>11. QED BY <1>1, <1>4, <1>5, <1>7, <1>8, <1>9, <1>10, GoStep

LEMMA QueryHolds == ASSUME AccessInv, Query PROVE AccessInv'
<1> DEFINE seen == Matches(req.user, req.scope)
<1>1. req \in AccessRequest /\ Shaped(req) /\ req.pc = "query" /\ Underway(req)
  BY DEF AccessInv, AccessTypes, Query, At, Underway
<1>2. req.act = "list"
  BY <1>1 DEF Shaped
<1>3. seen \subseteq Ticket
  BY DEF Matches
<1>4. Reply("ok", seen)
  BY DEF Query
<1>5. ShownBy(req, seen) = {"read"} \X seen
  BY <1>2 DEF ShownBy
<1>6. ASSUME Judged(req), req.during <= 1 PROVE ShownBy(req, seen) \subseteq req.could
  <2>1. \A k \in seen : <<"read", k>> \in req.could
    BY <1>1, <1>6 DEF AccessInv, Prospect, Promised
  <2>2. QED BY <1>5, <2>1
<1>7. ASSUME Judged(req), req.during = 0 PROVE ExactBy(req, "ok", seen)
  <2>1. Known(req) /\ req.could = Now(req) /\ Asked(req) = {"read"} \X Ticket
    BY <1>1, <1>2, <1>7, AskedIs DEF AccessInv, Present, AccessRequest
  <2>2. seen = {k \in Ticket : Rule(req.user, "read", k)}
    BY <1>1, <1>7, <2>1, MatchesAre DEF AccessInv, AccessTypes, Known, Judged
  <2>3. \A k : Allowed(req.user, <<"read", k>>) <=> Rule(req.user, "read", k)
    BY DEF Allowed
  <2>4. Now(req) = {"read"} \X seen
    BY <2>1, <2>2, <2>3 DEF Now
  <2>5. QED BY <1>2, <1>5, <2>1, <2>4 DEF ExactBy
<1>8. Deserved(req, "ok", seen)
  BY <1>1, <1>6, <1>7 DEF Deserved, Judged
<1> HIDE DEF seen
<1>9. QED BY <1>1, <1>3, <1>4, <1>8, ReplyStep DEF AccessAnswer

(* What the invariant says of a creation. *)
LEMMA CouldCreate ==
  ASSUME AccessInv, Judged(req), req.act = "create"
  PROVE  /\ MayCreate(req.user, req.org) => <<"create", req.org>> \in req.could
         /\ req.during = 0 =>
              (<<"create", req.org>> \in req.could <=> MayCreate(req.user, req.org))
<1>1. Asked(req) = {"create"} \X {req.org}
  BY AskedIs DEF AccessInv, AccessTypes, AccessRequest
<1>2. Allowed(req.user, <<"create", req.org>>) <=> MayCreate(req.user, req.org)
  BY DEF Allowed
<1>3. <<"create", req.org>> \in Now(req) <=> MayCreate(req.user, req.org)
  BY <1>1, <1>2 DEF Now
<1>4. QED BY <1>3 DEF AccessInv, Present

LEMMA CheckBranchHolds == ASSUME AccessInv, CheckBranch PROVE AccessInv'
<1>1. req \in AccessRequest /\ Shaped(req) /\ req.pc = "roles" /\ req.act = "create" /\ Underway(req)
  BY DEF AccessInv, AccessTypes, CheckBranch, At, Underway
<1>2. PICK n : n = [req EXCEPT !.pc = IF IsInOrgBranch(req.user, req.org) THEN "insert" ELSE "global"]
  OBVIOUS
<1>3. To(n)
  BY <1>2 DEF CheckBranch
<1>4. n \in AccessRequest
  BY <1>1, <1>2 DEF AccessRequest, AccessPc
<1>5. /\ n.pc = (IF IsInOrgBranch(req.user, req.org) THEN "insert" ELSE "global")
      /\ n.act = req.act /\ n.user = req.user /\ n.step = req.step
      /\ n.ticket = req.ticket /\ n.org = req.org /\ n.during = req.during /\ n.could = req.could
      /\ n.answer = req.answer
  BY <1>1, <1>2 DEF AccessRequest
<1>6. Alike(req, n) /\ Underway(n)
  BY <1>5 DEF Alike, Underway
<1>7. Shaped(n)
  BY <1>1, <1>5 DEF Shaped, Underway, Action
<1>8. IsInOrgBranch(req.user, req.org) => MayCreate(req.user, req.org)
  BY DEF MayCreate
<1>9. ASSUME Judged(req) PROVE Known(n) /\ Promised(n)
  BY <1>1, <1>5, <1>8, <1>9, CouldCreate DEF Known, Promised
<1>10. QED BY <1>1, <1>3, <1>4, <1>6, <1>7, <1>9, GoStep

LEMMA CheckGlobalHolds == ASSUME AccessInv, CheckGlobal PROVE AccessInv'
<1>1. req \in AccessRequest /\ Shaped(req) /\ req.pc = "global" /\ Underway(req)
  BY DEF AccessInv, AccessTypes, CheckGlobal, At, Underway
<1>2. req.act = "create"
  BY <1>1 DEF Shaped
<1>3. PICK pc : pc = IF req.user \in Admin THEN "insert" ELSE "manage"
  OBVIOUS
<1>4. PICK n : n = [req EXCEPT !.pc = pc]
  OBVIOUS
<1>5. To(n)
  BY <1>3, <1>4 DEF CheckGlobal
<1>6. n \in AccessRequest
  BY <1>1, <1>3, <1>4 DEF AccessRequest, AccessPc
<1>7. /\ n.pc = pc /\ n.act = req.act /\ n.user = req.user /\ n.step = req.step
      /\ n.ticket = req.ticket /\ n.org = req.org /\ n.during = req.during /\ n.could = req.could
      /\ n.answer = req.answer
  BY <1>1, <1>4 DEF AccessRequest
<1>8. Alike(req, n) /\ Underway(n)
  BY <1>3, <1>7 DEF Alike, Underway
<1>9. Shaped(n)
  BY <1>1, <1>2, <1>3, <1>7 DEF Shaped, Underway, Action
<1>10. ASSUME Judged(req), n.during = 0 PROVE Known(n)
  <2>1. n.pc = "manage" /\ req.during = 0
    BY <1>3, <1>7, <1>10 DEF Judged
  <2>2. ~IsInOrgBranch(req.user, req.org)
    BY <1>1, <1>10, <2>1 DEF AccessInv, Present, Known
  <2>3. QED BY <1>2, <1>7, <2>1, <2>2 DEF Known
<1>11. ASSUME Judged(req) PROVE Promised(n)
  <2>1. n.pc = "manage"
    BY <1>3, <1>7, <1>11 DEF Judged
  <2>2. QED BY <1>2, <1>7, <2>1 DEF Promised
<1>12. QED BY <1>1, <1>5, <1>6, <1>8, <1>9, <1>10, <1>11, GoStep

LEMMA HasOrgManagePermissionHolds == ASSUME AccessInv, HasOrgManagePermission PROVE AccessInv'
<1>1. req \in AccessRequest /\ Shaped(req) /\ req.pc = "manage" /\ Underway(req)
  BY DEF AccessInv, AccessTypes, HasOrgManagePermission, At, Underway
<1>2. req.act = "create"
  BY <1>1 DEF Shaped
<1>3. CASE req.user \in Manager
  <2>1. PICK n : n = [req EXCEPT !.pc = "insert"]
    OBVIOUS
  <2>2. To(n)
    BY <1>3, <2>1 DEF HasOrgManagePermission
  <2>3. n \in AccessRequest
    BY <1>1, <2>1 DEF AccessRequest, AccessPc
  <2>4. /\ n.pc = "insert" /\ n.act = req.act /\ n.user = req.user /\ n.step = req.step
        /\ n.ticket = req.ticket /\ n.org = req.org /\ n.during = req.during /\ n.could = req.could
        /\ n.answer = req.answer
    BY <1>1, <2>1 DEF AccessRequest
  <2>5. Alike(req, n) /\ Underway(n)
    BY <2>4 DEF Alike, Underway
  <2>6. Shaped(n)
    BY <1>1, <1>2, <2>4 DEF Shaped, Underway, Action
  <2>7. MayCreate(req.user, req.org)
    BY <1>3 DEF MayCreate, IsGlobalOrgAdmin
  <2>8. ASSUME Judged(req) PROVE Known(n) /\ Promised(n)
    BY <1>2, <2>4, <2>7, <2>8, CouldCreate DEF Known, Promised
  <2>9. QED BY <1>1, <2>2, <2>3, <2>5, <2>6, <2>8, GoStep
<1>4. CASE req.user \notin Manager
  <2>1. Reply("forbidden", {})
    BY <1>4 DEF HasOrgManagePermission
  <2>2. ASSUME Judged(req), req.during = 0 PROVE ExactBy(req, "forbidden", {})
    <3>1. ~MayCreate(req.user, req.org)
      BY <1>1, <1>4, <2>2 DEF AccessInv, Present, Known, MayCreate, IsGlobalOrgAdmin, Judged
    <3>2. <<"create", req.org>> \notin req.could
      BY <1>2, <2>2, <3>1, CouldCreate
    <3>3. QED BY <1>2, <3>2 DEF ExactBy
  <2>3. Deserved(req, "forbidden", {})
    BY <1>1, <2>2 DEF Deserved, Judged
  <2>4. QED BY <1>1, <2>1, <2>3, ReplyStep DEF AccessAnswer
<1>5. QED BY <1>3, <1>4

LEMMA InsertHolds == ASSUME AccessInv, Insert PROVE AccessInv'
<1>1. req \in AccessRequest /\ Shaped(req) /\ req.pc = "insert" /\ Underway(req)
  BY DEF AccessInv, AccessTypes, Insert, At, Underway
<1>2. req.act = "create" /\ req.user \in User /\ req.org \in Org /\ req.ticket \in Ticket
  BY <1>1 DEF Shaped
<1>3. CASE Exists(req.ticket)
  <2>1. Reply("failed", {})
    BY <1>3 DEF Insert
  <2>2. Deserved(req, "failed", {})
    BY DEF Deserved
  <2>3. QED BY <1>1, <2>1, <2>2, ReplyStep DEF AccessAnswer
<1>4. CASE ~Exists(req.ticket)
  <2>1. /\ Answer("ok", {}) /\ changes' = changes /\ UNCHANGED <<path, opaque, owners, row>>
        /\ ticket' = [ticket EXCEPT ![req.ticket] =
                        [NoTicket EXCEPT !.org = req.org, !.creator = req.user]]
    BY <1>4 DEF Insert
  <2>2. [NoTicket EXCEPT !.org = req.org, !.creator = req.user] \in TicketRow
    <3>1. NoTicket \in TicketRow
      BY DEF NoTicket, TicketRow
    <3>2. PICK t \in TicketRow : t = NoTicket
      BY <3>1
    <3>3. [t EXCEPT !.org = req.org, !.creator = req.user] \in TicketRow
      BY <1>2 DEF TicketRow
    <3>4. QED BY <3>2, <3>3
  <2>3. TablesTyped'
    BY <1>2, <2>1, <2>2 DEF AccessInv, AccessTypes, TablesTyped
  <2>4. ASSUME Judged(req), req.during <= 1 PROVE <<"create", req.org>> \in req.could
    BY <1>1, <2>4 DEF AccessInv, Prospect, Promised
  <2>5. Deserved(req, "ok", {})
    <3>1. req.during = 0 => req.during <= 1
      OBVIOUS
    <3>2. QED BY <1>1, <1>2, <2>4, <3>1 DEF Deserved, Judged, ShownBy, ExactBy
  <2>6. QED BY <1>1, <2>1, <2>3, <2>5, AnswerStep DEF AccessAnswer
<1>5. QED BY <1>3, <1>4

LEMMA FailHolds == ASSUME AccessInv, Fail PROVE AccessInv'
<1>1. PICK a \in {"failed", "refused"} : Reply(a, {})
  BY DEF Fail
<1>2. Underway(req) /\ a \in AccessAnswer
  BY <1>1 DEF Fail, Underway, AccessAnswer
<1>3. Deserved(req, a, {})
  BY <1>1 DEF Deserved
<1>4. QED BY <1>1, <1>2, <1>3, ReplyStep

LEMMA FinishHolds == ASSUME AccessInv, Finish PROVE AccessInv'
<1>1. req' = IdleReq /\ UNCHANGED tables /\ changes' = changes
  BY DEF Finish, To
<1>2. NoTicket \in TicketRow /\ NoScope \in Scope /\ "read" \in Verb
  BY DEF NoTicket, TicketRow, NoScope, Scope, Verb, Action
<1>3. IdleReq \in AccessRequest
  BY <1>2 DEF IdleReq, AccessRequest, AccessPc, AccessAnswer
<1>4. IdleReq.pc = "idle" /\ IdleReq.answer = "none" /\ IdleReq.during = 0
  BY DEF IdleReq
<1>5. AccessTypes'
  <2>1. TablesTyped'
    BY <1>1, TablesStay DEF AccessInv, AccessTypes
  <2>2. Shaped(req)'
    BY <1>1, <1>4 DEF Shaped, Underway
  <2>3. QED BY <1>1, <1>3, <1>4, <2>1, <2>2, AccessAssumption DEF AccessInv, AccessTypes
<1>6. Present' /\ Prospect'
  BY <1>1, <1>4 DEF Present, Prospect, Judged, Underway
<1>7. GrantedWasAllowed' /\ UndisturbedIsExact'
  BY <1>1, <1>4 DEF GrantedWasAllowed, Granted, UndisturbedIsExact, At
<1>8. QED BY <1>5, <1>6, <1>7 DEF AccessInv

LEMMA AskedTyped ==
  ASSUME NEW r, r.act \in Verb, r.act # "list" => r.ticket \in Ticket, r.act = "create" => r.org \in Org
  PROVE  Asked(r) \subseteq Verb \X (Ticket \cup Org)
<1>1. CASE r.act = "list"
  BY <1>1, AskedIs DEF Verb, Action
<1>2. CASE r.act = "comments"
  BY <1>2, AskedIs DEF Verb, Action
<1>3. CASE r.act = "relations"
  BY <1>3, AskedIs DEF Verb, Action
<1>4. CASE r.act = "create"
  BY <1>4, AskedIs DEF Verb, Action
<1>5. CASE r.act \in Action
  <2>1. Asked(r) = {r.act, "read"} \X {r.ticket} /\ r.ticket \in Ticket
    BY <1>5, AskedIs DEF Action
  <2>2. QED BY <2>1 DEF Verb, Action
<1>6. QED BY <1>1, <1>2, <1>3, <1>4, <1>5, AskedIs

(* A request comes. *)
LEMMA BeginStep ==
  ASSUME AccessInv, NEW r, r \in AccessRequest, Begin(r),
         r.user \in User, r.answer = "none", r.during = 0,
         r.act # "list" => r.ticket \in Ticket, r.act = "create" => r.org \in Org,
         r.act \in Action => r.step = r.act, r.act \notin Action => r.step = "read"
  PROVE  AccessInv'
<1>1. PICK b : b = [r EXCEPT !.pc = "roles"]
  OBVIOUS
<1>2. /\ b.act = r.act /\ b.user = r.user /\ b.ticket = r.ticket /\ b.org = r.org
      /\ b.pc = "roles" /\ b.during = 0 /\ b.answer = "none" /\ b.step = r.step
  BY <1>1 DEF AccessRequest
<1>3. b \in AccessRequest
  BY <1>1 DEF AccessRequest, AccessPc
<1>4. PICK n : n = [b EXCEPT !.could = {w \in Asked(b) : Allowed(b.user, w)}]
  OBVIOUS
<1>5. req' = n /\ UNCHANGED tables /\ changes' = changes
  BY <1>1, <1>4 DEF Begin, To
<1>6. b.act \in Verb /\ Asked(b) \subseteq Verb \X (Ticket \cup Org)
  BY <1>2, <1>3, AskedTyped DEF AccessRequest
<1>7. n \in AccessRequest
  BY <1>3, <1>4, <1>6 DEF AccessRequest
<1>8. /\ n.act = b.act /\ n.user = b.user /\ n.ticket = b.ticket /\ n.org = b.org
      /\ n.pc = "roles" /\ n.during = 0 /\ n.answer = "none" /\ n.step = b.step
      /\ n.could = {w \in Asked(b) : Allowed(b.user, w)}
  BY <1>2, <1>3, <1>4 DEF AccessRequest
<1>9. n.could = Now(n)
  BY <1>8, AskedSame DEF Now
<1>10. AccessTypes'
  <2>1. TablesTyped'
    BY <1>5, TablesStay DEF AccessInv, AccessTypes
  <2>2. Shaped(n)
    BY <1>2, <1>8 DEF Shaped, Underway, Action
  <2>3. Shaped(req)'
    BY <1>5, <2>2 DEF Shaped, Underway, AboutTicket
  <2>4. QED BY <1>5, <1>7, <1>8, <2>1, <2>3, AccessAssumption DEF AccessInv, AccessTypes
<1>11. Known(n) /\ Promised(n)
  <2>1. ~(n.act = "comments" /\ n.step = "note")
    BY <1>2, <1>8 DEF Action
  <2>2. QED BY <1>8, <2>1 DEF Known, Promised
<1>12. Known(n)' /\ Promised(n)' /\ Now(n)' = n.could
  BY <1>5, <1>9, <1>11, ReadsStay
<1>13. Known(req)' /\ Promised(req)' /\ Now(req)' = (req.could)'
  <2>1. Now(req)' = Now(n)'
    BY <1>5 DEF Now, Asked
  <2>2. Known(req)' <=> Known(n)'
    BY <1>5 DEF Known, Visible, CanOperate
  <2>3. Promised(req)' <=> Promised(n)'
    BY <1>5 DEF Promised, OwnRights, ScopeRights, DelegatedRights, Rights, Asked
  <2>4. QED BY <1>5, <1>12, <2>1, <2>2, <2>3
<1>14. Present' /\ Prospect'
  BY <1>13 DEF Present, Prospect
<1>15. GrantedWasAllowed' /\ UndisturbedIsExact'
  BY <1>5, <1>8 DEF GrantedWasAllowed, Granted, UndisturbedIsExact, At
<1>16. QED BY <1>10, <1>14, <1>15 DEF AccessInv

LEMMA IdleIs ==
  /\ IdleReq \in AccessRequest /\ IdleReq.answer = "none" /\ IdleReq.during = 0
  /\ IdleReq.step = "read" /\ IdleReq.pc = "idle"
<1>1. NoTicket \in TicketRow /\ NoScope \in Scope /\ "read" \in Verb
  BY DEF NoTicket, TicketRow, NoScope, Scope, Verb, Action
<1>2. QED BY <1>1 DEF IdleReq, AccessRequest, AccessPc, AccessAnswer

LEMMA AskHolds ==
  ASSUME AccessInv, NEW a \in Action, NEW u \in User, NEW k \in Ticket, Ask(a, u, k)
  PROVE  AccessInv'
<1>1. PICK r : r = [IdleReq EXCEPT !.act = a, !.step = a, !.user = u, !.ticket = k]
  OBVIOUS
<1>2. r \in AccessRequest
  BY <1>1, IdleIs DEF AccessRequest, Verb
<1>3. /\ r.act = a /\ r.step = a /\ r.user = u /\ r.ticket = k /\ r.answer = "none"
      /\ r.during = 0
  BY <1>1, IdleIs DEF AccessRequest
<1>4. a \notin {"list", "create"}
  BY DEF Action
<1>5. Begin(r)
  BY <1>1 DEF Ask
<1>6. QED BY <1>2, <1>3, <1>4, <1>5, BeginStep

LEMMA ArriveHolds == ASSUME AccessInv, Arrive PROVE AccessInv'
<1>1. PICK u \in User :
        \/ \E k \in Ticket :
             \/ Get(u, k) \/ Update(u, k) \/ Close(u, k) \/ Assign(u, k) \/ Delete(u, k)
             \/ CreateComment(u, k) \/ CreateNote(u, k) \/ ListComments(u, k) \/ ListRelations(u, k)
             \/ \E o \in Org : Create(u, k, o)
        \/ List(u)
  BY DEF Arrive
<1>2. ASSUME NEW k \in Ticket,
             \/ Get(u, k) \/ Update(u, k) \/ Close(u, k) \/ Assign(u, k) \/ Delete(u, k)
             \/ CreateComment(u, k) \/ CreateNote(u, k)
      PROVE  AccessInv'
  <2>1. \E a \in Action : Ask(a, u, k)
    BY <1>2 DEF Get, Update, Close, Assign, Delete, CreateComment, CreateNote, Action
  <2>2. QED BY <2>1, AskHolds
<1>3. ASSUME NEW k \in Ticket, ListComments(u, k) PROVE AccessInv'
  <2>1. PICK r : r = [IdleReq EXCEPT !.act = "comments", !.user = u, !.ticket = k]
    OBVIOUS
  <2>2. r \in AccessRequest
    BY <2>1, IdleIs DEF AccessRequest, Verb
  <2>3. /\ r.act = "comments" /\ r.step = "read" /\ r.user = u /\ r.ticket = k
        /\ r.answer = "none" /\ r.during = 0
    BY <2>1, IdleIs DEF AccessRequest
  <2>4. Begin(r)
    BY <1>3, <2>1 DEF ListComments
  <2>5. QED BY <2>2, <2>3, <2>4, BeginStep DEF Action
<1>4. ASSUME NEW k \in Ticket, ListRelations(u, k) PROVE AccessInv'
  <2>1. PICK r : r = [IdleReq EXCEPT !.act = "relations", !.user = u, !.ticket = k]
    OBVIOUS
  <2>2. r \in AccessRequest
    BY <2>1, IdleIs DEF AccessRequest, Verb
  <2>3. /\ r.act = "relations" /\ r.step = "read" /\ r.user = u /\ r.ticket = k
        /\ r.answer = "none" /\ r.during = 0
    BY <2>1, IdleIs DEF AccessRequest
  <2>4. Begin(r)
    BY <1>4, <2>1 DEF ListRelations
  <2>5. QED BY <2>2, <2>3, <2>4, BeginStep DEF Action
<1>5. ASSUME List(u) PROVE AccessInv'
  <2>1. PICK r : r = [IdleReq EXCEPT !.act = "list", !.user = u]
    OBVIOUS
  <2>2. r \in AccessRequest
    BY <2>1, IdleIs DEF AccessRequest, Verb
  <2>3. /\ r.act = "list" /\ r.step = "read" /\ r.user = u /\ r.answer = "none" /\ r.during = 0
    BY <2>1, IdleIs DEF AccessRequest
  <2>4. Begin(r)
    BY <1>5, <2>1 DEF List
  <2>5. QED BY <2>2, <2>3, <2>4, BeginStep DEF Action
<1>6. ASSUME NEW k \in Ticket, NEW o \in Org, Create(u, k, o) PROVE AccessInv'
  <2>1. PICK r : r = [IdleReq EXCEPT !.act = "create", !.user = u, !.ticket = k, !.org = o]
    OBVIOUS
  <2>2. r \in AccessRequest
    BY <2>1, IdleIs DEF AccessRequest, Verb
  <2>3. /\ r.act = "create" /\ r.step = "read" /\ r.user = u /\ r.ticket = k /\ r.org = o
        /\ r.answer = "none" /\ r.during = 0
    BY <2>1, IdleIs DEF AccessRequest
  <2>4. Begin(r)
    BY <1>6, <2>1 DEF Create
  <2>5. QED BY <2>2, <2>3, <2>4, BeginStep DEF Action
<1>7. QED BY <1>1, <1>2, <1>3, <1>4, <1>5, <1>6

-----------------------------------------------------------------------------
(* The changes.                                                            *)

(* What a change makes of a request that is underway. *)
Later(n) ==
  /\ n.act = req.act /\ n.pc = req.pc /\ n.step = req.step /\ n.user = req.user
  /\ n.ticket = req.ticket /\ n.org = req.org /\ n.copy = req.copy /\ n.scope = req.scope
  /\ n.phase = req.phase /\ n.answer = req.answer
  /\ n.during = req.during + 1
  /\ n.could = req.could \cup {w \in Asked(req) : \E u \in {req.user} : Allowed(u, w)'}

(* A change keeps the invariant when it keeps the types and the promises. *)
LEMMA ChangeStep ==
  ASSUME AccessInv, Change, TablesTyped',
         \A n \in AccessRequest :
           Judged(req) /\ req.during = 0 /\ Later(n) => Promised(n)'
  PROVE  AccessInv'
<1>1. /\ req \in AccessRequest /\ Shaped(req) /\ changes \in 0..MaxChange /\ req.during \in 0..changes
      /\ changes' = changes + 1 /\ changes < MaxChange /\ MaxChange \in Nat
  BY AccessAssumption DEF AccessInv, AccessTypes, Change
<1>2. CASE req.pc \in {"idle", "done"}
  <2>1. req' = req
    BY <1>2 DEF Change
  <2>2. AccessTypes'
    <3>1. Shaped(req)'
      BY <1>1, <2>1 DEF Shaped, Underway, AboutTicket
    <3>2. (changes \in 0..MaxChange)' /\ (req.during \in 0..changes)'
      BY <1>1, <2>1
    <3>3. QED BY <1>1, <2>1, <3>1, <3>2 DEF AccessTypes
  <2>3. Present' /\ Prospect'
    BY <1>2, <2>1 DEF Present, Prospect, Judged, Underway
  <2>4. GrantedWasAllowed' /\ UndisturbedIsExact'
    BY <2>1 DEF AccessInv, GrantedWasAllowed, Granted, Shown, UndisturbedIsExact, At
  <2>5. QED BY <2>2, <2>3, <2>4 DEF AccessInv
<1>3. CASE req.pc \notin {"idle", "done"}
  <2> DEFINE more == {w \in Asked(req) : \E u \in {req.user} : Allowed(u, w)'}
  <2>1. PICK n : n = [req EXCEPT !.during = @ + 1, !.could = @ \cup more]
    OBVIOUS
  <2>2. req' = n
    BY <1>3, <2>1 DEF Change
  <2>3. req.act \in Verb /\ req.user \in User /\ Underway(req)
        /\ (req.act # "list" => req.ticket \in Ticket) /\ (req.act = "create" => req.org \in Org)
    BY <1>1, <1>3 DEF Shaped, Underway, AccessRequest
  <2>4. more \subseteq Verb \X (Ticket \cup Org)
    BY <2>3, AskedTyped
  <2> HIDE DEF more
  <2>5. n \in AccessRequest
    <3>1. req.could \cup more \in SUBSET (Verb \X (Ticket \cup Org)) /\ req.during + 1 \in Nat
      BY <1>1, <2>4 DEF AccessRequest
    <3>2. n = [req EXCEPT !.during = req.during + 1, !.could = req.could \cup more]
      BY <1>1, <2>1 DEF AccessRequest
    <3>3. QED BY <1>1, <3>1, <3>2 DEF AccessRequest
  <2>6. Later(n)
    BY <1>1, <2>1 DEF Later, AccessRequest, more
  <2>7. n.during \in 0..(changes + 1) /\ n.during # 0 /\ (n.during <= 1 => req.during = 0)
    BY <1>1, <2>6 DEF Later
  <2>8. Shaped(n)
    BY <1>1, <2>6 DEF Shaped, Later, Underway, AboutTicket
  <2>9. AccessTypes'
    <3>1. Shaped(req)'
      BY <2>2, <2>8 DEF Shaped, Underway, AboutTicket
    <3>2. (changes \in 0..MaxChange)' /\ (req.during \in 0..changes)'
      BY <1>1, <2>2, <2>7
    <3>3. QED BY <2>2, <2>5, <3>1, <3>2 DEF AccessTypes
  <2>10. (Judged(req))' <=> Judged(req)
    BY <2>2, <2>6 DEF Judged, Underway, Later
  <2>11. Now(req)' \subseteq n.could
    <3>1. Now(req)' = {w \in Asked(n) : Allowed(n.user, w)'}
      BY <2>2 DEF Now, Asked
    <3>2. Asked(n) = Asked(req)
      BY <2>6, AskedSame DEF Later
    <3>3. n.user \in {req.user}
      BY <2>6 DEF Later
    <3>4. \A w \in Asked(req) : Allowed(n.user, w)' => \E u \in {req.user} : Allowed(u, w)'
      BY <3>3
    <3>5. QED BY <2>6, <3>1, <3>2, <3>4 DEF Later
  <2>12. Present'
    BY <2>2, <2>7, <2>11 DEF Present
  <2>13. Prospect'
    <3>1. ASSUME Judged(req), n.during <= 1 PROVE Promised(n)'
      BY <2>5, <2>6, <2>7, <3>1
    <3>2. Promised(req)' <=> Promised(n)'
      BY <2>2 DEF Promised, OwnRights, ScopeRights, DelegatedRights, Rights, Asked
    <3>3. QED BY <2>2, <2>10, <3>1, <3>2 DEF Prospect
  <2>14. n.answer = "none" /\ n.pc # "done"
    BY <1>1, <1>3, <2>6 DEF Shaped, Later
  <2>15. GrantedWasAllowed' /\ UndisturbedIsExact'
    BY <2>2, <2>14 DEF GrantedWasAllowed, Granted, UndisturbedIsExact, At
  <2>16. QED BY <2>9, <2>12, <2>13, <2>15 DEF AccessInv
<1>4. QED BY <1>2, <1>3

(* What the user may do after a change is in could. *)
LEMMA LaterCould ==
  ASSUME AccessInv, Judged(req), NEW n \in AccessRequest, Later(n)
  PROVE  /\ req.could \subseteq n.could /\ n.user = req.user /\ n.ticket = req.ticket
         /\ \A A : Rights(req, A) => Rights(n, A)
         /\ Asked(n) = Asked(req)
         /\ \A a, k : <<a, k>> \in Asked(req) /\ a # "create" /\ Rule(n.user, a, k)'
                        => <<a, k>> \in n.could
<1>1. req.could \subseteq n.could /\ n.user = req.user /\ n.ticket = req.ticket
  BY DEF Later
<1>2. Asked(n) = Asked(req)
  BY AskedSame DEF Later
<1>3. \A A : Rights(req, A) => Rights(n, A)
  BY <1>1, <1>2 DEF Rights
<1>4. ASSUME NEW a, NEW k, <<a, k>> \in Asked(req), a # "create", Rule(n.user, a, k)'
      PROVE  <<a, k>> \in n.could
  <2>1. PICK w : w = <<a, k>>
    OBVIOUS
  <2>2. w[1] = a /\ w[2] = k
    BY <2>1
  <2>3. Allowed(n.user, w)'
    BY <1>4, <2>2 DEF Allowed
  <2>4. n.user \in {req.user}
    BY <1>1
  <2>5. \E u \in {req.user} : Allowed(u, w)'
    BY <2>3, <2>4
  <2>6. w \in Asked(req)
    BY <1>4, <2>1
  <2>7. QED BY <2>1, <2>5, <2>6 DEF Later
<1>5. QED BY <1>1, <1>2, <1>3, <1>4

LEMMA RowIsNext ==
  ASSUME TablesTyped', NEW k \in Ticket, Exists(k)'
  PROVE  /\ ticket'[k].org \in Org
         /\ Row(k)'.org = ticket'[k].org /\ Row(k)'.path = path'[ticket'[k].org]
         /\ Row(k)'.creator = ticket'[k].creator /\ Row(k)'.assignee = ticket'[k].assignee
<1>1. ticket'[k] \in TicketRow /\ ticket'[k].org # NoOrg
  BY DEF TablesTyped, Exists
<1>2. PICK t \in TicketRow : t = ticket'[k]
  BY <1>1
<1>3. t.org \in Org
  BY <1>1, <1>2 DEF TicketRow
<1>4. Row(k)' = [t EXCEPT !.path = path'[t.org]]
  BY <1>2 DEF Row, Exists
<1>5. /\ [t EXCEPT !.path = path'[t.org]].org = t.org
      /\ [t EXCEPT !.path = path'[t.org]].path = path'[t.org]
      /\ [t EXCEPT !.path = path'[t.org]].creator = t.creator
      /\ [t EXCEPT !.path = path'[t.org]].assignee = t.assignee
  BY DEF TicketRow
<1>6. QED BY <1>2, <1>3, <1>4, <1>5

(* What the rules allow after a change. *)
LEMMA RuleNext ==
  ASSUME TablesTyped', NEW u, NEW k \in Ticket, Exists(k)'
  PROVE  /\ u \in {ticket'[k].creator, ticket'[k].assignee} => Rule(u, "read", k)'
         /\ \A o, p, a : o = ticket'[k].org
                           /\ (IsOrgAdminOrOwner(u, o)' \/ IsAncestorOwner(u, o, p)')
                         => Rule(u, a, k)'
         /\ Resolve(u)'.all => \A a \in {"read", "comment", "assign"} : Rule(u, a, k)'
         /\ PathInAnchors(path'[ticket'[k].org], ReadPaths(Resolve(u)'))
              => \A a \in {"read", "comment"} : Rule(u, a, k)'
         /\ PathInAnchors(path'[ticket'[k].org], Resolve(u)'.groups) => Rule(u, "assign", k)'
<1>1. /\ Row(k)'.org = ticket'[k].org /\ Row(k)'.path = path'[ticket'[k].org]
  BY RowIsNext
<1>2. u \in {ticket'[k].creator, ticket'[k].assignee} => Rule(u, "read", k)'
  BY DEF Rule
<1>3. ASSUME NEW o, NEW p, NEW a, o = ticket'[k].org,
             IsOrgAdminOrOwner(u, o)' \/ IsAncestorOwner(u, o, p)'
      PROVE  Rule(u, a, k)'
  <2>1. Delegated(u, k)'
    BY <1>1, <1>3 DEF Delegated, IsOrgAdminOrOwner, IsAncestorOwner
  <2>2. QED BY <2>1 DEF Rule
<1>4. Resolve(u)'.all => \A a \in {"read", "comment", "assign"} : Rule(u, a, k)'
  BY DEF Rule
<1>5. PathInAnchors(path'[ticket'[k].org], ReadPaths(Resolve(u)'))
        => \A a \in {"read", "comment"} : Rule(u, a, k)'
  BY <1>1 DEF Rule, PathInAnchors, ReadPaths
<1>6. PathInAnchors(path'[ticket'[k].org], Resolve(u)'.groups) => Rule(u, "assign", k)'
  BY <1>1 DEF Rule, PathInAnchors
<1>7. QED BY <1>2, <1>3, <1>4, <1>5, <1>6

(* The request holds a copy of the ticket. *)
Copied(r) == r.pc \in {"scope", "admin", "ancestor"} /\ r.act # "list"

(* What the request has been promised stays so, whatever changes. *)
LEMMA PromisesStay ==
  ASSUME AccessInv, Judged(req), req.during = 0, NEW n \in AccessRequest, Later(n)
  PROVE  /\ Promised(req) /\ Known(req)
         /\ Copied(n) => OwnRights(n)
         /\ Copied(n) /\ n.pc # "scope" => ScopeRights(n, n.scope)
         /\ \A s : Copied(n) /\ s = Resolve(req.user) /\ n.pc = "scope" => ScopeRights(n, s)
         /\ Copied(n) /\ Delegates(req) => Asked(n) \subseteq n.could
         /\ n.act = "comments" /\ n.step = "note" => <<"read", n.ticket>> \in n.could
         /\ n.pc = "query" => \A k \in Ticket : Rule(n.user, "read", k) => <<"read", k>> \in n.could
         /\ n.pc = "insert" => <<"create", n.org>> \in n.could
<1>1. Promised(req) /\ Known(req)
  <2>1. req.during <= 1
    OBVIOUS
  <2>2. QED BY <2>1 DEF AccessInv, Present, Prospect
<1>2. /\ req.could \subseteq n.could /\ n.user = req.user /\ n.ticket = req.ticket
      /\ \A A : Rights(req, A) => Rights(n, A)
      /\ Asked(n) = Asked(req)
  BY LaterCould
<1>3. /\ n.act = req.act /\ n.pc = req.pc /\ n.step = req.step /\ n.org = req.org
      /\ n.copy = req.copy /\ n.scope = req.scope
  BY DEF Later
<1>4. ASSUME Copied(n) PROVE OwnRights(n)
  <2>1. OwnRights(req)
    BY <1>1, <1>3, <1>4 DEF Copied, Promised
  <2>2. QED BY <1>2, <1>3, <2>1 DEF OwnRights
<1>5. \A s : ScopeRights(req, s) => ScopeRights(n, s)
  BY <1>2, <1>3 DEF ScopeRights
<1>6. Copied(n) /\ n.pc # "scope" => ScopeRights(n, n.scope)
  BY <1>1, <1>3, <1>5 DEF Copied, Promised
<1>7. \A s : Copied(n) /\ s = Resolve(req.user) /\ n.pc = "scope" => ScopeRights(n, s)
  BY <1>1, <1>3, <1>5 DEF Copied, Promised
<1>8. Copied(n) /\ Delegates(req) => Asked(n) \subseteq n.could
  BY <1>1, <1>2, <1>3 DEF Copied, Promised, DelegatedRights, Delegates
<1>9. n.act = "comments" /\ n.step = "note" => <<"read", n.ticket>> \in n.could
  BY <1>1, <1>2, <1>3 DEF Promised
<1>10. ASSUME n.pc = "query", NEW k \in Ticket, Rule(n.user, "read", k) PROVE <<"read", k>> \in n.could
  <2>1. req.scope = Resolve(req.user)
    BY <1>1, <1>3, <1>10 DEF Known
  <2>2. k \in Matches(req.user, req.scope)
    BY <1>2, <1>10, <2>1, MatchesAre DEF AccessInv, AccessTypes, Judged
  <2>3. QED BY <1>1, <1>2, <1>3, <1>10, <2>2 DEF Promised
<1>11. n.pc = "insert" => <<"create", n.org>> \in n.could
  BY <1>1, <1>2, <1>3 DEF Promised
<1>12. QED BY <1>1, <1>4, <1>6, <1>7, <1>8, <1>9, <1>10, <1>11

(* A change of a ticket: the tree and the memberships are the same. *)
LEMMA TicketChange ==
  ASSUME AccessInv, Judged(req), req.during = 0, NEW n \in AccessRequest, Later(n),
         TablesTyped', UNCHANGED <<path, opaque, owners, row>>,
         \A k \in Ticket : Exists(k)' => Exists(k) /\ ticket'[k].org = ticket[k].org
  PROVE  Promised(n)'
<1>1. /\ \A u : Resolve(u)' = Resolve(u)
      /\ \A u, o : IsOrgAdminOrOwner(u, o)' <=> IsOrgAdminOrOwner(u, o)
      /\ \A u, o, p : IsAncestorOwner(u, o, p)' <=> IsAncestorOwner(u, o, p)
      /\ \A u, o : DelegatedVisibility(u, o)' <=> DelegatedVisibility(u, o)
  BY DEF Resolve, Anchor, IsOrgAdminOrOwner, IsAncestorOwner, DelegatedVisibility
<1>2. n.copy = req.copy /\ n.user = req.user /\ n.pc = req.pc /\ n.act = req.act /\ n.scope = req.scope
  BY DEF Later
<1>3. ASSUME Copied(n) PROVE DelegatedRights(n)'
  <2>1. Delegates(req) => Asked(n) \subseteq n.could
    BY <1>3, PromisesStay
  <2>2. QED BY <1>1, <1>2, <2>1 DEF DelegatedRights, Delegates, Asked
<1>4. ASSUME Copied(n) PROVE ScopeRights(n, IF n.pc = "scope" THEN Resolve(n.user) ELSE n.scope)'
  <2>1. ScopeRights(n, IF n.pc = "scope" THEN Resolve(n.user) ELSE n.scope)
    BY <1>2, <1>4, PromisesStay
  <2>2. QED BY <1>1, <2>1 DEF ScopeRights, Rights, Asked
<1>5. ASSUME n.pc = "query", NEW k \in Ticket, Exists(k)', Filter(n.user, n.scope, k)'
      PROVE  <<"read", k>> \in n.could
  <2>1. n.scope = Resolve(n.user) /\ n.act = "list"
    BY <1>2, <1>5, PromisesStay DEF Known, AccessInv, AccessTypes, Shaped, Judged
  <2>2. Exists(k) /\ ticket'[k].org = ticket[k].org
    BY <1>5
  <2>3. /\ Row(k)'.org = ticket[k].org /\ Row(k)'.path = path[ticket[k].org]
        /\ Row(k)'.creator = ticket'[k].creator /\ Row(k)'.assignee = ticket'[k].assignee
        /\ Row(k).org = ticket[k].org /\ Row(k).path = path[ticket[k].org]
    BY <1>5, <2>2, RowIsNext, RowIs DEF AccessInv, AccessTypes
  <2>4. CASE n.user \in {ticket'[k].creator, ticket'[k].assignee}
    <3>1. Rule(n.user, "read", k)'
      BY <1>5, <2>4, RuleNext
    <3>2. <<"read", k>> \in Asked(req)
      BY <1>2, <2>1, AskedIs DEF AccessInv, AccessTypes, AccessRequest
    <3>3. QED BY <3>1, <3>2, LaterCould
  <2>5. CASE n.user \notin {ticket'[k].creator, ticket'[k].assignee}
    <3>1. \/ n.scope.all \/ PathInAnchors(Row(k).path, ReadPaths(n.scope))
          \/ DelegatedVisibility(n.user, Row(k).org)
      BY <1>1, <1>5, <2>3, <2>5 DEF Filter, PathInAnchors, ReadPaths
    <3>2. Filter(n.user, n.scope, k)
      BY <3>1 DEF Filter
    <3>3. k \in Matches(n.user, Resolve(n.user))
      BY <2>1, <2>2, <3>2 DEF Matches
    <3>4. Rule(n.user, "read", k)
      BY <1>2, <3>3, MatchesAre DEF AccessInv, AccessTypes, Judged
    <3>5. QED BY <1>5, <3>4, PromisesStay
  <2>6. QED BY <2>4, <2>5
<1>6. n.pc = "query" => (\A k \in Matches(n.user, n.scope) : <<"read", k>> \in n.could)'
  BY <1>5 DEF Matches
<1>7. Copied(n) => OwnRights(n)'
  BY PromisesStay DEF OwnRights, Rights, Asked
<1>8. QED BY <1>3, <1>4, <1>6, <1>7, PromisesStay DEF Promised, Copied

(* A path of one moment, matched with a scope of the other, puts no right  *)
(* together that neither moment gives.                                     *)
NothingPutTogether ==
  \A d \in Org, u \in User :
    /\ PathInAnchors(path[d], ReadPaths(Resolve(u)')) =>
         \/ PathInAnchors(path[d], ReadPaths(Resolve(u)))
         \/ PathInAnchors(path'[d], ReadPaths(Resolve(u)'))
    /\ PathInAnchors(path[d], Resolve(u)'.groups) =>
         \/ PathInAnchors(path[d], Resolve(u).groups)
         \/ PathInAnchors(path'[d], Resolve(u)'.groups)
    /\ PathInAnchors(path'[d], ReadPaths(Resolve(u))) =>
         \/ PathInAnchors(path[d], ReadPaths(Resolve(u)))
         \/ PathInAnchors(path'[d], ReadPaths(Resolve(u)'))

(* A change of the organizations: the tickets are the same. *)
LEMMA OrgChange ==
  ASSUME AccessInv, Judged(req), req.during = 0, NEW n \in AccessRequest, Later(n),
         TablesTyped', ticket' = ticket, NothingPutTogether
  PROVE  Promised(n)'
<1> DEFINE k == n.ticket
           u == n.user
           o == ticket[k].org
<1>1. /\ n.copy = req.copy /\ n.user = req.user /\ n.pc = req.pc /\ n.act = req.act
      /\ n.scope = req.scope /\ n.ticket = req.ticket
  BY DEF Later
<1>2. \A j : Exists(j)' <=> Exists(j)
  BY DEF Exists
<1>3. TablesTyped /\ req \in AccessRequest /\ Shaped(req) /\ u \in User /\ u \notin Admin
  BY <1>1 DEF AccessInv, AccessTypes, Judged, Shaped
<1>4. ASSUME Copied(n)
      PROVE  /\ AboutTicket(req) /\ k \in Ticket /\ Exists(k) /\ Exists(k)'
             /\ n.copy.org = o /\ n.copy.path = path[o] /\ o \in Org
             /\ ticket'[k].org = o
  <2>1. AboutTicket(req) /\ k \in Ticket
    BY <1>1, <1>3, <1>4 DEF Copied, AboutTicket, Shaped, Judged
  <2>2. Exists(k) /\ n.copy = Row(k)
    BY <1>1, <1>4, PromisesStay DEF Known, Copied
  <2>3. QED BY <1>2, <1>3, <2>1, <2>2, RowIs
<1>5. ASSUME Copied(n), NEW a, Rule(u, a, k)', <<a, k>> \in Asked(req) PROVE <<a, k>> \in n.could
  <2>1. a # "create"
    <3>1. \A w \in Asked(req) : w = <<w[1], k>> /\ w[1] \in Action
      BY <1>3, <1>4, <1>5, AskedOfTicket DEF AccessRequest, Judged
    <3>2. <<a, k>>[1] \in Action
      BY <1>5, <3>1
    <3>3. QED BY <3>2 DEF Action
  <2>2. QED BY <1>1, <1>5, <2>1, LaterCould
<1>6. Asked(n) = Asked(req)
  BY LaterCould
<1>7. ASSUME Copied(n), NEW A, \A a \in A : Rule(u, a, k)' PROVE Rights(n, A)
  BY <1>5, <1>6, <1>7 DEF Rights
<1>8. ASSUME Copied(n) PROVE DelegatedRights(n)'
  <2>1. ASSUME NEW x, NEW y, x = n.copy.org, y = n.copy.path,
               IsOrgAdminOrOwner(u, x)' \/ IsAncestorOwner(u, x, y)'
        PROVE  Asked(n) \subseteq n.could
    <3>1. x = ticket'[k].org
      BY <1>4, <1>8, <2>1
    <3>2. \A a : Rule(u, a, k)'
      BY <1>4, <1>8, <2>1, <3>1, RuleNext
    <3>3. \A w \in Asked(req) : w = <<w[1], k>>
      <4>1. AboutTicket(req) /\ Underway(req) /\ Shaped(req) /\ req.act \in Verb
        BY <1>3, <1>4, <1>8 DEF AccessRequest, Judged
      <4>2. \A w \in Asked(req) : w = <<w[1], req.ticket>> /\ w[1] \in Action
        BY <4>1, AskedOfTicket
      <4>3. QED BY <1>1, <4>2
    <3>4. QED BY <1>5, <1>6, <1>8, <3>2, <3>3
  <2>2. QED BY <2>1 DEF DelegatedRights, Asked
<1>9. ASSUME Copied(n) PROVE ScopeRights(n, IF n.pc = "scope" THEN Resolve(n.user) ELSE n.scope)'
  <2>1. CASE n.pc # "scope"
    <3>1. ScopeRights(n, n.scope)
      BY <1>9, <2>1, PromisesStay
    <3>2. QED BY <2>1, <3>1 DEF ScopeRights, Rights, Asked
  <2>2. CASE n.pc = "scope"
    <3> DEFINE s == Resolve(u)
    <3>1. ScopeRights(n, s)
      BY <1>1, <1>9, <2>2, PromisesStay
    <3>2. Resolve(u)'.all => Rights(n, {"read", "comment", "assign"})
      BY <1>4, <1>7, <1>9, RuleNext
    <3>3. PathInAnchors(n.copy.path, ReadPaths(Resolve(u)')) => Rights(n, {"read", "comment"})
      <4>1. CASE PathInAnchors(path[o], ReadPaths(Resolve(u)))
        BY <1>4, <1>9, <3>1, <4>1 DEF ScopeRights
      <4>2. CASE PathInAnchors(path'[o], ReadPaths(Resolve(u)'))
        <5>1. \A a \in {"read", "comment"} : Rule(u, a, k)'
          BY <1>4, <1>9, <4>2, RuleNext
        <5>2. QED BY <1>7, <1>9, <5>1
      <4>3. QED BY <1>3, <1>4, <1>9, <4>1, <4>2 DEF NothingPutTogether
    <3>4. PathInAnchors(n.copy.path, Resolve(u)'.groups) => Rights(n, {"assign"})
      <4>1. CASE PathInAnchors(path[o], Resolve(u).groups)
        BY <1>4, <1>9, <3>1, <4>1 DEF ScopeRights
      <4>2. CASE PathInAnchors(path'[o], Resolve(u)'.groups)
        <5>1. Rule(u, "assign", k)'
          BY <1>4, <1>9, <4>2, RuleNext
        <5>2. QED BY <1>7, <1>9, <5>1
      <4>3. QED BY <1>3, <1>4, <1>9, <4>1, <4>2 DEF NothingPutTogether
    <3>5. QED BY <2>2, <3>2, <3>3, <3>4 DEF ScopeRights, Rights, Asked, PathInAnchors, ReadPaths
  <2>3. QED BY <2>1, <2>2
<1>10. ASSUME n.pc = "query", NEW j \in Ticket, Exists(j)', Filter(n.user, n.scope, j)'
       PROVE  <<"read", j>> \in n.could
  <2> DEFINE d == ticket[j].org
  <2>1. n.scope = Resolve(n.user) /\ n.act = "list"
    BY <1>1, <1>3, <1>10, PromisesStay DEF Known, Shaped, Judged
  <2>2. Exists(j)
    BY <1>2, <1>10
  <2>3. /\ Row(j)'.org = d /\ Row(j)'.path = path'[d] /\ d \in Org /\ ticket'[j].org = d
        /\ Row(j)'.creator = ticket'[j].creator /\ Row(j)'.assignee = ticket'[j].assignee
        /\ Row(j).org = d /\ Row(j).path = path[d]
    BY <1>3, <1>10, <2>2, RowIsNext, RowIs
  <2>4. ASSUME Filter(n.user, n.scope, j) PROVE <<"read", j>> \in n.could
    <3>1. j \in Matches(n.user, Resolve(n.user))
      BY <2>1, <2>2, <2>4 DEF Matches
    <3>2. Rule(n.user, "read", j)
      BY <1>3, <3>1, MatchesAre
    <3>3. QED BY <1>10, <3>2, PromisesStay
  <2>5. ASSUME Rule(n.user, "read", j)' PROVE <<"read", j>> \in n.could
    <3>1. <<"read", j>> \in Asked(req)
      BY <1>1, <1>3, <2>1, AskedIs DEF AccessRequest
    <3>2. QED BY <2>5, <3>1, LaterCould
  <2>6. CASE n.user \in {ticket'[j].creator, ticket'[j].assignee}
    BY <1>10, <2>5, <2>6, RuleNext
  <2>7. CASE DelegatedVisibility(n.user, Row(j).org)'
    <3>1. PICK x : x = d
      OBVIOUS
    <3>2. IsOrgAdminOrOwner(n.user, x)' \/ \E p : IsAncestorOwner(n.user, x, p)'
      <4>1. DelegatedVisibility(n.user, x)'
        BY <2>3, <2>7, <3>1 DEF DelegatedVisibility
      <4>2. PICK p : p = path'[x]
        OBVIOUS
      <4>3. ASSUME NEW a \in Org, Above(path'[a], path'[x]), n.user \in owners'[a]
            PROVE  IsAncestorOwner(n.user, x, p)'
        BY <4>2, <4>3 DEF IsAncestorOwner
      <4>4. QED BY <4>1, <4>3 DEF DelegatedVisibility, IsOrgAdminOrOwner
    <3>3. Rule(n.user, "read", j)'
      BY <1>10, <2>3, <3>1, <3>2, RuleNext
    <3>4. QED BY <2>5, <3>3
  <2>8. CASE n.scope.all
    BY <2>4, <2>8 DEF Filter
  <2>9. CASE PathInAnchors(path'[d], ReadPaths(n.scope))
    <3>1. CASE PathInAnchors(path[d], ReadPaths(n.scope))
      BY <2>3, <2>4, <3>1 DEF Filter
    <3>2. CASE PathInAnchors(path'[d], ReadPaths(Resolve(n.user)'))
      BY <1>10, <2>3, <2>5, <3>2, RuleNext
    <3>3. QED BY <1>3, <2>1, <2>3, <2>9, <3>1, <3>2 DEF NothingPutTogether
  <2>10. QED BY <1>10, <2>3, <2>6, <2>7, <2>8, <2>9 DEF Filter, PathInAnchors, ReadPaths
<1>11. n.pc = "query" => (\A j \in Matches(n.user, n.scope) : <<"read", j>> \in n.could)'
  BY <1>10 DEF Matches
<1>12. Copied(n) => OwnRights(n)'
  BY PromisesStay DEF OwnRights, Rights, Asked
<1>13. QED BY <1>8, <1>9, <1>11, <1>12, PromisesStay DEF Promised, Copied

(* A change that leaves the paths alone puts nothing together; nor does a  *)
(* move.                                                                   *)
LEMMA PathsSame == ASSUME path' = path PROVE NothingPutTogether
BY DEF NothingPutTogether, PathInAnchors, ReadPaths

(* A move of a subtree, between the read of the scope and that of the ticket
   or the list, in either order. *)
LEMMA MovePutsNothingTogether ==
  ASSUME TablesTyped, TablesTyped', NEW o \in Org, Moved(path, path', o),
         opaque' = opaque, row' = row
  PROVE  NothingPutTogether
<1>1. PICK P \in Paths : P = path /\ IsForest(P)
  BY DEF TablesTyped
<1>2. PICK Q \in Paths : Q = path' /\ IsForest(Q)
  BY DEF TablesTyped, IsForest
<1>3. Moved(P, Q, o) /\ Moved(Q, P, o)
  BY <1>1, <1>2, MovedBack
<1>4. ASSUME NEW u PROVE Resolve(u) = ScopeIn(P, u) /\ Resolve(u)' = ScopeIn(Q, u)
  <2>1. Resolve(u) = ScopeIn(P, u)
    BY <1>1, ResolveIs
  <2>2. Resolve(u)' = ScopeIn(Q, u)
    BY <1>2 DEF Resolve, ScopeIn, MineIn, Anchor, AnchorIn
  <2>3. QED BY <2>1, <2>2
<1>5. \A s, p : PathInAnchors(p, ReadPaths(s))
                  <=> PathInAnchors(p, s.anchors) \/ PathInAnchors(p, s.groups)
  BY DEF PathInAnchors, ReadPaths
<1>6. ASSUME NEW d \in Org, NEW u \in User
      PROVE  /\ PathInAnchors(P[d], ReadPaths(ScopeIn(Q, u))) =>
                  \/ PathInAnchors(P[d], ReadPaths(ScopeIn(P, u)))
                  \/ PathInAnchors(Q[d], ReadPaths(ScopeIn(Q, u)))
             /\ PathInAnchors(P[d], ScopeIn(Q, u).groups) => PathInAnchors(P[d], ScopeIn(P, u).groups)
             /\ PathInAnchors(Q[d], ReadPaths(ScopeIn(P, u))) =>
                  \/ PathInAnchors(P[d], ReadPaths(ScopeIn(P, u)))
                  \/ PathInAnchors(Q[d], ReadPaths(ScopeIn(Q, u)))
  <2>1. /\ PathInAnchors(P[d], ScopeIn(Q, u).groups) => PathInAnchors(P[d], ScopeIn(P, u).groups)
        /\ PathInAnchors(Q[d], ScopeIn(P, u).groups) => PathInAnchors(Q[d], ScopeIn(Q, u).groups)
    BY <1>1, <1>2, MixedGroups
  <2>2. PathInAnchors(P[d], ScopeIn(Q, u).anchors) =>
          \/ PathInAnchors(P[d], ScopeIn(P, u).anchors)
          \/ PathInAnchors(Q[d], ScopeIn(Q, u).anchors)
    BY <1>1, <1>2, <1>3, MixedAnchors
  <2>3. PathInAnchors(Q[d], ScopeIn(P, u).anchors) =>
          \/ PathInAnchors(Q[d], ScopeIn(Q, u).anchors)
          \/ PathInAnchors(P[d], ScopeIn(P, u).anchors)
    BY <1>1, <1>2, <1>3, MixedAnchors
  <2>4. QED BY <1>5, <2>1, <2>2, <2>3
<1>7. ASSUME NEW d \in Org, NEW u \in User
      PROVE  /\ PathInAnchors(path[d], ReadPaths(Resolve(u)')) =>
                  \/ PathInAnchors(path[d], ReadPaths(Resolve(u)))
                  \/ PathInAnchors(path'[d], ReadPaths(Resolve(u)'))
             /\ PathInAnchors(path[d], Resolve(u)'.groups) =>
                  \/ PathInAnchors(path[d], Resolve(u).groups)
                  \/ PathInAnchors(path'[d], Resolve(u)'.groups)
             /\ PathInAnchors(path'[d], ReadPaths(Resolve(u))) =>
                  \/ PathInAnchors(path[d], ReadPaths(Resolve(u)))
                  \/ PathInAnchors(path'[d], ReadPaths(Resolve(u)'))
  BY <1>1, <1>2, <1>4, <1>6
<1>8. QED BY <1>7 DEF NothingPutTogether

(* The two kinds of changes, with the types they leave. *)
LEMMA OrgStep ==
  ASSUME AccessInv, Change, TablesTyped', ticket' = ticket, NothingPutTogether
  PROVE  AccessInv'
BY ChangeStep, OrgChange

LEMMA TicketStep ==
  ASSUME AccessInv, Change, TablesTyped', UNCHANGED <<path, opaque, owners, row>>,
         \A k \in Ticket : Exists(k)' => Exists(k) /\ ticket'[k].org = ticket[k].org
  PROVE  AccessInv'
BY ChangeStep, TicketChange

LEMMA MoveHolds ==
  ASSUME AccessInv, NEW o \in Org, NEW par \in Org \cup {NoOrg}, Move(o, par)
  PROVE  AccessInv'
<1>1. TablesTyped /\ path \in Paths /\ IsForest(path)
  BY DEF AccessInv, AccessTypes, TablesTyped
<1>2. PICK P \in Paths : P = path
  BY <1>1
<1>3. /\ path' = Cascade(P, o, par) /\ NewPath(P, o, par) # P[o]
      /\ par # NoOrg => ~Above(P[o], P[par])
  BY <1>2 DEF Move, Cascade, NewPath
<1>4. Cascade(P, o, par) \in Paths /\ IsForest(Cascade(P, o, par)) /\ Moved(P, Cascade(P, o, par), o)
  BY <1>1, <1>2, <1>3, MoveForest
<1>5. Change /\ UNCHANGED <<opaque, owners, row, ticket>>
  BY DEF Move
<1>6. IsForest(path)'
  BY <1>3, <1>4 DEF IsForest
<1>7. TablesTyped'
  BY <1>1, <1>3, <1>4, <1>5, <1>6 DEF TablesTyped
<1>8. NothingPutTogether
  BY <1>1, <1>2, <1>3, <1>4, <1>5, <1>7, MovePutsNothingTogether
<1>9. QED BY <1>5, <1>7, <1>8, OrgStep

LEMMA UpdateVisibilityHolds ==
  ASSUME AccessInv, NEW o \in Org, UpdateVisibility(o)
  PROVE  AccessInv'
<1>1. TablesTyped /\ Change /\ UNCHANGED <<path, owners, row, ticket>>
  BY DEF AccessInv, AccessTypes, UpdateVisibility
<1>2. opaque' \subseteq Org
  BY <1>1 DEF TablesTyped, UpdateVisibility, SetVisibility
<1>3. TablesTyped'
  BY <1>1, <1>2 DEF TablesTyped, IsForest
<1>4. QED BY <1>1, <1>3, OrgStep, PathsSame

LEMMA AddMemberHolds ==
  ASSUME AccessInv, NEW u \in User, NEW o \in Org, NEW k \in {"member", "admin"},
         NEW s \in {"assigned", "group", "all"}, AddMember(u, o, k, s)
  PROVE  AccessInv'
<1>1. TablesTyped /\ Change /\ UNCHANGED <<path, opaque, owners, ticket>>
  BY DEF AccessInv, AccessTypes, AddMember
<1>2. [role |-> k, scope |-> s] \in Membership
  BY DEF Membership
<1>3. row' \in [User -> [Org -> Membership]]
  BY <1>1, <1>2 DEF TablesTyped, AddMember
<1>4. TablesTyped'
  BY <1>1, <1>3 DEF TablesTyped, IsForest
<1>5. QED BY <1>1, <1>4, OrgStep, PathsSame

LEMMA SetMemberScopeHolds ==
  ASSUME AccessInv, NEW u \in User, NEW o \in Org, NEW s \in {"assigned", "group", "all"},
         SetMemberScope(u, o, s)
  PROVE  AccessInv'
<1>1. TablesTyped /\ Change /\ UNCHANGED <<path, opaque, owners, ticket>>
  BY DEF AccessInv, AccessTypes, SetMemberScope
<1>2. row[u][o] \in Membership
  BY <1>1 DEF TablesTyped
<1>3. [row[u][o] EXCEPT !.scope = s] \in Membership
  BY <1>2 DEF Membership
<1>4. row' = [row EXCEPT ![u] = [row[u] EXCEPT ![o] = [row[u][o] EXCEPT !.scope = s]]]
  BY <1>1 DEF TablesTyped, SetMemberScope
<1>5. row' \in [User -> [Org -> Membership]]
  BY <1>1, <1>3, <1>4 DEF TablesTyped
<1>6. TablesTyped'
  BY <1>1, <1>5 DEF TablesTyped, IsForest
<1>7. QED BY <1>1, <1>6, OrgStep, PathsSame

LEMMA SetMemberRoleHolds ==
  ASSUME AccessInv, NEW u \in User, NEW o \in Org, NEW k \in {"member", "admin"},
         SetMemberRole(u, o, k)
  PROVE  AccessInv'
<1>1. TablesTyped /\ Change /\ UNCHANGED <<path, opaque, owners, ticket>>
  BY DEF AccessInv, AccessTypes, SetMemberRole
<1>2. row[u][o] \in Membership
  BY <1>1 DEF TablesTyped
<1>3. [row[u][o] EXCEPT !.role = k] \in Membership
  BY <1>2 DEF Membership
<1>4. row' = [row EXCEPT ![u] = [row[u] EXCEPT ![o] = [row[u][o] EXCEPT !.role = k]]]
  BY <1>1 DEF TablesTyped, SetMemberRole
<1>5. row' \in [User -> [Org -> Membership]]
  BY <1>1, <1>3, <1>4 DEF TablesTyped
<1>6. TablesTyped'
  BY <1>1, <1>5 DEF TablesTyped, IsForest
<1>7. QED BY <1>1, <1>6, OrgStep, PathsSame

LEMMA OverwriteHolds ==
  ASSUME AccessInv, NEW u \in User, NEW S, Overwrite(u, S)
  PROVE  AccessInv'
<1>1. TablesTyped /\ Change /\ UNCHANGED <<path, opaque, ticket>>
  BY DEF AccessInv, AccessTypes, Overwrite
<1>2. NoRow \in Membership /\ [NoRow EXCEPT !.role = "member"] \in Membership
  BY DEF Membership, NoRow
<1>3. [o \in Org |-> IF o \in S THEN [NoRow EXCEPT !.role = "member"] ELSE NoRow] \in [Org -> Membership]
  BY <1>2
<1>4. row' \in [User -> [Org -> Membership]]
  BY <1>1, <1>3 DEF TablesTyped, Overwrite
<1>5. owners' \in [Org -> SUBSET User]
  BY <1>1 DEF TablesTyped, Overwrite
<1>6. TablesTyped'
  BY <1>1, <1>4, <1>5 DEF TablesTyped, IsForest
<1>7. QED BY <1>1, <1>6, OrgStep, PathsSame

LEMMA RemoveMemberHolds ==
  ASSUME AccessInv, NEW u \in User, NEW o \in Org, RemoveMember(u, o)
  PROVE  AccessInv'
<1>1. TablesTyped /\ Change /\ UNCHANGED <<path, opaque, ticket>>
  BY DEF AccessInv, AccessTypes, RemoveMember
<1>2. NoRow \in Membership
  BY DEF Membership, NoRow
<1>3. row' \in [User -> [Org -> Membership]]
  BY <1>1, <1>2 DEF TablesTyped, RemoveMember
<1>4. owners' \in [Org -> SUBSET User]
  BY <1>1 DEF TablesTyped, RemoveMember
<1>5. TablesTyped'
  BY <1>1, <1>3, <1>4 DEF TablesTyped, IsForest
<1>6. QED BY <1>1, <1>5, OrgStep, PathsSame

LEMMA SetOwnersHolds ==
  ASSUME AccessInv, NEW o \in Org, NEW S \in SUBSET User, SetOwners(o, S)
  PROVE  AccessInv'
<1>1. TablesTyped /\ Change /\ UNCHANGED <<path, opaque, ticket>>
  BY DEF AccessInv, AccessTypes, SetOwners
<1>2. owners' \in [Org -> SUBSET User]
  BY <1>1 DEF TablesTyped, SetOwners
<1>3. ASSUME NEW u \in User
      PROVE  [row[u] EXCEPT ![o].role = IF u \in S THEN "owner" ELSE IF @ = "owner" THEN "member" ELSE @]
               \in [Org -> Membership]
  <2>1. row[u] \in [Org -> Membership] /\ row[u][o] \in Membership
    BY <1>1 DEF TablesTyped
  <2>2. PICK m \in Membership : m = row[u][o]
    BY <2>1
  <2>3. [m EXCEPT !.role = IF u \in S THEN "owner" ELSE IF m.role = "owner" THEN "member" ELSE m.role]
          \in Membership
    BY DEF Membership
  <2>4. QED BY <2>1, <2>2, <2>3
<1>4. row' \in [User -> [Org -> Membership]]
  BY <1>3 DEF SetOwners
<1>5. TablesTyped'
  BY <1>1, <1>2, <1>4 DEF TablesTyped, IsForest
<1>6. QED BY <1>1, <1>5, OrgStep, PathsSame

LEMMA AssignToHolds ==
  ASSUME AccessInv, NEW k \in Ticket, NEW u \in User, AssignTo(k, u)
  PROVE  AccessInv'
<1>1. TablesTyped /\ Change /\ UNCHANGED <<path, opaque, owners, row>>
  BY DEF AccessInv, AccessTypes, AssignTo
<1>2. PICK t \in TicketRow : t = ticket[k]
  BY <1>1 DEF TablesTyped
<1>3. PICK n : n = [t EXCEPT !.assignee = u]
  OBVIOUS
<1>4. n \in TicketRow /\ n.org = t.org
  BY <1>2, <1>3 DEF TicketRow
<1>5. ticket' = [ticket EXCEPT ![k] = n]
  BY <1>2, <1>3 DEF AssignTo, UpdateAssignedTo
<1>6. ticket' \in [Ticket -> TicketRow]
  BY <1>1, <1>4, <1>5 DEF TablesTyped
<1>7. TablesTyped'
  BY <1>1, <1>6 DEF TablesTyped, IsForest
<1>8. \A j \in Ticket : ticket'[j].org = ticket[j].org
  BY <1>1, <1>2, <1>4, <1>5 DEF TablesTyped
<1>9. \A j \in Ticket : Exists(j)' => Exists(j) /\ ticket'[j].org = ticket[j].org
  BY <1>8 DEF Exists
<1>10. QED BY <1>1, <1>7, <1>9, TicketStep

LEMMA DeleteTicketHolds ==
  ASSUME AccessInv, NEW k \in Ticket, DeleteTicket(k)
  PROVE  AccessInv'
<1>1. TablesTyped /\ Change /\ UNCHANGED <<path, opaque, owners, row>>
  BY DEF AccessInv, AccessTypes, DeleteTicket
<1>2. NoTicket \in TicketRow /\ NoTicket.org = NoOrg
  BY DEF NoTicket, TicketRow
<1>3. ticket' = [ticket EXCEPT ![k] = NoTicket]
  BY DEF DeleteTicket
<1>4. ticket' \in [Ticket -> TicketRow]
  BY <1>1, <1>2, <1>3 DEF TablesTyped
<1>5. TablesTyped'
  BY <1>1, <1>4 DEF TablesTyped, IsForest
<1>6. \A j \in Ticket : ticket'[j].org # NoOrg => ticket'[j] = ticket[j]
  BY <1>1, <1>2, <1>3 DEF TablesTyped
<1>7. \A j \in Ticket : Exists(j)' => Exists(j) /\ ticket'[j].org = ticket[j].org
  BY <1>6 DEF Exists
<1>8. QED BY <1>1, <1>5, <1>7, TicketStep

(* Every action keeps the invariant. *)
LEMMA DisturbHolds == ASSUME AccessInv, Disturb PROVE AccessInv'
<1>1. CASE \E o \in Org, par \in Org \cup {NoOrg} : Move(o, par)
  BY <1>1, MoveHolds
<1>2. CASE \E o \in Org : UpdateVisibility(o)
  BY <1>2, UpdateVisibilityHolds
<1>3. CASE \E o \in Org, S \in SUBSET (User \ Admin) : SetOwners(o, S)
  <2>1. PICK o \in Org, S \in SUBSET (User \ Admin) : SetOwners(o, S)
    BY <1>3
  <2>2. S \in SUBSET User
    BY <2>1
  <2>3. QED BY <2>1, <2>2, SetOwnersHolds
<1>4. CASE \E o \in Org, u \in User \ Admin, k \in {"member", "admin"}, s \in {"assigned", "group", "all"} :
             AddMember(u, o, k, s)
  BY <1>4, AddMemberHolds
<1>5. CASE \E o \in Org, u \in User \ Admin, s \in {"assigned", "group", "all"} : SetMemberScope(u, o, s)
  BY <1>5, SetMemberScopeHolds
<1>6. CASE \E o \in Org, u \in User \ Admin : RemoveMember(u, o)
  BY <1>6, RemoveMemberHolds
<1>7. CASE \E k \in Ticket : DeleteTicket(k)
  BY <1>7, DeleteTicketHolds
<1>8. CASE \E k \in Ticket, u \in User : AssignTo(k, u)
  BY <1>8, AssignToHolds
<1>9. CASE \E o \in Org, u \in User \ Admin, k \in {"member", "admin"} : SetMemberRole(u, o, k)
  BY <1>9, SetMemberRoleHolds
<1>10. CASE \E u \in User \ Admin : DeleteUser(u) \/ \E S \in SUBSET Org : SetUserOrgs(u, S)
  BY <1>10, OverwriteHolds DEF DeleteUser, SetUserOrgs
<1>11. QED BY <1>1, <1>2, <1>3, <1>4, <1>5, <1>6, <1>7, <1>8, <1>9, <1>10 DEF Disturb

LEMMA AccessStepHolds == ASSUME AccessInv, Step PROVE AccessInv'
BY GetRolesHolds, GetByIDHolds, ResolveScopeHolds, AskAdminHolds, AskAncestorHolds, ListRolesHolds,
   GetFilterHolds, QueryHolds, CheckBranchHolds, CheckGlobalHolds, HasOrgManagePermissionHolds,
   InsertHolds, FailHolds, FinishHolds
   DEF Step

LEMMA AccessStutter == ASSUME AccessInv, UNCHANGED accessVars PROVE AccessInv'
<1>1. UNCHANGED tables /\ req' = req /\ changes' = changes
  BY DEF accessVars
<1>2. PICK r : r = req
  OBVIOUS
<1>3. TablesTyped'
  BY <1>1, TablesStay DEF AccessInv, AccessTypes
<1>4. AccessTypes'
  BY <1>1, <1>3 DEF AccessInv, AccessTypes, Shaped, AboutTicket, Underway
<1>5. Now(r)' = Now(r) /\ (Known(r)' <=> Known(r)) /\ (Promised(r)' <=> Promised(r))
  BY <1>1, ReadsStay
<1>6. req' = r
  BY <1>1, <1>2
<1>7. Now(req)' = Now(req)
  <2>1. Now(req)' = Now(r)'
    BY <1>6 DEF Now, Asked
  <2>2. QED BY <1>2, <1>5, <2>1
<1>8. Known(req)' <=> Known(req)
  <2>1. Known(req)' <=> Known(r)'
    BY <1>6 DEF Known, Visible, CanOperate
  <2>2. QED BY <1>2, <1>5, <2>1
<1>9. Promised(req)' <=> Promised(req)
  <2>1. Promised(req)' <=> Promised(r)'
    BY <1>6 DEF Promised, OwnRights, ScopeRights, DelegatedRights, Rights, Asked
  <2>2. QED BY <1>2, <1>5, <2>1
<1>10. Present' /\ Prospect'
  BY <1>1, <1>7, <1>8, <1>9 DEF AccessInv, Present, Prospect, Judged, Underway
<1>11. GrantedWasAllowed' /\ UndisturbedIsExact'
  BY <1>1 DEF AccessInv, GrantedWasAllowed, UndisturbedIsExact, Granted, Shown, At
<1>12. QED BY <1>4, <1>10, <1>11 DEF AccessInv

LEMMA AccessStart == ASSUME AccessInit PROVE AccessInv
<1>1. TablesTyped
  <2>1. path \in Paths /\ IsForest(path) /\ opaque \subseteq Org
    BY AccessAssumption DEF AccessInit, Paths, IsForest
  <2>2. owners \in [Org -> SUBSET User]
    BY DEF AccessInit
  <2>3. NoRow \in Membership
    BY DEF NoRow, Membership
  <2>4. row \in [User -> [Org -> Membership]]
    BY <2>3 DEF AccessInit
  <2>5. PICK at \in [SeedTicket -> Org], by \in [SeedTicket -> User] :
          ticket = [k \in Ticket |-> IF k \in SeedTicket
                                     THEN [NoTicket EXCEPT !.org = at[k], !.creator = by[k]]
                                     ELSE NoTicket]
    BY DEF AccessInit
  <2>6. \A o \in Org, u \in User : [NoTicket EXCEPT !.org = o, !.creator = u] \in TicketRow
    <3>1. NoTicket \in TicketRow
      BY DEF NoTicket, TicketRow
    <3>2. PICK t \in TicketRow : t = NoTicket
      BY <3>1
    <3>3. \A o \in Org, u \in User : [t EXCEPT !.org = o, !.creator = u] \in TicketRow
      BY DEF TicketRow
    <3>4. QED BY <3>2, <3>3
  <2>7. NoTicket \in TicketRow
    BY DEF NoTicket, TicketRow
  <2>8. ticket \in [Ticket -> TicketRow]
    BY <2>5, <2>6, <2>7
  <2>9. QED BY <2>1, <2>2, <2>4, <2>8 DEF TablesTyped
<1>2. req = IdleReq /\ changes = 0
  BY DEF AccessInit
<1>3. AccessTypes
  BY <1>1, <1>2, IdleIs, AccessAssumption DEF AccessTypes, Shaped, Underway
<1>4. ~Judged(req) /\ ~Granted /\ ~At("done")
  BY <1>2, IdleIs DEF Judged, Underway, Granted, At
<1>5. QED BY <1>3, <1>4 DEF AccessInv, Present, Prospect, GrantedWasAllowed, UndisturbedIsExact

-----------------------------------------------------------------------------
(* The inductive invariant: the types, what a running request knows, what  *)
(* it may still answer, and the two properties.                            *)
THEOREM AccessInvHolds == AccessSpec => []AccessInv
<1>1. AccessInit => AccessInv
  BY AccessStart
<1>2. AccessInv /\ [AccessNext]_accessVars => AccessInv'
  BY ArriveHolds, AccessStepHolds, DisturbHolds, AccessStutter DEF AccessNext
<1>3. QED BY <1>1, <1>2, PTL DEF AccessSpec

(* The types of the tables, the request and the counters. *)
THEOREM AccessTypeCorrect == AccessSpec => []AccessTypeOK
<1>1. AccessInv => AccessTypeOK
  <2> SUFFICES ASSUME AccessInv PROVE AccessTypeOK
    OBVIOUS
  <2>1. TablesTyped /\ req \in AccessRequest /\ changes \in 0..MaxChange /\ req.during \in 0..changes
    BY DEF AccessInv, AccessTypes
  <2>2. \A k \in Ticket : ticket[k].org \in Org \cup {NoOrg}
    BY <2>1 DEF TablesTyped, TicketRow
  <2>3. req.act \in Verb /\ req.answer \in {"none", "ok", "forbidden", "hidden", "failed", "refused"}
    BY <2>1 DEF AccessRequest, AccessAnswer
  <2>4. req.during \in 0..MaxChange
    BY <2>1, AccessAssumption
  <2>5. QED BY <2>1, <2>2, <2>3, <2>4 DEF AccessTypeOK, TablesTyped, Paths
<1>2. QED BY <1>1, AccessInvHolds, PTL

(* Every move of a subtree leaves the paths of a forest: the path of an    *)
(* organization goes on from that of its parent, and no loop is closed.    *)
THEOREM PathsStayAForest == AccessSpec => []IsForest(path)
<1>1. AccessInv => IsForest(path)
  BY DEF AccessInv, AccessTypes, TablesTyped
<1>2. QED BY <1>1, AccessInvHolds, PTL

(* A request judged by reads of several moments, with at most one change   *)
(* between them, is granted and shows only what the rules of authorize,    *)
(* GetFilter and Create allowed at one moment of it.                       *)
THEOREM GrantsWereAllowed == AccessSpec => []GrantedWasAllowed
<1>1. AccessInv => GrantedWasAllowed
  BY DEF AccessInv
<1>2. QED BY <1>1, AccessInvHolds, PTL

(* Undisturbed, the answer of a request is the one of the rules: 200, 403  *)
(* or 404, the tickets of a list, the internal comments.                   *)
THEOREM AnswersAreExact == AccessSpec => []UndisturbedIsExact
<1>1. AccessInv => UndisturbedIsExact
  BY DEF AccessInv
<1>2. QED BY <1>1, AccessInvHolds, PTL

=============================================================================
