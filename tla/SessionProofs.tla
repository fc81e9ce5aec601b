--------------------------- MODULE SessionProofs ---------------------------
(***************************************************************************)
(* Proofs about Session, for any number of devices, requests, tokens,      *)
(* account changes, failed Redis calls and revocation attempts.            *)
(***************************************************************************)
EXTENDS Session, TLAPS

Opening == {"login", "chpw"}

\* r opens its session on the account as it is now, or was overtaken.
Current(r) == r.gen = gen \/ r.raced

\* Nothing is ahead of the counters.
Bounded ==
  /\ fenced <= gen
  /\ \A t \in Token : tok[t].pwe <= epoch
  /\ \A p \in Request : req[p].epoch <= epoch

\* Tokens in use have been issued, and sit in the slot of their own device.
Allotted ==
  /\ handed \subseteq 1..issued /\ used \subseteq 1..issued
  /\ \A t \in handed : tok[t].dev \in Device
  /\ \A d \in Device : slot[d] # None => slot[d] \in 1..issued /\ tok[slot[d]].dev = d

\* What a request in progress knows at each of its steps: which operation it
\* can belong to, that it names a device, that an opening request is current
\* or overtaken, which token a refresh holds, and that the pair about to be
\* issued will not revive a revoked session.
Informed(p) ==
  /\ req[p].pc \in {"touch", "epoch"} => req[p].op \in Opening
  /\ req[p].pc \in {"find", "consume"} => req[p].op = "refresh"
  /\ req[p].pc = "issue" => req[p].op \in Opening \cup {"refresh"}
  /\ (req[p].pc # "idle" /\ req[p].op \in Opening \cup {"refresh"}) => req[p].dev \in Device
  /\ (req[p].pc # "idle" /\ req[p].op \in Opening) => Current(req[p])
  /\ req[p].pc \in {"find", "consume"}
       => req[p].tok \in handed /\ tok[req[p].tok].dev = req[p].dev
  /\ (req[p].pc = "issue" /\ req[p].op = "refresh") => req[p].tok \in used
  /\ (req[p].pc = "issue" /\ fenced = gen /\ req[p].epoch = epoch) => Current(req[p])

\* NoRevokedSurvivor of all tokens, in a slot or not.
Fenced ==
  fenced = gen => \A t \in 1..issued : tok[t].pwe = epoch => Current(tok[t])

-----------------------------------------------------------------------------
\* Types need two facts more: the password version never passes the generation,
\* and a request at one of these steps carries a token.
Carries ==
  \A p \in Request : req[p].pc \in {"find", "consume", "commit", "blacklist"} => req[p].tok \in Token

Typed == TypeOK /\ db.pw <= gen
TypeInv == Typed /\ Carries

\* The requests between two steps, and the steps' ways of changing them.
LEMMA IdleType == IdleReq \in ReqState
  BY SessionAssumption DEF IdleReq, ReqState, Op, Pc, None

LEMMA GotoType ==
  ASSUME req \in [Request -> ReqState], NEW p \in Request, NEW pc \in Pc, Goto(p, pc)
  PROVE  req' \in [Request -> ReqState]
  BY DEF Goto, ReqState

LEMMA EndType ==
  ASSUME req \in [Request -> ReqState], NEW p \in Request, End(p)
  PROVE  req' \in [Request -> ReqState]
  BY IdleType DEF End

LEMMA BeginType ==
  ASSUME req \in [Request -> ReqState], NEW p \in Request, NEW r \in ReqState, Begin(p, r)
  PROVE  req' \in [Request -> ReqState]
  BY DEF Begin

LEMMA OvertakeType ==
  ASSUME req \in [Request -> ReqState], NEW p \in Request, NEW r \in ReqState, Overtake(p, r)
  PROVE  req' \in [Request -> ReqState]
<1>1. \A q \in Request : [req[q] EXCEPT !.raced = TRUE] \in ReqState
  BY DEF ReqState
<1>2. QED
  BY <1>1 DEF Overtake

\* What they leave alone.
LEMMA GotoEffect ==
  ASSUME req \in [Request -> ReqState], NEW p \in Request, NEW pc \in Pc, Goto(p, pc)
  PROVE  /\ req'[p].pc = pc /\ req'[p].op = req[p].op /\ req'[p].dev = req[p].dev
         /\ req'[p].tok = req[p].tok /\ req'[p].epoch = req[p].epoch
         /\ req'[p].gen = req[p].gen /\ req'[p].raced = req[p].raced
         /\ \A q \in Request : q # p => req'[q] = req[q]
  BY DEF Goto, ReqState

LEMMA EndEffect ==
  ASSUME req \in [Request -> ReqState], NEW p \in Request, End(p)
  PROVE  /\ req'[p] = IdleReq
         /\ \A q \in Request : q # p => req'[q] = req[q]
  BY DEF End

LEMMA BeginEffect ==
  ASSUME req \in [Request -> ReqState], NEW p \in Request, NEW r \in ReqState, Begin(p, r)
  PROVE  /\ req'[p] = r
         /\ \A q \in Request : q # p => req'[q] = req[q]
  BY DEF Begin

LEMMA OvertakeEffect ==
  ASSUME req \in [Request -> ReqState], NEW p \in Request, NEW r \in ReqState, Overtake(p, r)
  PROVE  /\ req'[p] = r
         /\ \A q \in Request : q # p =>
              /\ req'[q].pc = req[q].pc /\ req'[q].op = req[q].op /\ req'[q].dev = req[q].dev
              /\ req'[q].tok = req[q].tok /\ req'[q].epoch = req[q].epoch
              /\ req'[q].gen = req[q].gen
              /\ req[q].raced => req'[q].raced
              /\ (req[q].pc # "idle" /\ req[q].op \in Opening) => req'[q].raced
<1>1. req'[p] = r
  BY DEF Overtake
<1>2. ASSUME NEW q \in Request, q # p
      PROVE  /\ req'[q].pc = req[q].pc /\ req'[q].op = req[q].op /\ req'[q].dev = req[q].dev
             /\ req'[q].tok = req[q].tok /\ req'[q].epoch = req[q].epoch
             /\ req'[q].gen = req[q].gen
             /\ req[q].raced => req'[q].raced
             /\ (req[q].pc # "idle" /\ req[q].op \in Opening) => req'[q].raced
  <2>1. req[q] \in ReqState
    OBVIOUS
  <2>2. CASE req[q].pc # "idle" /\ req[q].op \in Opening
    <3>1. req'[q] = [req[q] EXCEPT !.raced = TRUE]
      BY <1>2, <2>2 DEF Overtake, At, Opening
    <3>2. QED
      BY <2>1, <3>1 DEF ReqState
  <2>3. CASE ~(req[q].pc # "idle" /\ req[q].op \in Opening)
    BY <1>2, <2>3 DEF Overtake, At, Opening
  <2>4. QED
    BY <2>2, <2>3
<1>3. QED
  BY <1>1, <1>2

LEMMA RowType ==
  ASSUME db \in UserRow
  PROVE  /\ [db EXCEPT !.active = TRUE] \in UserRow /\ [db EXCEPT !.active = TRUE].pw = db.pw
         /\ [db EXCEPT !.active = FALSE] \in UserRow /\ [db EXCEPT !.active = FALSE].pw = db.pw
         /\ [db EXCEPT !.alive = FALSE] \in UserRow /\ [db EXCEPT !.alive = FALSE].pw = db.pw
  BY DEF UserRow

LEMMA TypeInit == Init => TypeInv
<1> SUFFICES ASSUME Init PROVE TypeInv
  OBVIOUS
<1>1. db \in UserRow /\ db.pw = 0
  BY SessionAssumption DEF Init, UserRow
<1>2. NoTok \in Pair
  BY SessionAssumption DEF NoTok, Pair
<1>3. tok \in [Token -> Pair] /\ req \in [Request -> ReqState]
  BY <1>2, IdleType DEF Init
<1>4. slot \in [Device -> Token \cup {None}]
  BY DEF Init
<1>5. /\ disabled \in BOOLEAN /\ kicked \in BOOLEAN
      /\ blacklist \subseteq Token /\ handed \subseteq Token /\ used \subseteq Token
  BY DEF Init
<1>6. /\ epoch \in 0..MaxEpoch /\ issued \in 0..MaxToken /\ faults \in 0..MaxFault
      /\ gen \in 0..MaxGen /\ fenced \in 0..MaxGen /\ db.pw <= gen
  BY <1>1, SessionAssumption DEF Init
<1>7. Carries
  BY DEF Init, Carries, IdleReq
<1>8. QED
  BY <1>1, <1>3, <1>4, <1>5, <1>6, <1>7 DEF TypeInv, Typed, TypeOK

LEMMA TypedStep == TypeInv /\ [Next]_vars => Typed'
<1> SUFFICES ASSUME TypeInv, [Next]_vars PROVE Typed'
  OBVIOUS
<1> USE SessionAssumption, GotoType, EndType, BeginType, OvertakeType, IdleType
<1> USE DEF TypeInv, Typed, TypeOK, Pc, RevokeStep, keys, ghosts, Fault
<1>1. CASE UNCHANGED vars
  BY <1>1 DEF vars
<1>2. ASSUME NEW p \in Request, NEW d \in Device, Login(p, d) PROVE Typed'
  <2>1. [IdleReq EXCEPT !.op = "login", !.pc = "clear", !.dev = d, !.gen = gen, !.pw = db.pw] \in ReqState
    BY DEF IdleReq, ReqState, Op, UserRow, Pair
  <2>2. req' \in [Request -> ReqState]
    BY <2>1, <1>2 DEF Login, LoginRequest
  <2>3. QED
    BY <2>2, <1>2 DEF Login, LoginRequest, UserRow
<1>3. ASSUME NEW p \in Request, ClearDisabled(p) PROVE Typed'
  <2>1. req' \in [Request -> ReqState]
    BY <1>3 DEF ClearDisabled
  <2>2. disabled' \in BOOLEAN
    <3>1. disabled' = FALSE \/ disabled' = disabled
      BY <1>3, Zenon DEF ClearDisabled
    <3>2. QED
      BY <3>1, Zenon
  <2>3. faults' \in 0..MaxFault
    BY <1>3 DEF ClearDisabled
  <2>4. QED
    BY <2>1, <2>2, <2>3, <1>3 DEF ClearDisabled
<1>4. ASSUME NEW p \in Request, UpdateLastLogin(p) PROVE Typed'
  BY <1>4 DEF UpdateLastLogin
<1>5. ASSUME NEW p \in Request, CurrentUserPwEpoch(p) PROVE Typed'
  <2>1. \A e \in 0..MaxEpoch : [req[p] EXCEPT !.pc = "issue", !.epoch = e] \in ReqState
    BY DEF ReqState
  <2>2. 0 \in 0..MaxEpoch
    OBVIOUS
  <2>3. req' \in [Request -> ReqState]
    BY <2>1, <2>2, <1>5 DEF CurrentUserPwEpoch
  <2>4. QED
    BY <2>3, <1>5 DEF CurrentUserPwEpoch
<1>6. ASSUME NEW p \in Request, IssueTokenPair(p) PROVE Typed'
  <2>1. issued' \in Token /\ issued' \in 0..MaxToken
    BY <1>6 DEF IssueTokenPair, Token
  <2>2. [dev |-> req[p].dev, pwe |-> req[p].epoch, gen |-> req[p].gen, raced |-> req[p].raced] \in Pair
    BY DEF ReqState, Pair
  <2>3. tok' \in [Token -> Pair]
    BY <2>1, <2>2, <1>6 DEF IssueTokenPair, PairEpoch
  <2>4. slot' \in [Device -> Token \cup {None}] /\ handed' \subseteq Token
    BY <2>1, <1>6 DEF IssueTokenPair
  <2>5. req' \in [Request -> ReqState] /\ faults' \in 0..MaxFault
    BY <1>6 DEF IssueTokenPair
  <2>6. QED
    BY <2>1, <2>3, <2>4, <2>5, <1>6 DEF IssueTokenPair
<1>7. ASSUME NEW p \in Request, NEW t \in Token, Refresh(p, t) PROVE Typed'
  <2>1. [IdleReq EXCEPT !.op = "refresh", !.pc = "find", !.dev = tok[t].dev, !.tok = t] \in ReqState
    BY DEF IdleReq, ReqState, Op, UserRow, Pair
  <2>2. req' \in [Request -> ReqState]
    BY <2>1, <1>7 DEF Refresh, RefreshRequest
  <2>3. QED
    BY <2>2, <1>7 DEF Refresh, RefreshRequest, UserRow
<1>8. ASSUME NEW p \in Request, RefreshFind(p) PROVE Typed'
  BY <1>8 DEF RefreshFind
<1>9. ASSUME NEW p \in Request, ConsumeRefresh(p) PROVE Typed'
  <2> DEFINE t == req[p].tok
  <2>1. t \in Token
    BY <1>9 DEF ConsumeRefresh, Carries, At
  <2>2. [req[p] EXCEPT !.pc = "issue", !.epoch = epoch, !.gen = tok[t].gen,
                       !.raced = tok[t].raced] \in ReqState
    BY <2>1 DEF ReqState, Pair
  <2>3. req' \in [Request -> ReqState] /\ used' \subseteq Token
    BY <2>1, <2>2, <1>9 DEF ConsumeRefresh
  <2>4. slot' \in [Device -> Token \cup {None}] /\ faults' \in 0..MaxFault
    BY <1>9 DEF ConsumeRefresh, GetDel
  <2>5. QED
    BY <2>3, <2>4, <1>9 DEF ConsumeRefresh
<1>10. ASSUME NEW p \in Request, NEW t \in Token, NEW d \in Device, Logout(p, t, d) PROVE Typed'
  <2>1. [IdleReq EXCEPT !.op = "logout", !.pc = "delSlot", !.dev = d] \in ReqState
    BY DEF IdleReq, ReqState, Op, UserRow, Pair
  <2>2. req' \in [Request -> ReqState]
    BY <2>1, <1>10 DEF Logout, LogoutRequest
  <2>3. QED
    BY <2>2, <1>10 DEF Logout, LogoutRequest, UserRow
<1>11. ASSUME NEW p \in Request, LogoutDelSlot(p) PROVE Typed'
  BY <1>11 DEF LogoutDelSlot
<1>12. ASSUME NEW p \in Request, NEW t \in Token, NEW d \in Device, UpdatePassword(p, t, d) PROVE Typed'
  <2>1. [IdleReq EXCEPT !.op = "chpw", !.pc = "commit", !.dev = d, !.tok = t,
                       !.gen = gen, !.pw = db.pw] \in ReqState
    BY DEF IdleReq, ReqState, Op, UserRow, Pair
  <2>2. req' \in [Request -> ReqState]
    BY <2>1, <1>12 DEF UpdatePassword, UpdatePasswordRequest
  <2>3. QED
    BY <2>2, <1>12 DEF UpdatePassword, UpdatePasswordRequest, UserRow
<1>13. ASSUME NEW p \in Request, CommitPassword(p) PROVE Typed'
  <2>1. CASE ~db.alive
    BY <2>1, <1>13 DEF CommitPassword
  <2>2. CASE db.alive
    <3>1. gen' \in 0..MaxGen /\ gen' = gen + 1
      BY <2>2, <1>13 DEF CommitPassword
    <3>2. db' \in UserRow /\ db'.pw <= gen'
      BY <2>2, <3>1, <1>13 DEF CommitPassword, UserRow
    <3>3. [req[p] EXCEPT !.pc = "blacklist", !.gen = gen + 1, !.raced = FALSE] \in ReqState
      BY <3>1 DEF ReqState
    <3>4. req' \in [Request -> ReqState]
      BY <2>2, <3>3, <1>13 DEF CommitPassword
    <3>5. QED
      BY <3>1, <3>2, <3>4, <1>13 DEF CommitPassword
  <2>3. QED
    BY <2>1, <2>2
<1>14. ASSUME NEW p \in Request, RevokeAccessToken(p) PROVE Typed'
  <2>1. req[p].tok \in Token
    BY <1>14 DEF RevokeAccessToken, Carries, At
  <2>2. blacklist' \subseteq Token
    BY <2>1, <1>14 DEF RevokeAccessToken
  <2>3. req' \in [Request -> ReqState] /\ faults' \in 0..MaxFault
    BY <1>14 DEF RevokeAccessToken
  <2>4. QED
    BY <2>2, <2>3, <1>14 DEF RevokeAccessToken
<1>15. ASSUME NEW p \in Request, NEW op \in {"reset", "disable", "delete"}, AdminCommit(p, op) PROVE Typed'
  <2>1. gen' \in 0..MaxGen /\ gen' = gen + 1
    BY <1>15 DEF AdminCommit
  <2>2. \/ db' = [db EXCEPT !.pw = @ + 1]
        \/ db' = [db EXCEPT !.active = FALSE]
        \/ db' = [db EXCEPT !.alive = FALSE]
    BY <1>15 DEF AdminCommit
  <2>3. db' \in UserRow /\ db'.pw <= gen'
    <3>1. db.pw \in 0..MaxGen
      BY DEF UserRow
    <3>2. CASE db' = [db EXCEPT !.pw = @ + 1]
      BY <2>1, <3>2 DEF UserRow
    <3>3. CASE db' = [db EXCEPT !.active = FALSE]
      <4>1. db' \in UserRow /\ db'.pw = db.pw
        BY <3>3, RowType, Zenon
      <4>2. QED
        BY <2>1, <3>1, <4>1
    <3>4. CASE db' = [db EXCEPT !.alive = FALSE]
      <4>1. db' \in UserRow /\ db'.pw = db.pw
        BY <3>4, RowType, Zenon
      <4>2. QED
        BY <2>1, <3>1, <4>1
    <3>5. QED
      BY <2>2, <3>2, <3>3, <3>4
  <2>4. [IdleReq EXCEPT !.op = op, !.pc = "revSet"] \in ReqState
    BY DEF IdleReq, ReqState, Op
  <2>5. req' \in [Request -> ReqState]
    BY <2>4, <1>15 DEF AdminCommit
  <2>6. QED
    BY <2>1, <2>3, <2>5, <1>15 DEF AdminCommit
<1>16. ASSUME NEW p \in Request, Enable(p) PROVE Typed'
  <2>1. db' \in UserRow /\ db'.pw <= gen
    BY <1>16 DEF Enable, UserRow
  <2>2. [IdleReq EXCEPT !.op = "enable", !.pc = "clear"] \in ReqState
    BY DEF IdleReq, ReqState, Op
  <2>3. req' \in [Request -> ReqState]
    BY <2>2, <1>16 DEF Enable
  <2>4. QED
    BY <2>1, <2>3, <1>16 DEF Enable
<1>17. ASSUME NEW p \in Request, RevokeSetDisabled(p) PROVE Typed'
  BY <1>17 DEF RevokeSetDisabled
<1>18. ASSUME NEW p \in Request, RevokeBumpEpoch(p) PROVE Typed'
  <2>1. epoch' \in 0..MaxEpoch /\ fenced' \in 0..MaxGen
    BY <1>18 DEF RevokeBumpEpoch, BumpEpoch
  <2>2. req' \in [Request -> ReqState]
    BY <1>18 DEF RevokeBumpEpoch
  <2>3. QED
    BY <2>1, <2>2, <1>18 DEF RevokeBumpEpoch
<1>19. ASSUME NEW p \in Request, RevokeScan(p) PROVE Typed'
  <2>1. [req[p] EXCEPT !.pc = "revDel", !.scan = {d \in Device : slot[d] # None}] \in ReqState
    BY DEF ReqState
  <2>2. req' \in [Request -> ReqState]
    BY <2>1, <1>19 DEF RevokeScan
  <2>3. QED
    BY <2>2, <1>19 DEF RevokeScan
<1>20. ASSUME NEW p \in Request, RevokeDel(p) PROVE Typed'
  BY <1>20 DEF RevokeDel
<1>21. ASSUME NEW p \in Request, RevokeFault(p) PROVE Typed'
  <2>1. ASSUME req[p].tries + 1 < Attempts
        PROVE  [req[p] EXCEPT !.pc = "revSet", !.scan = {}, !.tries = @ + 1] \in ReqState
    <3>1. req[p] \in ReqState /\ req[p].tries + 1 \in 0..Attempts
      BY <2>1 DEF ReqState
    <3>2. QED
      BY <3>1 DEF ReqState
  <2>2. req' \in [Request -> ReqState]
    BY <2>1, <1>21 DEF RevokeFault
  <2>3. epoch' \in 0..MaxEpoch /\ fenced' \in 0..MaxGen /\ faults' \in 0..MaxFault
    BY <1>21 DEF RevokeFault, BumpEpoch
  <2>4. slot' \in [Device -> Token \cup {None}]
    BY <1>21 DEF RevokeFault
  <2>5. disabled' \in BOOLEAN
    BY <1>21 DEF RevokeFault
  <2>6. QED
    BY <2>2, <2>3, <2>4, <2>5, <1>21 DEF RevokeFault
<1>22. ASSUME NEW p \in Request, Abort(p) PROVE Typed'
  BY <1>22 DEF Abort
<1>23. ASSUME NEW d \in Device, ExpireSlot(d) PROVE Typed'
  BY <1>23 DEF ExpireSlot
<1>24. ASSUME ExpireDisabled PROVE Typed'
  BY <1>24 DEF ExpireDisabled
<1> HIDE DEF Typed
<1>25. QED
  BY <1>1, <1>2, <1>3, <1>4, <1>5, <1>6, <1>7, <1>8, <1>9, <1>10, <1>11, <1>12, <1>13, <1>14, <1>15, <1>16, <1>17, <1>18, <1>19, <1>20, <1>21, <1>22, <1>23, <1>24
     DEF Next, Arrive, Step, Revoke

LEMMA CarriesStep == TypeInv /\ [Next]_vars => Carries'
<1> SUFFICES ASSUME TypeInv, [Next]_vars, NEW q \in Request,
                    req'[q].pc \in {"find", "consume", "commit", "blacklist"}
             PROVE  req'[q].tok \in Token
  BY DEF Carries
<1> USE DEF TypeInv, Typed, TypeOK, Carries, ReqState, IdleReq, Begin, End, Goto, At
<1>1. CASE UNCHANGED vars
  BY <1>1 DEF vars
<1>2. ASSUME NEW p \in Request, NEW d \in Device, Login(p, d) PROVE req'[q].tok \in Token
  BY <1>2 DEF Login, LoginRequest
<1>3. ASSUME NEW p \in Request, ClearDisabled(p) PROVE req'[q].tok \in Token
  BY <1>3 DEF ClearDisabled
<1>4. ASSUME NEW p \in Request, UpdateLastLogin(p) PROVE req'[q].tok \in Token
  BY <1>4 DEF UpdateLastLogin
<1>5. ASSUME NEW p \in Request, CurrentUserPwEpoch(p) PROVE req'[q].tok \in Token
  BY <1>5 DEF CurrentUserPwEpoch
<1>6. ASSUME NEW p \in Request, IssueTokenPair(p) PROVE req'[q].tok \in Token
  BY <1>6 DEF IssueTokenPair
<1>7. ASSUME NEW p \in Request, NEW t \in Token, Refresh(p, t) PROVE req'[q].tok \in Token
  BY <1>7 DEF Refresh, RefreshRequest
<1>8. ASSUME NEW p \in Request, RefreshFind(p) PROVE req'[q].tok \in Token
  BY <1>8 DEF RefreshFind
<1>9. ASSUME NEW p \in Request, ConsumeRefresh(p) PROVE req'[q].tok \in Token
  BY <1>9 DEF ConsumeRefresh
<1>10. ASSUME NEW p \in Request, NEW t \in Token, NEW d \in Device, Logout(p, t, d) PROVE req'[q].tok \in Token
  BY <1>10 DEF Logout, LogoutRequest
<1>11. ASSUME NEW p \in Request, LogoutDelSlot(p) PROVE req'[q].tok \in Token
  BY <1>11 DEF LogoutDelSlot
<1>12. ASSUME NEW p \in Request, NEW t \in Token, NEW d \in Device, UpdatePassword(p, t, d) PROVE req'[q].tok \in Token
  BY <1>12 DEF UpdatePassword, UpdatePasswordRequest
<1>13. ASSUME NEW p \in Request, CommitPassword(p) PROVE req'[q].tok \in Token
  <2>1. CASE ~db.alive
    BY <2>1, <1>13 DEF CommitPassword
  <2>2. CASE db.alive
    <3>1. CASE q = p
      <4>1. req'[p] = [req[p] EXCEPT !.pc = "blacklist", !.gen = gen + 1, !.raced = FALSE]
        BY <2>2, <1>13 DEF CommitPassword, Overtake
      <4>2. req'[p].tok = req[p].tok /\ req[p].pc = "commit"
        BY <4>1, <1>13 DEF CommitPassword
      <4>3. QED
        BY <3>1, <4>2
    <3>2. CASE q # p
      <4>1. \/ req'[q] = req[q]
            \/ req'[q] = [req[q] EXCEPT !.raced = TRUE]
        BY <3>2, <2>2, <1>13 DEF CommitPassword, Overtake
      <4>2. req'[q].pc = req[q].pc /\ req'[q].tok = req[q].tok
        BY <4>1
      <4>3. QED
        BY <4>2
    <3>3. QED
      BY <3>1, <3>2
  <2>3. QED
    BY <2>1, <2>2
<1>14. ASSUME NEW p \in Request, RevokeAccessToken(p) PROVE req'[q].tok \in Token
  BY <1>14 DEF RevokeAccessToken
<1>15. ASSUME NEW p \in Request, NEW op \in {"reset", "disable", "delete"}, AdminCommit(p, op) PROVE req'[q].tok \in Token
  BY <1>15 DEF AdminCommit, Overtake
<1>16. ASSUME NEW p \in Request, Enable(p) PROVE req'[q].tok \in Token
  BY <1>16 DEF Enable
<1>17. ASSUME NEW p \in Request, RevokeSetDisabled(p) PROVE req'[q].tok \in Token
  BY <1>17 DEF RevokeSetDisabled
<1>18. ASSUME NEW p \in Request, RevokeBumpEpoch(p) PROVE req'[q].tok \in Token
  BY <1>18 DEF RevokeBumpEpoch
<1>19. ASSUME NEW p \in Request, RevokeScan(p) PROVE req'[q].tok \in Token
  BY <1>19 DEF RevokeScan
<1>20. ASSUME NEW p \in Request, RevokeDel(p) PROVE req'[q].tok \in Token
  BY <1>20 DEF RevokeDel
<1>21. ASSUME NEW p \in Request, RevokeFault(p) PROVE req'[q].tok \in Token
  BY <1>21 DEF RevokeFault
<1>22. ASSUME NEW p \in Request, Abort(p) PROVE req'[q].tok \in Token
  BY <1>22 DEF Abort
<1>23. ASSUME NEW d \in Device, ExpireSlot(d) PROVE req'[q].tok \in Token
  BY <1>23 DEF ExpireSlot
<1>24. ASSUME ExpireDisabled PROVE req'[q].tok \in Token
  BY <1>24 DEF ExpireDisabled
<1> HIDE DEF TypeInv, Carries
<1>25. QED
  BY <1>1, <1>2, <1>3, <1>4, <1>5, <1>6, <1>7, <1>8, <1>9, <1>10, <1>11, <1>12, <1>13, <1>14, <1>15, <1>16, <1>17, <1>18, <1>19, <1>20, <1>21, <1>22, <1>23, <1>24
     DEF Next, Arrive, Step, Revoke

LEMMA TypeStep == TypeInv /\ [Next]_vars => TypeInv'
  BY TypedStep, CarriesStep DEF TypeInv

\* The users row, the Redis keys, the tokens and the requests in progress keep
\* to their types: no path of Login, Refresh, Logout, UpdatePassword and the
\* administrator's changes, with any failure of Redis, leaves them.
THEOREM TypeCorrect == Spec => []TypeOK
<1>1. TypeInv => TypeOK
  BY DEF TypeInv, Typed
<1>2. QED
  BY <1>1, TypeInit, TypeStep, PTL DEF Spec

-----------------------------------------------------------------------------
(* The inductive invariant. *)
IInv ==
  /\ TypeInv
  /\ Bounded
  /\ Allotted
  /\ \A p \in Request : Informed(p)
  /\ Fenced
  /\ SingleRotation

LEMMA InvInit == Init => IInv
<1> SUFFICES ASSUME Init PROVE IInv
  OBVIOUS
<1>1. TypeInv
  BY TypeInit
<1>2. Bounded
  <2>1. \A t \in Token : tok[t].pwe = 0
    BY DEF Init, NoTok
  <2>2. \A p \in Request : req[p].epoch = 0
    BY DEF Init, IdleReq
  <2>3. QED
    BY <2>1, <2>2 DEF Init, Bounded
<1>3. Allotted
  BY DEF Init, Allotted
<1>4. \A p \in Request : Informed(p)
  <2>1. \A p \in Request : req[p].pc = "idle"
    BY DEF Init, IdleReq
  <2>2. QED
    BY <2>1 DEF Informed
<1>5. Fenced
  <2>1. issued = 0
    BY DEF Init
  <2>2. \A t \in 1..issued : FALSE
    BY <2>1
  <2>3. QED
    BY <2>2 DEF Fenced
<1>6. SingleRotation
  BY DEF Init, SingleRotation, IdleReq, At
<1>7. QED
  BY <1>1, <1>2, <1>3, <1>4, <1>5, <1>6 DEF IInv

\* A step of p that issues nothing, changes no account and exchanges no token:
\* slots may only be emptied.
LEMMA LocalStep ==
  ASSUME IInv, TypeInv', NEW p \in Request,
         UNCHANGED <<epoch, issued, tok, handed, gen, fenced, used>>,
         \A d \in Device : slot'[d] \in {slot[d], None},
         \A q \in Request : q # p => req'[q] = req[q],
         Informed(p)', req'[p].epoch <= epoch,
         ~(req'[p].pc = "issue" /\ req'[p].op = "refresh")
  PROVE  IInv'
<1>1. Bounded'
  BY DEF IInv, Bounded
<1>2. Allotted'
  BY DEF IInv, Allotted
<1>3. \A q \in Request : Informed(q)'
  BY DEF IInv, Informed, Current
<1>4. Fenced'
  BY DEF IInv, Fenced, Current
<1>5. SingleRotation'
  <2>1. None \notin used
    BY DEF IInv, Allotted, None
  <2>2. \A d \in Device : slot'[d] \notin used'
    BY <2>1 DEF IInv, SingleRotation
  <2>3. QED
    BY <2>2 DEF IInv, SingleRotation, At
<1>6. QED
  BY <1>1, <1>2, <1>3, <1>4, <1>5 DEF IInv

\* The same for the last step of p.
LEMMA LastStep ==
  ASSUME IInv, TypeInv', NEW p \in Request, End(p),
         UNCHANGED <<epoch, issued, tok, handed, gen, fenced, used>>,
         \A d \in Device : slot'[d] \in {slot[d], None}
  PROVE  IInv'
<1>1. req'[p] = IdleReq /\ \A q \in Request : q # p => req'[q] = req[q]
  BY EndEffect DEF IInv, TypeInv, Typed, TypeOK
<1>2. Informed(p)' /\ req'[p].epoch <= epoch /\ req'[p].pc # "issue"
  BY <1>1 DEF Informed, IdleReq, IInv, TypeInv, Typed, TypeOK
<1>3. QED
  BY <1>1, <1>2, LocalStep

\* A request that only moves on, to a step that issues nothing.
LEMMA MoveStep ==
  ASSUME IInv, TypeInv', NEW p \in Request, NEW pc \in Pc, Goto(p, pc), req[p].pc # "idle",
         UNCHANGED <<epoch, issued, tok, handed, gen, fenced, used>>,
         \A d \in Device : slot'[d] \in {slot[d], None},
         pc \in {"touch", "epoch"} => req[p].op \in Opening,
         pc \in {"find", "consume"} => req[p].pc \in {"find", "consume"},
         pc # "issue"
  PROVE  IInv'
<1>1. /\ req'[p].pc = pc /\ req'[p].op = req[p].op /\ req'[p].dev = req[p].dev
      /\ req'[p].tok = req[p].tok /\ req'[p].epoch = req[p].epoch
      /\ req'[p].gen = req[p].gen /\ req'[p].raced = req[p].raced
      /\ \A q \in Request : q # p => req'[q] = req[q]
  BY GotoEffect DEF IInv, TypeInv, Typed, TypeOK
<1>2. Informed(p)'
  BY <1>1 DEF IInv, Informed, Current
<1>3. req'[p].epoch <= epoch
  BY <1>1 DEF IInv, Bounded
<1>4. QED
  BY <1>1, <1>2, <1>3, LocalStep

\* A request that arrives.
LEMMA ArriveStep ==
  ASSUME IInv, TypeInv', NEW p \in Request, NEW r \in ReqState, Begin(p, r),
         UNCHANGED <<epoch, issued, tok, handed, gen, fenced, used, slot>>,
         r.pc \notin {"touch", "epoch", "issue"},
         r.pc \in {"find", "consume"} =>
           r.op = "refresh" /\ r.tok \in handed /\ tok[r.tok].dev = r.dev,
         r.op \in Opening \cup {"refresh"} => r.dev \in Device,
         r.op \in Opening => r.gen = gen,
         r.epoch = 0
  PROVE  IInv'
<1>1. req'[p] = r /\ \A q \in Request : q # p => req'[q] = req[q]
  BY BeginEffect DEF IInv, TypeInv, Typed, TypeOK
<1>2. Informed(p)'
  BY <1>1 DEF Informed, Current
<1>3. req'[p].epoch <= epoch
  BY <1>1, SessionAssumption DEF IInv, TypeInv, Typed, TypeOK
<1>4. QED
  BY <1>1, <1>2, <1>3, LocalStep

\* The account changes: the last INCR no longer covers it.
LEMMA ChangeStep ==
  ASSUME IInv, TypeInv', NEW p \in Request, NEW r \in ReqState, Overtake(p, r),
         UNCHANGED <<epoch, issued, tok, handed, fenced, used, slot>>,
         gen' = gen + 1,
         r.pc \notin {"idle", "touch", "epoch", "find", "consume", "issue"},
         r.op \in Opening \cup {"refresh"} => r.dev \in Device,
         r.op \in Opening => r.gen = gen',
         r.epoch <= epoch
  PROVE  IInv'
<1>1. fenced # gen'
  BY SessionAssumption DEF IInv, Bounded, TypeInv, Typed, TypeOK
<1>2. /\ req'[p] = r
      /\ \A q \in Request : q # p =>
           /\ req'[q].pc = req[q].pc /\ req'[q].op = req[q].op /\ req'[q].dev = req[q].dev
           /\ req'[q].tok = req[q].tok /\ req'[q].epoch = req[q].epoch
           /\ req'[q].gen = req[q].gen
           /\ req[q].raced => req'[q].raced
           /\ (req[q].pc # "idle" /\ req[q].op \in Opening) => req'[q].raced
  BY OvertakeEffect DEF IInv, TypeInv, Typed, TypeOK
<1>3. Bounded'
  BY <1>2, SessionAssumption DEF IInv, Bounded, TypeInv, Typed, TypeOK
<1>4. Allotted'
  BY DEF IInv, Allotted
<1>5. Informed(p)'
  BY <1>1, <1>2 DEF Informed, Current
<1>6. ASSUME NEW q \in Request, q # p PROVE Informed(q)'
  BY <1>1, <1>2, <1>6 DEF IInv, Informed, Current
<1>7. Fenced'
  BY <1>1 DEF Fenced
<1>8. SingleRotation'
  BY <1>2 DEF IInv, SingleRotation, At
<1>9. QED
  BY <1>3, <1>4, <1>5, <1>6, <1>7, <1>8 DEF IInv

\* The INCR: every token and every epoch read so far is behind it.
LEMMA BumpStep ==
  ASSUME IInv, TypeInv', NEW p \in Request, BumpEpoch,
         UNCHANGED <<issued, tok, handed, gen, used, slot>>,
         \A q \in Request : q # p => req'[q] = req[q],
         req'[p].pc \in {"idle", "revScan", "revSet"},
         req'[p].epoch <= epoch,
         req'[p].pc # "idle" => /\ req'[p].op = req[p].op /\ req'[p].dev = req[p].dev
                                /\ req'[p].gen = req[p].gen /\ req'[p].raced = req[p].raced
                                /\ req[p].pc # "idle"
  PROVE  IInv'
<1>1. /\ epoch' = epoch + 1 /\ fenced' = gen' /\ epoch \in Nat /\ gen \in Nat
      /\ \A t \in Token : tok[t].pwe \in Nat
      /\ \A q \in Request : req[q].epoch \in Nat /\ req'[q].epoch \in Nat
  BY SessionAssumption DEF BumpEpoch, IInv, TypeInv, Typed, TypeOK, Pair, ReqState
<1>2. Bounded'
  BY <1>1 DEF IInv, Bounded
<1>3. Allotted'
  BY DEF IInv, Allotted
<1>4. Informed(p)'
  BY DEF IInv, Informed, Current
<1>5. ASSUME NEW q \in Request, q # p PROVE Informed(q)'
  <2>1. req'[q].epoch # epoch'
    BY <1>1, <1>5 DEF IInv, Bounded
  <2>2. QED
    BY <2>1, <1>5 DEF IInv, Informed, Current
<1>6. Fenced'
  <2>1. \A t \in 1..issued : tok[t].pwe # epoch'
    BY <1>1, SessionAssumption DEF IInv, Bounded, TypeInv, Typed, TypeOK, Token
  <2>2. QED
    BY <2>1 DEF Fenced
<1>7. SingleRotation'
  BY DEF IInv, SingleRotation, At
<1>8. QED
  BY <1>2, <1>3, <1>4, <1>5, <1>6, <1>7 DEF IInv

\* The new pair is fresh, and bound to the epoch its request had read.
LEMMA IssueStep ==
  ASSUME IInv, TypeInv', NEW p \in Request, IssueTokenPair(p)
  PROVE  IInv'
<1> DEFINE t == issued + 1
           r == req[p]
<1> USE SessionAssumption
<1>1. /\ t \in Token /\ t \notin 1..issued /\ issued' = t
      /\ \A u \in 1..issued : u \in Token /\ u # t /\ u \in 1..t
      /\ \A u \in 1..t : u \in 1..issued \/ u = t
      /\ t \in 1..t /\ t # None
  BY DEF IssueTokenPair, IInv, TypeInv, Typed, TypeOK, Token, None
<1>2. /\ tok'[t] = [dev |-> r.dev, pwe |-> r.epoch, gen |-> r.gen, raced |-> r.raced]
      /\ \A u \in Token : u # t => tok'[u] = tok[u]
  BY <1>1 DEF IssueTokenPair, PairEpoch, IInv, TypeInv, Typed, TypeOK
<1>3. /\ tok'[t].dev = r.dev /\ tok'[t].pwe = r.epoch
      /\ tok'[t].gen = r.gen /\ tok'[t].raced = r.raced
  BY <1>2
<1>4. /\ req'[p] = IdleReq
      /\ \A q \in Request : q # p => req'[q] = req[q]
      /\ r.pc = "issue"
  BY EndEffect DEF IssueTokenPair, At, IInv, TypeInv, Typed, TypeOK
<1>5. /\ UNCHANGED <<epoch, gen, fenced, used>>
      /\ handed' = handed \/ handed' = handed \cup {t}
      /\ \A d \in Device : slot'[d] = slot[d] \/ (d = r.dev /\ slot'[d] = t)
  BY DEF IssueTokenPair, ghosts, IInv, TypeInv, Typed, TypeOK
<1>6. r.dev \in Device /\ (fenced = gen /\ r.epoch = epoch => r.gen = gen \/ r.raced)
  BY <1>4 DEF IInv, Informed, Current
<1>7. Bounded'
  <2>1. \A u \in Token : tok'[u].pwe <= epoch
    BY <1>2, <1>3 DEF IInv, Bounded
  <2>2. \A q \in Request : req'[q].epoch <= epoch
    BY <1>4 DEF IInv, Bounded, IdleReq, TypeInv, Typed, TypeOK
  <2>3. QED
    BY <2>1, <2>2, <1>5 DEF IInv, Bounded
<1>8. Allotted'
  <2>1. handed' \subseteq 1..issued' /\ used' \subseteq 1..issued'
    BY <1>1, <1>5 DEF IInv, Allotted
  <2>2. \A u \in handed' : tok'[u].dev \in Device
    BY <1>1, <1>2, <1>3, <1>5, <1>6 DEF IInv, Allotted
  <2>3. ASSUME NEW d \in Device, slot'[d] # None
        PROVE  slot'[d] \in 1..issued' /\ tok'[slot'[d]].dev = d
    BY <2>3, <1>1, <1>2, <1>3, <1>5 DEF IInv, Allotted
  <2>4. QED
    BY <2>1, <2>2, <2>3 DEF Allotted
<1>9. \A q \in Request : Informed(q)'
  <2>1. Informed(p)'
    BY <1>4 DEF Informed, IdleReq
  <2>2. ASSUME NEW q \in Request, q # p PROVE Informed(q)'
    <3>1. req[q].tok \in handed => tok'[req[q].tok] = tok[req[q].tok] /\ req[q].tok \in handed'
      BY <1>1, <1>2, <1>5 DEF IInv, Allotted
    <3>2. QED
      BY <3>1, <2>2, <1>4, <1>5 DEF IInv, Informed, Current
  <2>3. QED
    BY <2>1, <2>2
<1>10. Fenced'
  BY <1>1, <1>2, <1>3, <1>5, <1>6 DEF IInv, Fenced, Current
<1>11. SingleRotation'
  <2>1. t \notin used
    BY <1>1 DEF IInv, Allotted
  <2>2. \A d \in Device : slot'[d] \notin used'
    BY <2>1, <1>5 DEF IInv, SingleRotation
  <2>3. req'[p].pc = "idle"
    BY <1>4 DEF IdleReq
  <2>4. QED
    BY <2>2, <2>3, <1>4 DEF IInv, SingleRotation, At
<1>12. QED
  BY <1>7, <1>8, <1>9, <1>10, <1>11 DEF IInv

\* The script found the token in its slot under the current epoch: the slot is
\* empty now, so nobody else can exchange it, and what it hands on is as
\* current as the token was.
LEMMA ExchangeStep ==
  ASSUME IInv, TypeInv', NEW p \in Request, ConsumeRefresh(p), used' # used
  PROVE  IInv'
<1> DEFINE t == req[p].tok
           dev == req[p].dev
<1> USE SessionAssumption
<1>1. /\ epoch = tok[t].pwe /\ slot[dev] = t
      /\ slot' = [slot EXCEPT ![dev] = None]
      /\ used' = used \cup {t} /\ req[p].pc = "consume"
      /\ UNCHANGED <<epoch, issued, tok, handed, gen, fenced>>
  BY DEF ConsumeRefresh, GetDel, At
<1>2. /\ req'[p].pc = "issue" /\ req'[p].op = req[p].op /\ req'[p].dev = dev
      /\ req'[p].tok = t /\ req'[p].epoch = epoch
      /\ req'[p].gen = tok[t].gen /\ req'[p].raced = tok[t].raced
      /\ \A q \in Request : q # p => req'[q] = req[q]
  <2>1. req' = [req EXCEPT ![p].pc = "issue", ![p].epoch = epoch,
                          ![p].gen = tok[t].gen, ![p].raced = tok[t].raced]
    BY DEF ConsumeRefresh
  <2>2. QED
    BY <2>1 DEF IInv, TypeInv, Typed, TypeOK, ReqState
<1>3. /\ req[p].op = "refresh" /\ dev \in Device
      /\ t \in handed /\ t \in 1..issued /\ t \in Token /\ tok[t].dev = dev
  BY <1>1 DEF IInv, Informed, Allotted, TypeInv, Typed, TypeOK
<1>4. /\ slot'[dev] = None
      /\ \A d \in Device : d # dev => slot'[d] = slot[d]
  BY <1>1, <1>3 DEF IInv, TypeInv, Typed, TypeOK
<1>5. Bounded'
  <2>1. \A q \in Request : req'[q].epoch <= epoch
    BY <1>2 DEF IInv, Bounded, TypeInv, Typed, TypeOK
  <2>2. QED
    BY <2>1, <1>1 DEF IInv, Bounded
<1>6. Allotted'
  BY <1>1, <1>3, <1>4 DEF IInv, Allotted
<1>7. Informed(p)'
  <2>1. fenced = gen => tok[t].gen = gen \/ tok[t].raced
    BY <1>1, <1>3 DEF IInv, Fenced, Current
  <2>2. QED
    BY <2>1, <1>1, <1>2, <1>3 DEF Informed, Current, Opening
<1>8. ASSUME NEW q \in Request, q # p PROVE Informed(q)'
  BY <1>1, <1>2, <1>8 DEF IInv, Informed, Current
<1>9. Fenced'
  BY <1>1 DEF IInv, Fenced, Current
<1>10. SingleRotation'
  <2>1. None \notin used'
    BY <1>1, <1>3 DEF IInv, Allotted, None, Token
  <2>2. \A d \in Device : d # dev => slot[d] # t
    BY <1>3 DEF IInv, Allotted, None, Token
  <2>3. \A d \in Device : slot'[d] \notin used'
    BY <2>1, <2>2, <1>1, <1>4 DEF IInv, SingleRotation
  <2>4. t \notin used
    BY <1>1, <1>3 DEF IInv, SingleRotation
  <2>5. \A q \in Request : (q # p /\ req'[q].pc = "issue" /\ req'[q].op = "refresh")
                             => req'[q].tok # t
    BY <2>4, <1>2 DEF IInv, Informed
  <2>6. QED
    BY <2>3, <2>5, <1>2 DEF IInv, SingleRotation, At
<1>11. QED
  BY <1>5, <1>6, <1>7, <1>8, <1>9, <1>10 DEF IInv

LEMMA InvStep == IInv /\ [Next]_vars => IInv'
<1> SUFFICES ASSUME IInv, [Next]_vars PROVE IInv'
  OBVIOUS
<1>t. TypeInv'
  BY TypeStep DEF IInv
<1> USE <1>t, SessionAssumption
<1> USE DEF TypeInv, Typed, TypeOK, Pc, RevokeStep, keys, ghosts, At
<1>1. CASE UNCHANGED vars
  BY <1>1 DEF vars, IInv, Bounded, Allotted, Informed, Current, Fenced, SingleRotation, Carries
<1>2. ASSUME NEW p \in Request, NEW d \in Device, Login(p, d) PROVE IInv'
  <2> DEFINE r == [IdleReq EXCEPT !.op = "login", !.pc = "clear", !.dev = d,
                                !.gen = gen, !.pw = db.pw]
  <2>1. r \in ReqState
    BY IdleType DEF IdleReq, ReqState, Op, UserRow, Pair, IInv
  <2>2. Begin(p, r) /\ UNCHANGED <<epoch, issued, tok, handed, gen, fenced, used, slot>>
    BY <1>2 DEF Login, LoginRequest
  <2>3. QED
    BY <2>1, <2>2, <1>2, ArriveStep DEF Login, LoginRequest, AtAccepted, IdleReq, Opening, IInv, Allotted
<1>3. ASSUME NEW p \in Request, ClearDisabled(p) PROVE IInv'
  BY <1>3, LastStep, MoveStep DEF ClearDisabled, Opening
<1>4. ASSUME NEW p \in Request, UpdateLastLogin(p) PROVE IInv'
  BY <1>4, LastStep, MoveStep DEF UpdateLastLogin, IInv, Informed
<1>5. ASSUME NEW p \in Request, CurrentUserPwEpoch(p) PROVE IInv'
  <2>1. PICK e \in {epoch, 0} :
          req' = [req EXCEPT ![p].pc = "issue", ![p].epoch = e]
    BY <1>5 DEF CurrentUserPwEpoch
  <2>2. /\ req'[p].pc = "issue" /\ req'[p].op = req[p].op /\ req'[p].dev = req[p].dev
        /\ req'[p].epoch = e
        /\ req'[p].gen = req[p].gen /\ req'[p].raced = req[p].raced
        /\ \A q \in Request : q # p => req'[q] = req[q]
    BY <2>1 DEF IInv, ReqState
  <2>3. req[p].op \in Opening /\ req[p].dev \in Device /\ Current(req[p])
    BY <1>5 DEF CurrentUserPwEpoch, IInv, Informed
  <2>4. UNCHANGED <<epoch, issued, tok, handed, gen, fenced, used, slot>>
    BY <1>5 DEF CurrentUserPwEpoch
  <2>5. Informed(p)'
    BY <2>2, <2>3, <2>4 DEF Informed, Current, Opening
  <2>6. req'[p].epoch <= epoch
    BY <2>2 DEF IInv
  <2>7. QED
    BY <2>2, <2>3, <2>4, <2>5, <2>6, LocalStep DEF Opening
<1>6. ASSUME NEW p \in Request, IssueTokenPair(p) PROVE IInv'
  BY <1>6, IssueStep
<1>7. ASSUME NEW p \in Request, NEW t \in Token, Refresh(p, t) PROVE IInv'
  <2> DEFINE r == [IdleReq EXCEPT !.op = "refresh", !.pc = "find",
                                !.dev = tok[t].dev, !.tok = t]
  <2>1. r \in ReqState
    BY IdleType DEF IdleReq, ReqState, Op, UserRow, Pair, IInv
  <2>2. Begin(p, r) /\ UNCHANGED <<epoch, issued, tok, handed, gen, fenced, used, slot>>
    BY <1>7 DEF Refresh, RefreshRequest
  <2>3. QED
    BY <2>1, <2>2, <1>7, ArriveStep DEF Refresh, RefreshRequest, AtAccepted, IdleReq, Opening, IInv, Allotted
<1>8. ASSUME NEW p \in Request, RefreshFind(p) PROVE IInv'
  BY <1>8, LastStep, MoveStep DEF RefreshFind
<1>9. ASSUME NEW p \in Request, ConsumeRefresh(p) PROVE IInv'
  <2>1. CASE used' # used
    BY <1>9, <2>1, ExchangeStep
  <2>2. CASE used' = used
    <3>1. ~(epoch = tok[req[p].tok].pwe /\ slot[req[p].dev] = req[p].tok) \/ End(p)
      <4>1. CASE req[p].tok \in used
        BY <4>1, <1>9 DEF ConsumeRefresh, IInv, Informed, SingleRotation
      <4>2. CASE req[p].tok \notin used
        BY <4>2, <2>2, <1>9 DEF ConsumeRefresh
      <4>3. QED
        BY <4>1, <4>2
    <3>2. End(p)
      BY <3>1, <1>9 DEF ConsumeRefresh
    <3>3. \A d \in Device : slot'[d] \in {slot[d], None}
      BY <1>9 DEF ConsumeRefresh, GetDel, IInv
    <3>4. QED
      BY <2>2, <3>2, <3>3, <1>9, LastStep DEF ConsumeRefresh
  <2>3. QED
    BY <2>1, <2>2
<1>10. ASSUME NEW p \in Request, NEW t \in Token, NEW d \in Device, Logout(p, t, d) PROVE IInv'
  <2> DEFINE r == [IdleReq EXCEPT !.op = "logout", !.pc = "delSlot", !.dev = d]
  <2>1. r \in ReqState
    BY IdleType DEF IdleReq, ReqState, Op, UserRow, Pair, IInv
  <2>2. Begin(p, r) /\ UNCHANGED <<epoch, issued, tok, handed, gen, fenced, used, slot>>
    BY <1>10 DEF Logout, LogoutRequest
  <2>3. QED
    BY <2>1, <2>2, <1>10, ArriveStep DEF Logout, LogoutRequest, AtAccepted, IdleReq, Opening, IInv, Allotted
<1>11. ASSUME NEW p \in Request, LogoutDelSlot(p) PROVE IInv'
  <2>1. \A d \in Device : slot'[d] \in {slot[d], None}
    BY <1>11 DEF LogoutDelSlot, IInv
  <2>2. QED
    BY <2>1, <1>11, LastStep DEF LogoutDelSlot
<1>12. ASSUME NEW p \in Request, NEW t \in Token, NEW d \in Device, UpdatePassword(p, t, d) PROVE IInv'
  <2> DEFINE r == [IdleReq EXCEPT !.op = "chpw", !.pc = "commit", !.dev = d,
                                !.tok = t, !.gen = gen, !.pw = db.pw]
  <2>1. r \in ReqState
    BY IdleType DEF IdleReq, ReqState, Op, UserRow, Pair, IInv
  <2>2. Begin(p, r) /\ UNCHANGED <<epoch, issued, tok, handed, gen, fenced, used, slot>>
    BY <1>12 DEF UpdatePassword, UpdatePasswordRequest
  <2>3. QED
    BY <2>1, <2>2, <1>12, ArriveStep DEF UpdatePassword, UpdatePasswordRequest, AtAccepted, IdleReq, Opening, IInv, Allotted
<1>13. ASSUME NEW p \in Request, CommitPassword(p) PROVE IInv'
  <2>1. CASE ~db.alive
    BY <2>1, <1>13, LastStep DEF CommitPassword
  <2>2. CASE db.alive
    <3> DEFINE r == [req[p] EXCEPT !.pc = "blacklist", !.gen = gen + 1, !.raced = FALSE]
    <3>1. /\ gen' = gen + 1 /\ Overtake(p, r) /\ req[p].pc = "commit"
          /\ UNCHANGED <<epoch, issued, tok, handed, fenced, used, slot>>
      BY <2>2, <1>13 DEF CommitPassword
    <3>2. /\ r \in ReqState /\ r.pc = "blacklist" /\ r.op = req[p].op /\ r.dev = req[p].dev
          /\ r.epoch = req[p].epoch /\ r.gen = gen + 1
      <4>1. req[p] \in ReqState
        BY DEF IInv
      <4>2. gen + 1 \in 0..MaxGen
        BY <3>1
      <4>3. QED
        BY <4>1, <4>2 DEF ReqState
    <3>3. r.epoch <= epoch /\ (r.op \in Opening \cup {"refresh"} => r.dev \in Device)
      BY <3>1, <3>2 DEF IInv, Bounded, Informed
    <3> HIDE DEF r
    <3>4. QED
      BY <3>1, <3>2, <3>3, ChangeStep
  <2>3. QED
    BY <2>1, <2>2
<1>14. ASSUME NEW p \in Request, RevokeAccessToken(p) PROVE IInv'
  BY <1>14, LastStep, MoveStep DEF RevokeAccessToken
<1>15. ASSUME NEW p \in Request, NEW op \in {"reset", "disable", "delete"}, AdminCommit(p, op) PROVE IInv'
  <2> DEFINE r == [IdleReq EXCEPT !.op = op, !.pc = "revSet"]
  <2>1. r \in ReqState /\ r.pc = "revSet" /\ r.op = op /\ r.epoch = 0
    BY IdleType DEF IdleReq, ReqState, Op
  <2>2. /\ gen' = gen + 1 /\ Overtake(p, r)
        /\ UNCHANGED <<epoch, issued, tok, handed, fenced, used, slot>>
    BY <1>15 DEF AdminCommit
  <2>3. r.epoch <= epoch
    BY <2>1 DEF IInv
  <2> HIDE DEF r
  <2>4. QED
    BY <2>1, <2>2, <2>3, ChangeStep DEF Opening
<1>16. ASSUME NEW p \in Request, Enable(p) PROVE IInv'
  <2> DEFINE r == [IdleReq EXCEPT !.op = "enable", !.pc = "clear"]
  <2>1. r \in ReqState
    BY IdleType DEF IdleReq, ReqState, Op, UserRow, Pair, IInv
  <2>2. Begin(p, r) /\ UNCHANGED <<epoch, issued, tok, handed, gen, fenced, used, slot>>
    BY <1>16 DEF Enable
  <2>3. QED
    BY <2>1, <2>2, <1>16, ArriveStep DEF Enable, AtAccepted, IdleReq, Opening, IInv, Allotted
<1>17. ASSUME NEW p \in Request, RevokeSetDisabled(p) PROVE IInv'
  BY <1>17, MoveStep DEF RevokeSetDisabled
<1>18. ASSUME NEW p \in Request, RevokeBumpEpoch(p) PROVE IInv'
  <2>1. /\ req'[p].pc = "revScan" /\ req'[p].op = req[p].op /\ req'[p].dev = req[p].dev
        /\ req'[p].epoch = req[p].epoch /\ req'[p].gen = req[p].gen
        /\ req'[p].raced = req[p].raced /\ req[p].pc = "revIncr"
        /\ \A q \in Request : q # p => req'[q] = req[q]
    BY <1>18, GotoEffect DEF RevokeBumpEpoch, IInv
  <2>2. BumpEpoch /\ UNCHANGED <<issued, tok, handed, gen, used, slot>>
    BY <1>18 DEF RevokeBumpEpoch
  <2>3. req'[p].epoch <= epoch
    BY <2>1 DEF IInv, Bounded
  <2>4. QED
    BY <2>1, <2>2, <2>3, BumpStep
<1>19. ASSUME NEW p \in Request, RevokeScan(p) PROVE IInv'
  <2>1. /\ req'[p].pc = "revDel" /\ req'[p].op = req[p].op /\ req'[p].dev = req[p].dev
        /\ req'[p].epoch = req[p].epoch /\ req'[p].gen = req[p].gen
        /\ req'[p].raced = req[p].raced /\ req[p].pc = "revScan"
        /\ \A q \in Request : q # p => req'[q] = req[q]
    BY <1>19 DEF RevokeScan, IInv, ReqState
  <2>2. UNCHANGED <<epoch, issued, tok, handed, gen, fenced, used, slot>>
    BY <1>19 DEF RevokeScan
  <2>3. Informed(p)' /\ req'[p].epoch <= epoch
    BY <2>1, <2>2 DEF IInv, Informed, Current, Bounded
  <2>4. QED
    BY <2>1, <2>2, <2>3, LocalStep
<1>20. ASSUME NEW p \in Request, RevokeDel(p) PROVE IInv'
  <2>1. \A d \in Device : slot'[d] \in {slot[d], None}
    BY <1>20 DEF RevokeDel
  <2>2. QED
    BY <2>1, <1>20, LastStep, MoveStep DEF RevokeDel
<1>21. ASSUME NEW p \in Request, RevokeFault(p) PROVE IInv'
  <2>1. /\ req[p].pc # "idle" /\ \A q \in Request : q # p => req'[q] = req[q]
        /\ \/ req'[p] = IdleReq
           \/ req'[p] = [req[p] EXCEPT !.pc = "revSet", !.scan = {}, !.tries = @ + 1]
    BY <1>21, EndEffect DEF RevokeFault, IInv
  <2>2. /\ req'[p].pc \in {"idle", "revSet"}
        /\ req'[p].epoch <= epoch
        /\ req'[p].pc # "idle" => /\ req'[p].op = req[p].op /\ req'[p].dev = req[p].dev
                                  /\ req'[p].gen = req[p].gen /\ req'[p].raced = req[p].raced
    <3>1. CASE req'[p] = IdleReq
      BY <3>1 DEF IdleReq, IInv
    <3>2. CASE req'[p] = [req[p] EXCEPT !.pc = "revSet", !.scan = {}, !.tries = @ + 1]
      BY <3>2 DEF IInv, Bounded, ReqState
    <3>3. QED
      BY <2>1, <3>1, <3>2
  <2>3. CASE BumpEpoch /\ UNCHANGED <<disabled, slot>>
    BY <2>1, <2>2, <2>3, <1>21, BumpStep DEF RevokeFault
  <2>4. CASE UNCHANGED <<epoch, fenced>> /\ \A d \in Device : slot'[d] \in {slot[d], None}
    <3>1. UNCHANGED <<epoch, issued, tok, handed, gen, fenced, used>>
      BY <2>4, <1>21 DEF RevokeFault
    <3>2. Informed(p)'
      BY <2>1, <2>2, <3>1 DEF IInv, Informed, Current
    <3>3. QED
      BY <2>1, <2>2, <2>4, <3>1, <3>2, LocalStep
  <2>5. QED
    BY <2>3, <2>4, <1>21 DEF RevokeFault
<1>22. ASSUME NEW p \in Request, Abort(p) PROVE IInv'
  BY <1>22, LastStep DEF Abort
<1>23. ASSUME NEW d \in Device, ExpireSlot(d) PROVE IInv'
  <2>1. \A e \in Device : slot'[e] \in {slot[e], None}
    BY <1>23 DEF ExpireSlot, IInv
  <2>2. UNCHANGED <<epoch, issued, tok, handed, gen, fenced, used, req>>
    BY <1>23 DEF ExpireSlot
  <2>3. Bounded' /\ Allotted' /\ Fenced' /\ \A p \in Request : Informed(p)'
    BY <2>1, <2>2 DEF IInv, Bounded, Allotted, Informed, Fenced, Current
  <2>4. SingleRotation'
    BY <2>1, <2>2 DEF IInv, SingleRotation, Allotted, None
  <2>5. QED
    BY <2>3, <2>4 DEF IInv
<1>24. ASSUME ExpireDisabled PROVE IInv'
  BY <1>24 DEF ExpireDisabled, IInv, Bounded, Allotted, Informed, Current, Fenced, SingleRotation
<1>25. QED
  BY <1>1, <1>2, <1>3, <1>4, <1>5, <1>6, <1>7, <1>8, <1>9, <1>10, <1>11, <1>12, <1>13, <1>14, <1>15, <1>16, <1>17, <1>18, <1>19, <1>20, <1>21, <1>22, <1>23, <1>24
     DEF Next, Arrive, Step, Revoke

LEMMA InvCorrect == Spec => []IInv
  BY InvInit, InvStep, PTL DEF Spec

\* A refresh token is exchanged at most once (the GETDEL of consumeRefreshLua),
\* for any number of concurrent Refresh, Logout and revocation requests.
THEOREM RotationIsSingle == Spec => []SingleRotation
<1>1. IInv => SingleRotation
  BY DEF IInv
<1>2. QED
  BY <1>1, InvCorrect, PTL

\* Once the INCR of revokeUserSessions has followed the last change of the
\* account, no session of an earlier generation passes the epoch check of
\* Refresh: whatever Refresh, Login, UpdatePassword and revocation requests
\* were in flight, and wherever Redis failed.
THEOREM RevocationHolds == Spec => []NoRevokedSurvivor
<1>1. IInv => NoRevokedSurvivor
  BY DEF IInv, Allotted, Fenced, Current, NoRevokedSurvivor
<1>2. QED
  BY <1>1, InvCorrect, PTL
=============================================================================
