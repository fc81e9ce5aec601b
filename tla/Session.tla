------------------------------ MODULE Session ------------------------------
(***************************************************************************)
(* The sessions of one user: the users row in PostgreSQL, the user's keys  *)
(* in Redis, and the requests that work on them one round trip at a time:  *)
(* Login, Refresh, Logout and UpdatePassword of the user; ResetPassword,   *)
(* UpdateStatus and Delete of an administrator.  Sessions of different     *)
(* users share no key and no row.                                          *)
(*                                                                         *)
(* A token pair is a number; its refresh token carries the device, the     *)
(* password epoch (claim pwe) and two auxiliary fields the code does not   *)
(* have: gen, the generation of the account whose credentials the session  *)
(* was opened with, and raced, whether the account changed while the       *)
(* request that opened the session was under way.  The generation counts   *)
(* the changes that must end all sessions: a new password, disabling,      *)
(* deletion.  Wrong passwords and parameter errors change nothing here;    *)
(* the login lock and the captcha are not part of this module.             *)
(***************************************************************************)
EXTENDS Integers, FiniteSets

CONSTANTS Device,     \* device ids
          NoDevice,   \* the device of a request or pair that has none
          Request,    \* requests that can be in progress at once
          Offered,    \* the operations clients ask for in this model
          MaxToken,   \* bound on the pairs issued
          MaxGen,     \* bound on generations
          MaxEpoch,   \* bound on INCRs of the password epoch
          MaxFault,   \* bound on failed Redis calls
          Attempts,   \* tries of revokeUserSessionsWithRetry (3 in the code)
          MayExpire   \* may user:disabled run out (30 minutes) in this model?

Op == {"login", "refresh", "logout", "chpw", "reset", "disable", "enable", "delete"}

ASSUME SessionAssumption ==
  /\ NoDevice \notin Device
  /\ Offered \subseteq Op
  /\ MaxToken \in Nat /\ MaxGen \in Nat /\ MaxEpoch \in Nat
  /\ MaxFault \in Nat /\ Attempts \in Nat \ {0}
  /\ MayExpire \in BOOLEAN

Token == 1..MaxToken
None == 0
RevokeStep == {"revSet", "revIncr", "revScan", "revDel"}
Pc == {"idle", "find", "consume", "delSlot", "commit", "blacklist",
       "clear", "touch", "epoch", "issue"} \cup RevokeStep

VARIABLES
  db,        \* the users row: alive, active (status = 1), pw (password version)
  disabled,  \* user:disabled exists
  epoch,     \* user:pw_epoch
  slot,      \* slot[d] : the pair whose hash refresh:{uid}:{d} holds, or None
  blacklist, \* pairs whose access token id is blacklisted
  issued,    \* pairs generated so far are 1..issued
  tok,       \* tok[t] : the claims of pair t
  handed,    \* pairs that reached their client
  req,       \* req[p] : the request in progress in slot p
  faults,    \* Redis calls that failed so far
  gen,       \* generation of the account
  fenced,    \* the generation that the last INCR fenced off
  used,      \* refresh tokens that were exchanged successfully
  kicked     \* a disable finished its revocation and no enable began since

vars == <<db, disabled, epoch, slot, blacklist, issued, tok, handed, req,
          faults, gen, fenced, used, kicked>>
keys == <<disabled, epoch, slot, blacklist>>
ghosts == <<gen, fenced, used, kicked>>

IdleReq == [op |-> "login", pc |-> "idle", dev |-> NoDevice,
            tok |-> None, epoch |-> 0, gen |-> 0, raced |-> FALSE,
            pw |-> 0, scan |-> {}, tries |-> 0]
NoTok == [dev |-> NoDevice, pwe |-> 0, gen |-> 0, raced |-> FALSE]

UserRow == [alive : BOOLEAN, active : BOOLEAN, pw : 0..MaxGen]
Pair == [dev : Device \cup {NoDevice}, pwe : 0..MaxEpoch, gen : 0..MaxGen, raced : BOOLEAN]
ReqState == [op : Op, pc : Pc, dev : Device \cup {NoDevice}, tok : Token \cup {None},
             epoch : 0..MaxEpoch, gen : 0..MaxGen, raced : BOOLEAN, pw : 0..MaxGen,
             scan : SUBSET Device, tries : 0..Attempts]

TypeOK ==
  /\ db \in UserRow
  /\ disabled \in BOOLEAN
  /\ epoch \in 0..MaxEpoch
  /\ slot \in [Device -> Token \cup {None}]
  /\ blacklist \subseteq Token
  /\ issued \in 0..MaxToken
  /\ tok \in [Token -> Pair]
  /\ handed \subseteq Token
  /\ req \in [Request -> ReqState]
  /\ faults \in 0..MaxFault
  /\ gen \in 0..MaxGen
  /\ fenced \in 0..MaxGen
  /\ used \subseteq Token
  /\ kicked \in BOOLEAN

Init ==
  /\ db = [alive |-> TRUE, active |-> TRUE, pw |-> 0]
  /\ disabled = FALSE /\ epoch = 0
  /\ slot = [d \in Device |-> None]
  /\ blacklist = {} /\ issued = 0 /\ handed = {}
  /\ tok = [t \in Token |-> NoTok]
  /\ req = [p \in Request |-> IdleReq]
  /\ faults = 0
  /\ gen = 0 /\ fenced = 0 /\ used = {} /\ kicked = FALSE

At(p, pc) == req[p].pc = pc
Goto(p, pc) == req' = [req EXCEPT ![p].pc = pc]
End(p) == req' = [req EXCEPT ![p] = IdleReq]
Begin(p, r) == At(p, "idle") /\ r.op \in Offered /\ req' = [req EXCEPT ![p] = r]

\* A Redis call fails.
Fault == faults < MaxFault /\ faults' = faults + 1

-----------------------------------------------------------------------------
(* Opening a session: Login, and the tail it shares with the others. *)

LoginRequest(d) == [IdleReq EXCEPT !.op = "login", !.dev = d]

\* FindByEmployeeNo found an enabled user and the password matched.
Login(p, d) ==
  /\ db.alive /\ db.active
  /\ Begin(p, [LoginRequest(d) EXCEPT !.pc = "clear", !.gen = gen, !.pw = db.pw])
  /\ UNCHANGED <<db, keys, issued, tok, handed, faults, ghosts>>

\* clearUserDisabled: in Login, in UpdatePassword, and last in an enable.
ClearDisabled(p) ==
  /\ At(p, "clear")
  /\ \/ /\ disabled' = FALSE
        /\ \/ req[p].op = "login" /\ Goto(p, "touch")
           \/ req[p].op = "chpw" /\ Goto(p, "epoch")
           \/ req[p].op \notin {"login", "chpw"} /\ End(p)
        /\ UNCHANGED faults
     \/ /\ Fault /\ End(p)
        /\ disabled' = FALSE \/ UNCHANGED disabled
  /\ UNCHANGED <<db, epoch, slot, blacklist, issued, tok, handed, ghosts>>

\* UpdateLastLogin: fails if the user was deleted in the meantime.
UpdateLastLogin(p) ==
  /\ At(p, "touch")
  /\ IF db.alive THEN Goto(p, "epoch") ELSE End(p)
  /\ UNCHANGED <<db, keys, issued, tok, handed, faults, ghosts>>

\* Mutant of CurrentUserPwEpoch: an error reads as -1.
EpochErrorMinusOne(p) ==
  /\ At(p, "epoch")
  /\ \/ /\ req' = [req EXCEPT ![p].pc = "issue", ![p].epoch = epoch]
        /\ UNCHANGED faults
     \/ /\ Fault
        /\ req' = [req EXCEPT ![p].pc = "issue", ![p].epoch = -1]
  /\ UNCHANGED <<db, keys, issued, tok, handed, ghosts>>

\* currentUserPwEpoch: an error reads as epoch 0.
CurrentUserPwEpoch(p) ==
  /\ At(p, "epoch")
  /\ \/ /\ req' = [req EXCEPT ![p].pc = "issue", ![p].epoch = epoch]
        /\ UNCHANGED faults
     \/ /\ Fault
        /\ req' = [req EXCEPT ![p].pc = "issue", ![p].epoch = 0]
  /\ UNCHANGED <<db, keys, issued, tok, handed, ghosts>>

\* Mutant of PairEpoch: the epoch is read again when the pair is signed.
PairEpochLate(r) == epoch

\* The claim pwe of the pair that r issues: the epoch its caller passed on.
PairEpoch(r) == r.epoch

\* issueTokenPair: sign a pair and SET the device's slot.  On an error the
\* client gets nothing, whether or not Redis applied the SET.
IssueTokenPair(p) ==
  LET r == req[p]
      t == issued + 1
  IN
  /\ At(p, "issue") /\ issued < MaxToken
  /\ issued' = t
  /\ tok' = [tok EXCEPT ![t] = [dev |-> r.dev, pwe |-> PairEpoch(r),
                                gen |-> r.gen, raced |-> r.raced]]
  /\ \/ /\ slot' = [slot EXCEPT ![r.dev] = t]
        /\ handed' = handed \cup {t}
        /\ UNCHANGED faults
     \/ /\ Fault
        /\ slot' \in {slot, [slot EXCEPT ![r.dev] = t]}
        /\ UNCHANGED handed
  /\ End(p)
  /\ UNCHANGED <<db, disabled, epoch, blacklist, ghosts>>

-----------------------------------------------------------------------------
(* Refresh. *)

\* The body holds the refresh token, whose claims name the device.
RefreshRequest(t) == [IdleReq EXCEPT !.op = "refresh", !.tok = t, !.dev = tok[t].dev]

\* The token parses and isUserDisabled says no.
Refresh(p, t) ==
  /\ t \in handed /\ ~disabled
  /\ Begin(p, [RefreshRequest(t) EXCEPT !.pc = "find"])
  /\ UNCHANGED <<db, keys, issued, tok, handed, faults, ghosts>>

\* FindByID and the status check.
RefreshFind(p) ==
  /\ At(p, "find")
  /\ IF db.alive /\ db.active THEN Goto(p, "consume") ELSE End(p)
  /\ UNCHANGED <<db, keys, issued, tok, handed, faults, ghosts>>

\* Mutant of GetDel: a plain GET.
GetOnly(d) == slot

\* The slots after the script's GETDEL.
GetDel(d) == [slot EXCEPT ![d] = None]

\* consumeRefreshLua: GETDEL of the slot and GET of the epoch in one script,
\* then the three checks on what it returned.  The new pair will be bound to
\* the epoch read here.
ConsumeRefresh(p) ==
  LET r == req[p]
      t == r.tok
      won == epoch = tok[t].pwe /\ slot[r.dev] = t
  IN
  /\ At(p, "consume")
  /\ \/ /\ slot' = GetDel(r.dev)
        /\ IF won
           THEN /\ req' = [req EXCEPT ![p].pc = "issue", ![p].epoch = epoch,
                                      ![p].gen = tok[t].gen, ![p].raced = tok[t].raced]
                /\ used' = used \cup {t}
           ELSE End(p) /\ UNCHANGED used
        /\ UNCHANGED faults
     \/ /\ Fault /\ End(p) /\ UNCHANGED used
        /\ slot' \in {slot, GetDel(r.dev)}
  /\ UNCHANGED <<db, disabled, epoch, blacklist, issued, tok, handed, gen, fenced, kicked>>

-----------------------------------------------------------------------------
(* The access token of pair t passes the JWT middleware. *)
AtAccepted(t) == t \in handed /\ t \notin blacklist /\ ~disabled

\* The header holds the access token, the body the device to log out.
LogoutRequest(d) == [IdleReq EXCEPT !.op = "logout", !.dev = d]

\* Logout blacklists the access token; the slot named in the body is next.
Logout(p, t, d) ==
  /\ AtAccepted(t)
  /\ blacklist' = blacklist \cup {t}
  /\ Begin(p, [LogoutRequest(d) EXCEPT !.pc = "delSlot"])
  /\ UNCHANGED <<db, disabled, epoch, slot, issued, tok, handed, faults, ghosts>>

LogoutDelSlot(p) ==
  /\ At(p, "delSlot")
  /\ \/ slot' = [slot EXCEPT ![req[p].dev] = None] /\ UNCHANGED faults
     \/ Fault /\ UNCHANGED slot
  /\ End(p)
  /\ UNCHANGED <<db, disabled, epoch, blacklist, issued, tok, handed, ghosts>>

-----------------------------------------------------------------------------
(* Changes of the account: commit to the database, then revoke. *)

\* Sessions being opened on what they read before this change are marked.
Overtake(p, r) ==
  req' = [q \in Request |->
            IF q = p THEN r
            ELSE IF ~At(q, "idle") /\ req[q].op \in {"login", "chpw"}
                 THEN [req[q] EXCEPT !.raced = TRUE]
                 ELSE req[q]]

\* The access token, and the device that will get the new pair.
UpdatePasswordRequest(t, d) == [IdleReq EXCEPT !.op = "chpw", !.dev = d, !.tok = t]

\* UpdatePassword: FindByID and CheckPassword on the row read here.
UpdatePassword(p, t, d) ==
  /\ AtAccepted(t) /\ db.alive
  /\ Begin(p, [UpdatePasswordRequest(t, d) EXCEPT !.pc = "commit", !.gen = gen, !.pw = db.pw])
  /\ UNCHANGED <<db, keys, issued, tok, handed, faults, ghosts>>

\* userRepo.UpdatePassword of the change: WHERE id = $1, no condition on the
\* password that was verified.
CommitPassword(p) ==
  /\ At(p, "commit")
  /\ IF db.alive
     THEN /\ gen < MaxGen
          /\ gen' = gen + 1
          /\ db' = [db EXCEPT !.pw = @ + 1]
          /\ Overtake(p, [req[p] EXCEPT !.pc = "blacklist", !.gen = gen + 1, !.raced = FALSE])
     ELSE End(p) /\ UNCHANGED <<db, gen>>
  /\ UNCHANGED <<keys, issued, tok, handed, faults, fenced, used, kicked>>

\* revokeAccessToken of the token the change was made with.
RevokeAccessToken(p) ==
  /\ At(p, "blacklist")
  /\ \/ /\ blacklist' = blacklist \cup {req[p].tok}
        /\ Goto(p, "revSet") /\ UNCHANGED faults
     \/ Fault /\ End(p) /\ UNCHANGED blacklist
  /\ UNCHANGED <<db, disabled, epoch, slot, issued, tok, handed, ghosts>>

\* UserService.ResetPassword, UpdateStatus(0) and Delete: the UPDATE commits.
AdminCommit(p, op) ==
  /\ At(p, "idle") /\ op \in Offered /\ db.alive /\ gen < MaxGen
  /\ gen' = gen + 1
  /\ db' = CASE op = "reset" -> [db EXCEPT !.pw = @ + 1]
             [] op = "disable" -> [db EXCEPT !.active = FALSE]
             [] op = "delete" -> [db EXCEPT !.alive = FALSE]
  /\ Overtake(p, [IdleReq EXCEPT !.op = op, !.pc = "revSet"])
  /\ UNCHANGED <<keys, issued, tok, handed, faults, fenced, used, kicked>>

\* UserService.UpdateStatus(1): the UPDATE commits, clearUserDisabled follows.
Enable(p) ==
  /\ db.alive
  /\ db' = [db EXCEPT !.active = TRUE]
  /\ Begin(p, [IdleReq EXCEPT !.op = "enable", !.pc = "clear"])
  /\ kicked' = FALSE
  /\ UNCHANGED <<keys, issued, tok, handed, faults, gen, fenced, used>>

-----------------------------------------------------------------------------
(* revokeUserSessions, call by call. *)

RevokeSetDisabled(p) ==
  /\ At(p, "revSet")
  /\ disabled' = TRUE
  /\ Goto(p, "revIncr")
  /\ UNCHANGED <<db, epoch, slot, blacklist, issued, tok, handed, faults, ghosts>>

\* Mutant of BumpEpoch: the INCR is missing.
NoBump == UNCHANGED epoch /\ fenced' = gen

\* INCR user:pw_epoch.
BumpEpoch == epoch < MaxEpoch /\ epoch' = epoch + 1 /\ fenced' = gen

RevokeBumpEpoch(p) ==
  /\ At(p, "revIncr")
  /\ BumpEpoch
  /\ Goto(p, "revScan")
  /\ UNCHANGED <<db, disabled, slot, blacklist, issued, tok, handed, faults, gen, used, kicked>>

RevokeScan(p) ==
  /\ At(p, "revScan")
  /\ req' = [req EXCEPT ![p].pc = "revDel",
                        ![p].scan = {d \in Device : slot[d] # None}]
  /\ UNCHANGED <<db, keys, issued, tok, handed, faults, ghosts>>

\* The DEL takes whatever the scanned keys hold by now.
RevokeDel(p) ==
  /\ At(p, "revDel")
  /\ slot' = [d \in Device |-> IF d \in req[p].scan THEN None ELSE slot[d]]
  /\ IF req[p].op = "chpw" THEN Goto(p, "clear") ELSE End(p)
  /\ kicked' = (kicked \/ (req[p].op = "disable" /\ ~db.active))
  /\ UNCHANGED <<db, disabled, epoch, blacklist, issued, tok, handed, faults, gen, fenced, used>>

\* A call of the revocation fails, applied or not: start over, up to
\* Attempts times, then give up with the change committed.
RevokeFault(p) ==
  /\ req[p].pc \in RevokeStep /\ Fault
  /\ IF req[p].tries + 1 < Attempts
     THEN req' = [req EXCEPT ![p].pc = "revSet", ![p].scan = {}, ![p].tries = @ + 1]
     ELSE End(p)
  /\ \/ UNCHANGED <<disabled, epoch, slot, fenced>>
     \/ At(p, "revSet") /\ disabled' = TRUE /\ UNCHANGED <<epoch, slot, fenced>>
     \/ At(p, "revIncr") /\ BumpEpoch /\ UNCHANGED <<disabled, slot>>
     \/ /\ At(p, "revDel")
        /\ slot' = [d \in Device |-> IF d \in req[p].scan THEN None ELSE slot[d]]
        /\ UNCHANGED <<disabled, epoch, fenced>>
  /\ UNCHANGED <<db, blacklist, issued, tok, handed, gen, used, kicked>>

-----------------------------------------------------------------------------
\* The process dies or the client hangs up: the request stops where it is.
Abort(p) ==
  /\ ~At(p, "idle")
  /\ End(p)
  /\ UNCHANGED <<db, keys, issued, tok, handed, faults, ghosts>>

\* Redis drops a refresh key (168 h) or the disabled key (30 min).
ExpireSlot(d) ==
  /\ slot[d] # None
  /\ slot' = [slot EXCEPT ![d] = None]
  /\ UNCHANGED <<db, disabled, epoch, blacklist, issued, tok, handed, req, faults, ghosts>>

ExpireDisabled ==
  /\ MayExpire /\ disabled
  /\ disabled' = FALSE
  /\ UNCHANGED <<db, epoch, slot, blacklist, issued, tok, handed, req, faults, ghosts>>

Revoke(p) ==
  \/ RevokeSetDisabled(p) \/ RevokeBumpEpoch(p) \/ RevokeScan(p) \/ RevokeDel(p)
  \/ RevokeFault(p)

Step(p) ==
  \/ ClearDisabled(p) \/ UpdateLastLogin(p) \/ CurrentUserPwEpoch(p) \/ IssueTokenPair(p)
  \/ RefreshFind(p) \/ ConsumeRefresh(p) \/ LogoutDelSlot(p)
  \/ CommitPassword(p) \/ RevokeAccessToken(p)
  \/ Revoke(p)

Arrive(p) ==
  \/ \E d \in Device : Login(p, d)
  \/ \E t \in Token : Refresh(p, t)
  \/ \E t \in Token, d \in Device : Logout(p, t, d) \/ UpdatePassword(p, t, d)
  \/ \E op \in {"reset", "disable", "delete"} : AdminCommit(p, op)
  \/ Enable(p)

Next ==
  \/ \E p \in Request : Arrive(p) \/ Step(p) \/ Abort(p)
  \/ \E d \in Device : ExpireSlot(d)
  \/ ExpireDisabled

Spec == Init /\ [][Next]_vars

-----------------------------------------------------------------------------
(* A refresh token is exchanged at most once: it is in no slot any more, and *)
(* no two requests are both about to issue its successor, whatever Refresh,  *)
(* Logout and revocations interleave with it (the GETDEL of the script).     *)
SingleRotation ==
  /\ \A d \in Device : slot[d] \notin used
  /\ \A p, q \in Request :
       (p # q /\ At(p, "issue") /\ At(q, "issue")
        /\ req[p].op = "refresh" /\ req[q].op = "refresh")
         => req[p].tok # req[q].tok

(* Once an INCR has followed the last change of the account, a refresh token *)
(* that the epoch check would still accept belongs to a session opened with  *)
(* the account as it is now, or by a Login or UpdatePassword that was under  *)
(* way across the change.  No Refresh, however it interleaves with SET, INCR,*)
(* SCAN and DEL, fails or is retried, carries an older session over.         *)
NoRevokedSurvivor ==
  fenced = gen =>
    \A d \in Device :
      slot[d] # None /\ tok[slot[d]].pwe = epoch
        => tok[slot[d]].gen = gen \/ tok[slot[d]].raced

\* docs/phase1/02-auth.md: after disabling a user, issued access tokens are
\* unusable at once.
DisabledUserIsOut == kicked => \A t \in Token : ~AtAccepted(t)

\* UpdatePassword's comment: changing a password requires verifying the old
\* one, so the password replaced is the password that was verified.
ReplacesVerifiedPassword ==
  [][\A p \in Request :
       (At(p, "commit") /\ req'[p].pc = "blacklist") => req[p].pw = db.pw]_vars
=============================================================================
