----------------------------- MODULE LoginSessions -----------------------------
(***************************************************************************)
(* AuthService: the sessions of one user.  A session is a family of        *)
(* refresh tokens; every refresh revokes the token it was sent and puts a  *)
(* new one into the family.  The pair that replaced a token is kept for a  *)
(* minute in the memory of the process (refreshGrace), so that two tabs    *)
(* which refresh at once get the same one.                                 *)
(*                                                                         *)
(* Access tokens, captcha, trusted devices, the contents of mails and the  *)
(* lock-out after wrong codes are left out.  Time shows only as the end of *)
(* a grace period and of a one-time token.                                 *)
(***************************************************************************)
EXTENDS Integers, FiniteSets

CONSTANTS
  Browsers,          \* each has one cookie jar, shared by its tabs
  Requests,
  Nothing,           \* no token, no request; of a field: undefined
  Plans, Beginnings,
  MaxRestarts

(* A session that is open at the start is named by its browser; tokens,    *)
(* families and one-time tokens made later by the request that made them.  *)
Ids == Browsers \cup Requests
Kinds == {"login", "totp", "refresh", "logout", "logoutAll", "change",
          "forgot", "reset", "close", "reopen", "cancel", "ban", "unban"}

Operation == [kind: Kinds, by: Browsers, password: 0..1, of: Requests]
Account == [password: 0..1, totp: BOOLEAN, pending: BOOLEAN, banned: BOOLEAN]

ASSUME SessionAssumption ==
  /\ Browsers \cap Requests = {} /\ Nothing \notin Ids
  /\ Plans \subseteq [Requests -> Operation] /\ MaxRestarts \in Nat
  /\ Beginnings \subseteq [account: Account, open: SUBSET Browsers]

VARIABLES
  account,
  tokens,     \* the collection refreshtokens: family and whether it is live
  grace,      \* refreshGrace: old token to the one that replaced it
  onetime,    \* security tokens: challenges of the second factor, resets
  cookie,
  req, restarts,
  forgotten,  \* history: tokens whose grace is over, or was lost
  ended,      \* history: families that were revoked
  escaped     \* history: of these, the ones a refresh on its way put a token in

store == <<account, tokens, onetime>>
memory == <<grace, cookie, restarts>>
history == <<forgotten, ended, escaped>>
vars == <<store, memory, req, history>>

NoToken == [family |-> Nothing, live |-> FALSE]

Init ==
  /\ \E b \in Beginnings :
       /\ account = b.account
       /\ tokens = [t \in Ids |-> IF t \in b.open THEN [family |-> t, live |-> TRUE]
                                  ELSE NoToken]
       /\ cookie = [c \in Browsers |-> IF c \in b.open THEN c ELSE Nothing]
  /\ grace = [t \in Ids |-> Nothing]
  /\ onetime = [t \in Requests |-> [kind |-> "none", used |-> FALSE]]
  /\ \E plan \in Plans :
       req = [r \in Requests |->
                [op |-> plan[r], pc |-> "start", token |-> Nothing, pair |-> Nothing,
                 redeemed |-> Nothing, alongside |-> {}, overtaken |-> FALSE,
                 answer |-> "none"]]
  /\ restarts = 0 /\ forgotten = {} /\ ended = {} /\ escaped = {}

-----------------------------------------------------------------------------
Op(r) == req[r].op
Is(r, kinds, place) == Op(r).kind \in kinds /\ req[r].pc = place

Goto(r, place) == req' = [req EXCEPT ![r].pc = place]
Finish(r, answer) ==
  req' = [req EXCEPT ![r].pc = "done", ![r].answer = answer, ![r].overtaken = FALSE]
Keep == UNCHANGED <<store, memory, history>>
Refuse(r) == Finish(r, "refused") /\ Keep

(* The answer, with the token the browser will keep, is on its way. *)
Reply(r, t) ==
  req' = [req EXCEPT ![r].pc = "reply", ![r].pair = t, ![r].overtaken = FALSE]

(* Who else has found the same token good and not spent it yet. *)
Alongside(r, t, places) ==
  {q \in Requests \ {r} : req[q].token = t /\ req[q].pc \in places}

(* BaseMongoRepository.update puts the fields into $set; Mongoose drops    *)
(* those which are undefined, so what was to be cleared keeps its value.   *)
Update(fields) ==
  /\ account' = [f \in DOMAIN account |->
                   IF fields[f] = Nothing THEN account[f] ELSE fields[f]]
  /\ UNCHANGED <<tokens, onetime, memory, history>>

-----------------------------------------------------------------------------
(***************************************************************************)
(* login, loginTotp, reactivateDeletion.                                   *)
(***************************************************************************)
Known(r) == Op(r).password = account.password /\ ~account.banned

Login(r) ==
  /\ Is(r, {"login"}, "start")
  /\ IF Known(r) /\ ~account.pending
     THEN Goto(r, IF account.totp THEN "invalidate" ELSE "session") /\ Keep
     ELSE Refuse(r)

Reactivate(r) ==
  /\ Is(r, {"reopen"}, "start")
  /\ IF Known(r) /\ account.pending THEN Goto(r, "clear") /\ Keep ELSE Refuse(r)

ReactivateClear(r) ==
  /\ Is(r, {"reopen"}, "clear") /\ Goto(r, "session")
  /\ Update([account EXCEPT !.pending = Nothing])

(* SecurityTokensService.issue: earlier ones of the kind are spent ... *)
KindOf(r) == IF Op(r).kind = "login" THEN "challenge" ELSE "reset"

IssueInvalidate(r) ==
  /\ Is(r, {"login", "forgot"}, "invalidate") /\ Goto(r, "issue")
  /\ onetime' = [t \in Requests |->
       IF onetime[t].kind = KindOf(r) THEN [onetime[t] EXCEPT !.used = TRUE]
       ELSE onetime[t]]
  /\ UNCHANGED <<account, tokens, memory, history>>

(* ... and a new one is saved. *)
IssueSave(r) ==
  /\ Is(r, {"login", "forgot"}, "issue") /\ Finish(r, "issued")
  /\ onetime' = [onetime EXCEPT ![r] = [kind |-> KindOf(r), used |-> FALSE]]
  /\ UNCHANGED <<account, tokens, memory, history>>

Good(t, kind) == onetime[t].kind = kind /\ ~onetime[t].used

(* peek; whoever has a challenge of an earlier request sends it.  It may   *)
(* have expired.                                                           *)
TotpPeek(r) ==
  /\ Is(r, {"totp"}, "start") /\ req[Op(r).of].answer = "issued"
  /\ \/ Good(Op(r).of, "challenge") /\ Goto(r, "code") /\ Keep
     \/ Refuse(r)

(* The account and the code. *)
TotpCode(r) ==
  /\ Is(r, {"totp"}, "code")
  /\ \/ ~account.banned /\ account.totp /\ Goto(r, "find") /\ Keep
     \/ Refuse(r)

(* consume: find it unused ... *)
ConsumeFind(r) ==
  /\ Is(r, {"totp"}, "find") \/ (Is(r, {"reset"}, "start") /\ req[Op(r).of].answer = "issued")
  /\ \/ /\ Good(Op(r).of, IF Op(r).kind = "totp" THEN "challenge" ELSE "reset") /\ Keep
        /\ req' = [req EXCEPT ![r].pc = "mark", ![r].token = Op(r).of]
     \/ Refuse(r)

Mark(r, used) ==
  /\ Is(r, {"totp", "reset"}, "mark")
  /\ onetime' = [onetime EXCEPT ![Op(r).of].used = used]
  /\ req' = [req EXCEPT ![r].pc = IF Op(r).kind = "totp" THEN "session" ELSE "update",
                        ![r].redeemed = Op(r).of,
                        ![r].alongside = Alongside(r, Op(r).of, {"mark"})]
  /\ UNCHANGED <<account, tokens, memory, history>>

(* Mutant: found good, but not spent. *)
ConsumeUnmarked(r) == Mark(r, onetime[Op(r).of].used)

(* ... and mark it; that another request has marked it since is ignored. *)
ConsumeMark(r) == Mark(r, TRUE)

(* generateTokenPair without a family: a session of its own. *)
NewSession(r) ==
  /\ Is(r, {"login", "totp", "reopen"}, "session") /\ Reply(r, r)
  /\ tokens' = [tokens EXCEPT ![r] = [family |-> r, live |-> TRUE]]
  /\ UNCHANGED <<account, onetime, memory, history>>

(* The answer arrives, or does not. *)
Deliver(r) ==
  /\ req[r].pc = "reply" /\ Finish(r, "ok")
  /\ cookie' \in {cookie, [cookie EXCEPT ![Op(r).by] = req[r].pair]}
  /\ UNCHANGED <<store, grace, restarts, history>>

-----------------------------------------------------------------------------
(***************************************************************************)
(* refresh.                                                                *)
(***************************************************************************)
Rotating == {"user", "revoke", "save", "remember"}

RefreshFind(r) ==
  LET t == cookie[Op(r).by] IN
  /\ Is(r, {"refresh"}, "start")
  /\ \/ t = Nothing /\ Refuse(r)
     \/ /\ t # Nothing /\ tokens[t].live /\ Keep
        /\ req' = [req EXCEPT ![r].pc = "user", ![r].token = t]
     \/ /\ t # Nothing /\ ~tokens[t].live /\ Keep
        /\ req' = [req EXCEPT ![r].token = t,
             ![r].pc = IF grace[t] # Nothing THEN "reply" ELSE "abuse",
             ![r].pair = grace[t]]

(* Requests that have found a token of such a family good, and will put a  *)
(* new one into it.                                                        *)
Overtake(families) ==
  [q \in Requests |->
    IF /\ Op(q).kind = "refresh" /\ req[q].pc \in Rotating \ {"remember"}
       /\ tokens[req[q].token].family \in families
    THEN [req[q] EXCEPT !.overtaken = TRUE] ELSE req[q]]

(* revokeFamily, revokeAllForUser. *)
End(families) ==
  /\ tokens' = [t \in Ids |->
       IF tokens[t].family \in families THEN [tokens[t] EXCEPT !.live = FALSE]
       ELSE tokens[t]]
  /\ ended' = ended \cup families /\ escaped' = escaped \ families
  /\ UNCHANGED <<account, onetime, memory, forgotten>>

FinishEnding(r, families, place, answer) ==
  /\ End(families)
  /\ req' = [Overtake(families) EXCEPT ![r].pc = place, ![r].answer = answer]

(* Reuse detection: the whole family goes. *)
RefreshAbused(r) ==
  /\ Is(r, {"refresh"}, "abuse")
  /\ FinishEnding(r, {tokens[req[r].token].family}, "done", "abused")

RefreshUser(r) ==
  /\ Is(r, {"refresh"}, "user")
  /\ IF account.banned THEN Refuse(r) ELSE Goto(r, "revoke") /\ Keep

RefreshRevoke(r) ==
  LET t == req[r].token IN
  /\ Is(r, {"refresh"}, "revoke")
  /\ tokens' = [tokens EXCEPT ![t].live = FALSE]
  /\ req' = [req EXCEPT ![r].pc = "save", ![r].redeemed = t,
                        ![r].alongside = Alongside(r, t, {"user", "revoke"})]
  /\ UNCHANGED <<account, onetime, memory, history>>

(* generateTokenPair: into the same family, whatever happened to it since. *)
RefreshSave(r) ==
  LET f == tokens[req[r].token].family IN
  /\ Is(r, {"refresh"}, "save") /\ Goto(r, "remember")
  /\ tokens' = [tokens EXCEPT ![r] = [family |-> f, live |-> TRUE]]
  /\ escaped' = IF req[r].overtaken THEN escaped \cup {f} ELSE escaped
  /\ UNCHANGED <<account, onetime, memory, forgotten, ended>>

(* Mutant: before 23.5. *)
RefreshUnremembered(r) ==
  /\ Is(r, {"refresh"}, "remember") /\ Reply(r, r) /\ Keep

(* rememberGracePair. *)
RefreshRemember(r) ==
  /\ Is(r, {"refresh"}, "remember") /\ Reply(r, r)
  /\ grace' = [grace EXCEPT ![req[r].token] = r]
  /\ forgotten' = forgotten \ {req[r].token}
  /\ UNCHANGED <<store, cookie, restarts, ended, escaped>>

(* A minute is over. *)
GraceOver(t) ==
  /\ grace[t] # Nothing
  /\ grace' = [grace EXCEPT ![t] = Nothing] /\ forgotten' = forgotten \cup {t}
  /\ UNCHANGED <<store, cookie, restarts, req, ended, escaped>>

-----------------------------------------------------------------------------
(***************************************************************************)
(* The end of one session, or of all.                                      *)
(***************************************************************************)
Forget(b) == cookie' = [cookie EXCEPT ![b] = Nothing]

(* Mutant: only the token that was sent. *)
LogoutToken(r) ==
  LET t == cookie[Op(r).by] IN
  /\ Is(r, {"logout"}, "start") /\ t # Nothing
  /\ tokens' = [tokens EXCEPT ![t].live = FALSE]
  /\ ended' = ended \cup {tokens[t].family}
  /\ escaped' = escaped \ {tokens[t].family}
  /\ req' = [Overtake({tokens[t].family}) EXCEPT ![r].pc = "forget"]
  /\ UNCHANGED <<account, onetime, memory, forgotten>>

(* logout: the family is in the token; nothing is looked up. *)
Logout(r) ==
  LET t == cookie[Op(r).by] IN
  /\ Is(r, {"logout"}, "start") /\ t # Nothing
  /\ FinishEnding(r, {tokens[t].family}, "forget", "none")

(* Without a cookie; or revokeFamily fails, which is swallowed. *)
LogoutEmpty(r) == Is(r, {"logout"}, "start") /\ Goto(r, "forget") /\ Keep

All == {tokens[t].family : t \in Ids} \ {Nothing}

LogoutAll(r) ==
  /\ Is(r, {"logoutAll"}, "start") /\ FinishEnding(r, All, "forget", "none")

(* clearRefreshCookie. *)
ForgetCookie(r) ==
  /\ Is(r, {"logout", "logoutAll"}, "forget") /\ Finish(r, "ok") /\ Forget(Op(r).by)
  /\ UNCHANGED <<store, grace, restarts, history>>

(* forgotPassword, when no mail was sent within the last minutes. *)
ForgotPassword(r) ==
  /\ Is(r, {"forgot"}, "start")
  /\ \/ Goto(r, "invalidate") /\ Keep
     \/ Finish(r, "ok") /\ Keep

(* What the account is checked for, before it is written. *)
Check(r, kind, guard) ==
  /\ Is(r, {kind}, "start")
  /\ IF guard THEN Goto(r, "update") /\ Keep ELSE Refuse(r)

(* changePassword: `password' is the old one. *)
ChangePassword(r) == Check(r, "change", Op(r).password = account.password)
RequestSelfDeletion(r) == Check(r, "close", ~account.pending)
CancelSelfDeletion(r) == Check(r, "cancel", account.pending)
BanUser(r) == Check(r, "ban", ~account.banned)
UnbanUser(r) == Check(r, "unban", account.banned)

Write(r, kind, fields, place) ==
  /\ Is(r, {kind}, "update") /\ Update(fields)
  /\ IF place = "done" THEN Finish(r, "ok") ELSE Goto(r, place)

NewPassword == [account EXCEPT !.password = 1 - @]

ChangeUpdate(r) == Write(r, "change", NewPassword, "revokeAll")
ResetUpdate(r) == Write(r, "reset", [NewPassword EXCEPT !.pending = Nothing], "revokeAll")
CloseUpdate(r) == Write(r, "close", [account EXCEPT !.pending = TRUE], "revokeAll")
CancelUpdate(r) == Write(r, "cancel", [account EXCEPT !.pending = Nothing], "done")
BanUpdate(r) == Write(r, "ban", [account EXCEPT !.banned = TRUE], "revokeAll")
UnbanUpdate(r) == Write(r, "unban", [account EXCEPT !.banned = Nothing], "done")

(* user.password.changed and user.deletion.requested, and directly when    *)
(* banned; a reset has revoked all sessions itself before.                 *)
RevokeAll(r) ==
  /\ Is(r, {"change", "reset", "close", "ban"}, "revokeAll")
  /\ IF Op(r).kind = "reset" THEN FinishEnding(r, All, "event", "none")
     ELSE FinishEnding(r, All, "done", "ok")

ResetEvent(r) == Is(r, {"reset"}, "event") /\ FinishEnding(r, All, "done", "ok")

(* The listener of one of the two events fails: nobody is told. *)
RevokeFails(r) ==
  /\ Is(r, {"change", "close"}, "revokeAll") \/ Is(r, {"reset"}, "event")
  /\ Finish(r, "ok") /\ Keep

(* The process starts again: what it was doing, and refreshGrace, is gone. *)
Restart ==
  /\ restarts < MaxRestarts /\ restarts' = restarts + 1
  /\ grace' = [t \in Ids |-> Nothing]
  /\ forgotten' = {t \in Ids : tokens[t].family # Nothing /\ ~tokens[t].live}
  /\ req' = [r \in Requests |->
       IF req[r].pc \in {"start", "done"} THEN req[r]
       ELSE [req[r] EXCEPT !.pc = "done", !.answer = "crashed", !.overtaken = FALSE]]
  /\ UNCHANGED <<store, cookie, ended, escaped>>

Beginning(r) ==
  \/ Login(r) \/ Reactivate(r) \/ ReactivateClear(r)
  \/ IssueInvalidate(r) \/ IssueSave(r)
  \/ TotpPeek(r) \/ TotpCode(r) \/ ConsumeFind(r) \/ ConsumeMark(r) \/ NewSession(r)

Refreshing(r) ==
  \/ RefreshFind(r) \/ RefreshAbused(r) \/ RefreshUser(r) \/ RefreshRevoke(r)
  \/ RefreshSave(r) \/ RefreshRemember(r) \/ Deliver(r)

Ending(r) ==
  \/ Logout(r) \/ LogoutEmpty(r) \/ LogoutAll(r) \/ ForgetCookie(r)
  \/ ForgotPassword(r) \/ RevokeAll(r) \/ ResetEvent(r) \/ RevokeFails(r)

Administering(r) ==
  \/ ChangePassword(r) \/ RequestSelfDeletion(r) \/ CancelSelfDeletion(r)
  \/ BanUser(r) \/ UnbanUser(r)
  \/ ChangeUpdate(r) \/ ResetUpdate(r) \/ CloseUpdate(r) \/ CancelUpdate(r)
  \/ BanUpdate(r) \/ UnbanUpdate(r)

Next ==
  \/ \E r \in Requests :
       Beginning(r) \/ Refreshing(r) \/ Ending(r) \/ Administering(r)
  \/ \E t \in Ids : GraceOver(t)
  \/ Restart

Spec == Init /\ [][Next]_vars

-----------------------------------------------------------------------------
PCs == {"start", "session", "invalidate", "issue", "clear", "code", "find", "mark",
        "reply", "abuse", "user", "revoke", "save", "remember", "forget", "update",
        "revokeAll", "event", "done"}

TypeOK ==
  /\ account \in Account
  /\ tokens \in [Ids -> [family: Ids \cup {Nothing}, live: BOOLEAN]]
  /\ grace \in [Ids -> Ids \cup {Nothing}]
  /\ onetime \in [Requests -> [kind: {"none", "challenge", "reset"}, used: BOOLEAN]]
  /\ cookie \in [Browsers -> Ids \cup {Nothing}]
  /\ req \in [Requests -> [op: Operation, pc: PCs, token: Ids \cup {Nothing},
       pair: Ids \cup {Nothing}, redeemed: Ids \cup {Nothing},
       alongside: SUBSET Requests, overtaken: BOOLEAN,
       answer: {"none", "ok", "refused", "issued", "abused", "crashed"}]]
  /\ restarts \in 0..MaxRestarts
  /\ forgotten \subseteq Ids /\ ended \subseteq Ids /\ escaped \subseteq ended

(***************************************************************************)
(* A refresh token and a one-time token are redeemed once; twice only by   *)
(* requests of which each had found it good before the other spent it.     *)
(***************************************************************************)
RedeemedOnce ==
  \A q, r \in Requests :
    q # r /\ req[q].redeemed = req[r].redeemed /\ req[r].redeemed # Nothing =>
      q \in req[r].alongside \/ r \in req[q].alongside

(***************************************************************************)
(* 23.5: nobody is logged out for refreshing in two tabs, or again after   *)
(* an answer that got lost.  A token counts as reused only when its grace  *)
(* is over or was lost with the process, when its family has been ended,   *)
(* or while the other tab's refresh is between revoking it and remembering *)
(* the new pair.                                                           *)
(***************************************************************************)
InTheGap(t) ==
  \E q \in Requests : req[q].token = t /\ req[q].pc \in {"save", "remember"}

AbuseExplained ==
  [][\A r \in Requests : Is(r, {"refresh"}, "start") /\ req'[r].pc = "abuse" =>
       LET t == req'[r].token IN
       t \in forgotten \/ tokens[t].family \in ended \/ InTheGap(t)]_vars

(***************************************************************************)
(* A session that was ended stays ended: by logout in any tab, with        *)
(* whatever token of the family, by logout everywhere, a new password or   *)
(* the closing of the account.  The exception is a refresh on its way.  A  *)
(* revocation that failed unnoticed has ended nothing.                     *)
(***************************************************************************)
EndedStaysEnded ==
  \A t \in Ids : tokens[t].live /\ tokens[t].family \in ended =>
    tokens[t].family \in escaped

(***************************************************************************)
(* What the comment in refresh says of two parallel refreshes.             *)
(***************************************************************************)
TabsStayIn ==
  \A q, r \in Requests :
    req[r].pc = "abuse" /\ q # r /\ Op(q).kind = "refresh" /\ req[q].token = req[r].token
      => \/ tokens[req[r].token].family \in ended
         \/ req[r].token \in forgotten

(***************************************************************************)
(* reactivateDeletion: who comes back within the thirty days is no longer  *)
(* waiting for the deletion of the account.                                *)
(***************************************************************************)
ReopenedIsOpen ==
  [][\A r \in Requests : Is(r, {"reopen"}, "clear") /\ req'[r].pc = "session"
       => ~account'.pending]_vars

=============================================================================
