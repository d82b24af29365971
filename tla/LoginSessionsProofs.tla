-------------------------- MODULE LoginSessionsProofs --------------------------
(***************************************************************************)
(* For any number of browsers and requests, and any restarts: an ended     *)
(* session stays ended, a token is redeemed once, and nobody is thrown out *)
(* for reusing one without a reason, with the exceptions the three         *)
(* properties name.                                                        *)
(***************************************************************************)
EXTENDS LoginSessions, TLAPS

Fields == {"op", "pc", "token", "pair", "redeemed", "alongside", "overtaken", "answer"}

Shape ==
  /\ DOMAIN req = Requests
  /\ \A r \in Requests : /\ DOMAIN req[r] = Fields
                         /\ Op(r).by \in Browsers
                         /\ req[r].pair \in Ids \cup {Nothing}
  /\ tokens \in [Ids -> [family: Ids \cup {Nothing}, live: BOOLEAN]]
  /\ onetime \in [Requests -> [kind: {"none", "challenge", "reset"}, used: BOOLEAN]]
  /\ cookie \in [Browsers -> Ids \cup {Nothing}]
  /\ grace \in [Ids -> Ids \cup {Nothing}]

(* A request that has made what it makes. *)
Past(r) == req[r].pc \in {"remember", "reply", "done"}

(* A token is named by a request that got so far, and so is a family. *)
Named ==
  /\ \A r \in Requests : ~Past(r) => tokens[r].family = Nothing /\ r \notin ended
  /\ \A t \in Ids : tokens[t].family \in Requests => Past(tokens[t].family)
  /\ \A t \in Ids : tokens[t].live => tokens[t].family # Nothing
  /\ \A r \in Requests : onetime[r].kind # "none" =>
       req[r].pc = "done" /\ tokens[r].family = Nothing

Holds(q) == Is(q, {"refresh"}, "user") \/ Is(q, {"refresh"}, "revoke")
Saves(q) == Is(q, {"refresh"}, "save")
Marks(q) == Is(q, {"totp"}, "mark") \/ Is(q, {"reset"}, "mark")

(* What a request that has found a token good will do with it. *)
Carried ==
  \A q \in Requests :
    /\ Op(q).of \in Requests
    /\ Is(q, {"refresh"}, "abuse") => req[q].token \in Ids
    /\ Holds(q) \/ Saves(q) =>
         /\ req[q].token \in Ids /\ tokens[req[q].token].family # Nothing
         /\ tokens[req[q].token].family \in ended =>
              req[q].overtaken \/ tokens[req[q].token].family \in escaped
    /\ Marks(q) => /\ req[q].token = Op(q).of /\ Op(q).of \in Requests
                   /\ onetime[Op(q).of].kind # "none"

(* A token that was redeemed is spent, and whoever still holds it had      *)
(* found it good before.                                                   *)
Spent ==
  \A r \in Requests : LET t == req[r].redeemed IN t # Nothing =>
    \/ /\ Op(r).kind = "refresh" /\ t \in Ids
       /\ tokens[t].family # Nothing /\ ~tokens[t].live
       /\ \A q \in Requests \ {r} : Holds(q) /\ req[q].token = t => q \in req[r].alongside
    \/ /\ Op(r).kind \in {"totp", "reset"} /\ t \in Requests
       /\ onetime[t].kind # "none" /\ onetime[t].used
       /\ \A q \in Requests \ {r} : Marks(q) /\ req[q].token = t => q \in req[r].alongside

(* The inductive invariant. *)
SessionsConsistent == Shape /\ Named /\ Carried /\ Spent /\ EndedStaysEnded /\ RedeemedOnce

-----------------------------------------------------------------------------
LEMMA SessionsInit == Init => SessionsConsistent
<1> SUFFICES ASSUME Init PROVE SessionsConsistent
  OBVIOUS
<1> USE SessionAssumption DEF Ids, NoToken
<1>1. PICK b \in Beginnings :
        /\ tokens = [t \in Ids |-> IF t \in b.open THEN [family |-> t, live |-> TRUE]
                                   ELSE NoToken]
        /\ cookie = [c \in Browsers |-> IF c \in b.open THEN c ELSE Nothing]
  BY DEF Init
<1>2. b.open \subseteq Browsers
  OBVIOUS
<1>3. PICK plan \in Plans :
        req = [r \in Requests |->
                [op |-> plan[r], pc |-> "start", token |-> Nothing, pair |-> Nothing,
                 redeemed |-> Nothing, alongside |-> {}, overtaken |-> FALSE,
                 answer |-> "none"]]
  BY DEF Init
<1>4. /\ onetime = [t \in Requests |-> [kind |-> "none", used |-> FALSE]]
      /\ grace = [t \in Ids |-> Nothing] /\ ended = {}
  BY DEF Init
<1>5. Shape
  <2>1. \A r \in Requests : plan[r].by \in Browsers
    BY DEF Operation
  <2> QED
    BY <1>1, <1>2, <1>3, <1>4, <2>1 DEF Shape, Fields, Op
<1>6. Named
  BY <1>1, <1>2, <1>3, <1>4 DEF Named, Past
<1>7. Carried /\ Spent /\ EndedStaysEnded /\ RedeemedOnce
  <2>1. \A r \in Requests : plan[r].of \in Requests
    BY DEF Operation
  <2> QED
    BY <1>3, <1>4, <2>1 DEF Op, Carried, Spent, EndedStaysEnded, RedeemedOnce, Holds, Saves, Marks, Is
<1> QED
  BY <1>5, <1>6, <1>7 DEF SessionsConsistent

-----------------------------------------------------------------------------
(* What every step of r leaves alone. *)
Alone(r) ==
  /\ DOMAIN req' = Requests /\ DOMAIN req'[r] = Fields
  /\ \A q \in Requests \ {r} : req'[q] = req[q]
  /\ req'[r].op = req[r].op /\ req'[r].pair \in Ids \cup {Nothing}
  /\ cookie' \in [Browsers -> Ids \cup {Nothing}]
  /\ grace' \in [Ids -> Ids \cup {Nothing}]
  /\ req[r].pc # "done" /\ (Past(r) => Past(r)')

(* A step of r that makes, ends, finds and redeems no token. *)
Quiet(r) ==
  /\ Alone(r) /\ UNCHANGED <<tokens, onetime, ended, escaped>>
  /\ req'[r].redeemed = req[r].redeemed /\ req'[r].alongside = req[r].alongside
  /\ ~Is(r, {"refresh"}, "abuse")' /\ ~Marks(r)' /\ ~Saves(r)'
  /\ Holds(r)' => /\ Holds(r) /\ req'[r].token = req[r].token
                  /\ req'[r].overtaken = req[r].overtaken

LEMMA AloneAhead ==
  ASSUME NEW r \in Requests, Alone(r)
  PROVE  \A q \in Requests : /\ Past(q) => Past(q)'
                             /\ req[q].pc = "done" => req'[q].pc = "done"
BY DEF Alone, Past

LEMMA QuietKeeps ==
  ASSUME SessionsConsistent, NEW r \in Requests, Quiet(r)
  PROVE  SessionsConsistent'
<1> USE DEF SessionsConsistent, Quiet, Alone
<1>1. Shape'
  BY DEF Shape, Op
<1>2. Named'
  BY AloneAhead DEF Named
<1>3. Carried'
  BY DEF Carried, Holds, Saves, Marks, Is, Op
<1>4. Spent'
  BY DEF Spent, Holds, Marks, Is, Op
<1>5. EndedStaysEnded' /\ RedeemedOnce'
  BY DEF EndedStaysEnded, RedeemedOnce
<1> QED
  BY <1>1, <1>2, <1>3, <1>4, <1>5

(* Steps that only look, write the account or the cookie, or end.          *)
LEMMA QuietSteps ==
  ASSUME SessionsConsistent, NEW r \in Requests,
         \/ Login(r) \/ Reactivate(r) \/ ReactivateClear(r) \/ TotpPeek(r)
         \/ TotpCode(r) \/ Deliver(r) \/ RefreshUser(r) \/ RefreshRemember(r)
         \/ LogoutEmpty(r) \/ RevokeFails(r) \/ ForgetCookie(r) \/ ForgotPassword(r)
         \/ Administering(r)
  PROVE  Quiet(r)
<1> USE DEF Quiet, Alone, Holds, Saves, Marks, Past, Is, Op, Fields, Ids, store, history,
            memory, Keep, Finish, Goto, Reply, Refuse
<1>0. Shape
  BY DEF SessionsConsistent
<1>1. CASE Login(r) \/ Reactivate(r) \/ TotpPeek(r) \/ TotpCode(r)
           \/ LogoutEmpty(r) \/ RevokeFails(r) \/ ForgotPassword(r)
  BY <1>0, <1>1 DEF Login, Reactivate, TotpPeek, TotpCode, LogoutEmpty, RevokeFails, ForgotPassword, Shape
<1>2. CASE ReactivateClear(r)
  BY <1>0, <1>2 DEF ReactivateClear, Update, Shape
<1>3. CASE Deliver(r)
  BY <1>0, <1>3 DEF Deliver, Shape
<1>4. CASE RefreshUser(r)
  BY <1>0, <1>4 DEF RefreshUser, Shape
<1>5. CASE RefreshRemember(r)
  BY <1>0, <1>5 DEF RefreshRemember, Shape
<1>6. CASE ForgetCookie(r)
  BY <1>0, <1>6, SessionAssumption DEF ForgetCookie, Forget, Shape
<1>7. CASE ChangePassword(r) \/ RequestSelfDeletion(r) \/ CancelSelfDeletion(r)
           \/ BanUser(r) \/ UnbanUser(r)
  BY <1>0, <1>7 DEF ChangePassword, RequestSelfDeletion, CancelSelfDeletion, BanUser,
                    UnbanUser, Check, Shape
<1>8. CASE ChangeUpdate(r) \/ ResetUpdate(r) \/ CloseUpdate(r) \/ CancelUpdate(r)
           \/ BanUpdate(r) \/ UnbanUpdate(r)
  <2>1. PICK kind \in {"change", "reset", "close", "cancel", "ban", "unban"} :
          \E fields, place : Write(r, kind, fields, place) /\ place \in {"revokeAll", "done"}
    BY <1>8 DEF ChangeUpdate, ResetUpdate, CloseUpdate, CancelUpdate, BanUpdate, UnbanUpdate
  <2> QED
    BY <1>0, <2>1 DEF Write, Update, Shape
<1> QED
  BY <1>1, <1>2, <1>3, <1>4, <1>5, <1>6, <1>7, <1>8 DEF Administering

-----------------------------------------------------------------------------
(* What is found good was not spent before, and its family not ended.      *)
LEMMA FindKeeps ==
  ASSUME SessionsConsistent, NEW r \in Requests, RefreshFind(r)
  PROVE  SessionsConsistent'
<1> USE DEF Ids
<1>1. CASE cookie[Op(r).by] = Nothing
  <2>1. Quiet(r)
    BY <1>1 DEF RefreshFind, Refuse, Finish, Keep, SessionsConsistent, Shape, Quiet, Alone,
                Holds, Saves, Marks, Past, Is, Op, Fields, store, history, memory
  <2> QED
    BY <2>1, QuietKeeps
<1>2. CASE cookie[Op(r).by] # Nothing
  <2> DEFINE t == cookie[Op(r).by]
  <2>1. t \in Ids /\ req[r].pc = "start" /\ Op(r).kind = "refresh"
    BY <1>2 DEF SessionsConsistent, Shape, RefreshFind, Is
  <2>2. /\ Alone(r) /\ UNCHANGED <<tokens, onetime, ended, escaped>>
        /\ req'[r].redeemed = req[r].redeemed /\ req'[r].alongside = req[r].alongside
        /\ req'[r].token = t
        /\ IF tokens[t].live THEN req'[r].pc = "user" ELSE req'[r].pc \in {"reply", "abuse"}
    BY <1>2, <2>1 DEF RefreshFind, Refuse, Finish, Keep, SessionsConsistent, Shape, Alone,
                Past, Is, Op, Fields, store, history, memory
  <2>3. Shape' /\ Named'
    BY <2>1, <2>2, AloneAhead DEF SessionsConsistent, Shape, Named, Alone, Op
  <2>4. Carried'
    BY <2>1, <2>2 DEF SessionsConsistent, Carried, Named, EndedStaysEnded, Alone,
                      Holds, Saves, Marks, Is, Op
  <2>5. Spent'
    BY <2>1, <2>2 DEF SessionsConsistent, Spent, Alone, Holds, Marks, Is, Op
  <2>6. EndedStaysEnded' /\ RedeemedOnce'
    BY <2>2 DEF SessionsConsistent, EndedStaysEnded, RedeemedOnce, Alone
  <2> QED
    BY <2>3, <2>4, <2>5, <2>6 DEF SessionsConsistent
<1> QED
  BY <1>1, <1>2

LEMMA ConsumeFindKeeps ==
  ASSUME SessionsConsistent, NEW r \in Requests, ConsumeFind(r)
  PROVE  SessionsConsistent'
<1> USE DEF Ids
<1>1. CASE Refuse(r)
  <2>1. Quiet(r)
    BY <1>1 DEF ConsumeFind, Refuse, Finish, Keep, SessionsConsistent, Shape, Quiet, Alone,
                Holds, Saves, Marks, Past, Is, Op, Fields, store, history, memory
  <2> QED
    BY <2>1, QuietKeeps
<1>2. CASE ~Refuse(r)
  <2> DEFINE t == Op(r).of
  <2>1. /\ req[r].pc \in {"find", "start"} /\ Op(r).kind \in {"totp", "reset"}
        /\ onetime[t].kind \in {"challenge", "reset"} /\ ~onetime[t].used
        /\ req' = [req EXCEPT ![r].pc = "mark", ![r].token = t] /\ Keep
    BY <1>2 DEF ConsumeFind, Is, Good
  <2>2. t \in Requests
    BY DEF SessionsConsistent, Carried
  <2>3. /\ Alone(r) /\ UNCHANGED <<tokens, onetime, ended, escaped>>
        /\ req'[r].redeemed = req[r].redeemed /\ req'[r].alongside = req[r].alongside
        /\ req'[r].token = t /\ req'[r].pc = "mark"
    BY <2>1 DEF Keep, SessionsConsistent, Shape, Alone, Past, Op, Fields, store, history, memory
  <2>4. Shape' /\ Named'
    BY <2>1, <2>3, AloneAhead DEF SessionsConsistent, Shape, Named, Alone, Op
  <2>5. Carried'
    BY <2>1, <2>2, <2>3 DEF SessionsConsistent, Carried, Alone, Holds, Saves, Marks, Is, Op
  <2>6. Spent'
    BY <2>1, <2>2, <2>3 DEF SessionsConsistent, Spent, Alone, Holds, Marks, Is, Op
  <2>7. EndedStaysEnded' /\ RedeemedOnce'
    BY <2>3 DEF SessionsConsistent, EndedStaysEnded, RedeemedOnce, Alone
  <2> QED
    BY <2>4, <2>5, <2>6, <2>7 DEF SessionsConsistent
<1> QED
  BY <1>1, <1>2

(* Earlier tokens of the kind are spent; or one of its own is saved, which *)
(* nobody can have found before.                                           *)
LEMMA IssueKeeps ==
  ASSUME SessionsConsistent, NEW r \in Requests, IssueInvalidate(r) \/ IssueSave(r)
  PROVE  SessionsConsistent'
<1> USE DEF Ids
<1>1. /\ Alone(r) /\ UNCHANGED <<tokens, ended, escaped>>
      /\ req'[r].redeemed = req[r].redeemed /\ req'[r].alongside = req[r].alongside
      /\ req[r].pc \in {"invalidate", "issue"}
      /\ req'[r].pc = IF req[r].pc = "issue" THEN "done" ELSE "issue"
  BY DEF IssueInvalidate, IssueSave, Goto, Finish, SessionsConsistent, Shape, Alone, Past,
         Is, Op, Fields, history, memory
<1>2. /\ onetime' \in [Requests -> [kind: {"none", "challenge", "reset"}, used: BOOLEAN]]
      /\ \A t \in Requests \ {r} : /\ onetime'[t].kind = onetime[t].kind
                                   /\ onetime[t].used => onetime'[t].used
      /\ req[r].pc = "invalidate" => onetime'[r].kind = onetime[r].kind
  <2>1. KindOf(r) \in {"challenge", "reset"} /\ r \in Requests
    BY DEF KindOf
  <2>2. onetime \in [Requests -> [kind: {"none", "challenge", "reset"}, used: BOOLEAN]]
    BY DEF SessionsConsistent, Shape
  <2>3. CASE IssueInvalidate(r)
    <3>1. onetime' = [t \in Requests |->
            IF onetime[t].kind = KindOf(r) THEN [onetime[t] EXCEPT !.used = TRUE]
            ELSE onetime[t]]
      BY <2>3 DEF IssueInvalidate
    <3>2. \A t \in Requests : /\ onetime'[t].kind = onetime[t].kind
                             /\ onetime[t].used => onetime'[t].used
                             /\ onetime'[t].used \in BOOLEAN
      BY <2>2, <3>1
    <3> QED
      BY <2>2, <3>1, <3>2
  <2>4. CASE IssueSave(r)
    <3>1. onetime' = [onetime EXCEPT ![r] = [kind |-> KindOf(r), used |-> FALSE]]
          /\ req[r].pc = "issue"
      BY <2>4 DEF IssueSave, Is
    <3> QED
      BY <2>1, <2>2, <3>1
  <2> QED
    BY <2>3, <2>4
<1>3. onetime[r].kind = "none" /\ tokens[r].family = Nothing
  BY <1>1 DEF SessionsConsistent, Named, Past
<1>4. Shape'
  BY <1>1, <1>2 DEF SessionsConsistent, Shape, Alone, Op
<1>5. Named'
  <2>1. ASSUME NEW q \in Requests
        PROVE  /\ ~Past(q)' => ~Past(q)
               /\ Past(q) => Past(q)'
               /\ onetime'[q].kind # "none" => req'[q].pc = "done" /\ tokens[q].family = Nothing
    <3>1. CASE q = r
      BY <1>1, <1>2, <1>3, <3>1 DEF Alone, Past
    <3>2. CASE q # r
      BY <1>1, <1>2, <3>2 DEF Alone, Past, SessionsConsistent, Named
    <3> QED
      BY <3>1, <3>2
  <2> QED
    BY <1>1, <2>1 DEF SessionsConsistent, Named
<1>6. Carried'
  BY <1>1, <1>2, <1>3 DEF SessionsConsistent, Carried, Alone, Holds, Saves, Marks, Is, Op
<1>7. Spent'
  BY <1>1, <1>2, <1>3 DEF SessionsConsistent, Spent, Alone, Holds, Marks, Is, Op
<1>8. EndedStaysEnded' /\ RedeemedOnce'
  BY <1>1 DEF SessionsConsistent, EndedStaysEnded, RedeemedOnce, Alone
<1> QED
  BY <1>4, <1>5, <1>6, <1>7, <1>8 DEF SessionsConsistent

(* Who still is about to mark the same token is kept in alongside. *)
LEMMA MarkKeeps ==
  ASSUME SessionsConsistent, NEW r \in Requests, ConsumeMark(r)
  PROVE  SessionsConsistent'
<1> USE DEF Ids
<1> DEFINE t == Op(r).of
<1>1. /\ Alone(r) /\ UNCHANGED <<tokens, ended, escaped>>
      /\ req'[r].redeemed = t /\ req'[r].alongside = Alongside(r, t, {"mark"})
      /\ req[r].pc = "mark" /\ req'[r].pc \in {"session", "update"}
      /\ Op(r).kind \in {"totp", "reset"} /\ Marks(r)
  BY DEF ConsumeMark, Mark, SessionsConsistent, Shape, Alone, Past, Marks,
         Is, Op, Fields, history, memory
<1>2. onetime' = [onetime EXCEPT ![t].used = TRUE]
  BY DEF ConsumeMark, Mark
<1>3. /\ onetime[t].kind # "none" /\ tokens[t].family = Nothing /\ req[r].token = t
      /\ t \in Requests
  BY <1>1 DEF SessionsConsistent, Carried, Named
<1>4. Shape'
  BY <1>1, <1>2 DEF SessionsConsistent, Shape, Alone, Op
<1>5. Named'
  BY <1>1, <1>2 DEF SessionsConsistent, Shape, Named, Alone, Past
<1>6. Carried'
  BY <1>1, <1>2 DEF SessionsConsistent, Shape, Carried, Alone, Holds, Saves, Marks, Is, Op
<1>7. Spent'
  <2>1. ASSUME NEW q \in Requests \ {r}, Marks(q), req[q].token = t
        PROVE  q \in req'[r].alongside
    BY <1>1, <2>1 DEF Alongside, Marks, Is
  <2> QED
    BY <1>1, <1>2, <1>3, <2>1
       DEF SessionsConsistent, Shape, Spent, Alone, Holds, Marks, Is, Op
<1>8. RedeemedOnce'
  <2>1. ASSUME NEW q \in Requests \ {r}, req[q].redeemed = t
        PROVE  r \in req[q].alongside
    BY <1>1, <1>3, <2>1, SessionAssumption DEF SessionsConsistent, Spent
  <2> QED
    BY <1>1, <2>1 DEF SessionsConsistent, RedeemedOnce, Alone
<1>9. EndedStaysEnded'
  BY <1>1 DEF SessionsConsistent, EndedStaysEnded
<1> QED
  BY <1>4, <1>5, <1>6, <1>7, <1>8, <1>9 DEF SessionsConsistent

-----------------------------------------------------------------------------
(* A token is put in under its own name, which nothing had before: in a    *)
(* new family, or in that of the token that was found good.                *)
LEMMA SaveKeeps ==
  ASSUME SessionsConsistent, NEW r \in Requests, NEW f \in Ids,
         Alone(r), ~Past(r), Past(r)', UNCHANGED <<onetime, ended>>,
         req'[r].redeemed = req[r].redeemed, req'[r].alongside = req[r].alongside,
         req'[r].pc \in {"reply", "remember"},
         tokens' = [tokens EXCEPT ![r] = [family |-> f, live |-> TRUE]],
         escaped \subseteq escaped', f \in ended => f \in escaped',
         f \in Requests => f = r \/ Past(f)
  PROVE  SessionsConsistent'
<1> USE DEF Ids
<1>1. tokens[r].family = Nothing /\ onetime[r].kind = "none"
  BY DEF SessionsConsistent, Named, Past
<1>2. /\ tokens'[r] = [family |-> f, live |-> TRUE] /\ f # Nothing
      /\ \A t \in Ids \ {r} : tokens'[t] = tokens[t]
  BY SessionAssumption DEF SessionsConsistent, Shape
<1>3. Shape'
  BY <1>2 DEF SessionsConsistent, Shape, Alone, Op
<1>4. Named'
  <2>1. \A q \in Requests : (Past(q) => Past(q)') /\ (q # r => Past(q)' = Past(q))
    BY DEF Alone, Past
  <2>2. \A q \in Requests \ {r} : req'[q] = req[q]
    BY DEF Alone
  <2> QED
    BY <1>1, <1>2, <2>1, <2>2 DEF SessionsConsistent, Named
<1>5. Carried'
  BY <1>1, <1>2 DEF SessionsConsistent, Carried, Alone, Holds, Saves, Marks, Is, Op
<1>6. Spent'
  BY <1>1, <1>2 DEF SessionsConsistent, Spent, Alone, Holds, Marks, Is, Op
<1>7. EndedStaysEnded' /\ RedeemedOnce'
  BY <1>2 DEF SessionsConsistent, EndedStaysEnded, RedeemedOnce, Alone
<1> QED
  BY <1>3, <1>4, <1>5, <1>6, <1>7 DEF SessionsConsistent

LEMMA SaveSteps ==
  ASSUME SessionsConsistent, NEW r \in Requests, NewSession(r) \/ RefreshSave(r)
  PROVE  SessionsConsistent'
<1> USE DEF Ids
<1>1. CASE NewSession(r)
  <2>1. /\ Alone(r) /\ ~Past(r) /\ Past(r)' /\ UNCHANGED <<onetime, ended, escaped>>
        /\ req'[r].redeemed = req[r].redeemed /\ req'[r].alongside = req[r].alongside
        /\ req'[r].pc \in {"reply", "remember"}
    BY <1>1 DEF NewSession, Reply, SessionsConsistent, Shape, Alone, Past, Is, Op, Fields,
                history, memory
  <2>2. tokens' = [tokens EXCEPT ![r] = [family |-> r, live |-> TRUE]] /\ r \notin ended
    BY <1>1, <2>1 DEF NewSession, SessionsConsistent, Named
  <2> QED
    BY <2>1, <2>2, SaveKeeps
<1>2. CASE RefreshSave(r)
  <2> DEFINE f == tokens[req[r].token].family
  <2>1. /\ Alone(r) /\ ~Past(r) /\ Past(r)' /\ UNCHANGED <<onetime, ended>>
        /\ req'[r].redeemed = req[r].redeemed /\ req'[r].alongside = req[r].alongside
        /\ req'[r].pc \in {"reply", "remember"} /\ Saves(r)
    BY <1>2 DEF RefreshSave, Goto, SessionsConsistent, Shape, Alone, Past, Saves, Is, Op,
                Fields, memory
  <2>2. /\ tokens' = [tokens EXCEPT ![r] = [family |-> f, live |-> TRUE]]
        /\ escaped' = IF req[r].overtaken THEN escaped \cup {f} ELSE escaped
    BY <1>2 DEF RefreshSave
  <2>3. req[r].token \in Ids /\ f \in Ids /\ (f \in ended => req[r].overtaken \/ f \in escaped)
    BY <2>1 DEF SessionsConsistent, Shape, Carried
  <2>4. f \in Requests => Past(f)
    BY <2>3 DEF SessionsConsistent, Named
  <2>5. escaped \subseteq escaped' /\ (f \in ended => f \in escaped')
    BY <2>2, <2>3
  <2> HIDE DEF f
  <2> QED
    BY <2>1, <2>2, <2>3, <2>4, <2>5, SaveKeeps
<1> QED
  BY <1>1, <1>2

(* Who still is on the way to revoke the same token is kept in alongside.  *)
LEMMA RevokeKeeps ==
  ASSUME SessionsConsistent, NEW r \in Requests, RefreshRevoke(r)
  PROVE  SessionsConsistent'
<1> USE DEF Ids
<1> DEFINE t == req[r].token
<1>1. /\ Alone(r) /\ UNCHANGED <<onetime, ended, escaped>>
      /\ req'[r].redeemed = t /\ req'[r].alongside = Alongside(r, t, {"user", "revoke"})
      /\ req'[r].token = t /\ req'[r].overtaken = req[r].overtaken
      /\ req[r].pc = "revoke" /\ req'[r].pc = "save" /\ Op(r).kind = "refresh" /\ Holds(r)
  BY DEF RefreshRevoke, SessionsConsistent, Shape, Alone, Past, Holds, Is, Op, Fields,
         history, memory
<1>2. tokens' = [tokens EXCEPT ![t].live = FALSE]
  BY DEF RefreshRevoke
<1>3. t \in Ids /\ tokens[t].family # Nothing
  BY <1>1 DEF SessionsConsistent, Carried
<1>4. /\ tokens' \in [Ids -> [family: Ids \cup {Nothing}, live: BOOLEAN]]
      /\ ~tokens'[t].live /\ tokens'[t].family = tokens[t].family
      /\ \A u \in Ids \ {t} : tokens'[u] = tokens[u]
  <2>1. tokens \in [Ids -> [family: Ids \cup {Nothing}, live: BOOLEAN]]
    BY DEF SessionsConsistent, Shape
  <2>2. \A u \in Ids \ {t} : tokens'[u] = tokens[u]
    BY <1>2, <1>3, <2>1
  <2>3. tokens'[t] = [tokens[t] EXCEPT !.live = FALSE]
    BY <1>2, <1>3, <2>1
  <2>4. ~tokens'[t].live /\ tokens'[t].family = tokens[t].family
    BY <1>3, <2>1, <2>3
  <2> QED
    BY <1>2, <1>3, <2>1, <2>2, <2>4
<1>5. Shape'
  BY <1>1, <1>4 DEF SessionsConsistent, Shape, Alone, Op
<1>6. Named'
  <2>1. \A q \in Requests : (Past(q) => Past(q)') /\ (req[q].pc = "done" => req'[q].pc = "done")
    BY <1>1, AloneAhead
  <2>2. \A u \in Ids : /\ tokens'[u].family = tokens[u].family
                       /\ tokens'[u].live => tokens[u].live
    BY <1>4
  <2> QED
    BY <1>1, <2>1, <2>2 DEF SessionsConsistent, Named
<1>7. Carried'
  BY <1>1, <1>4 DEF SessionsConsistent, Carried, Alone, Holds, Saves, Marks, Is, Op
<1>8. Spent'
  <2>1. ASSUME NEW q \in Requests \ {r}, Holds(q), req[q].token = t
        PROVE  q \in req'[r].alongside
    BY <1>1, <2>1 DEF Alongside, Holds, Is
  <2>2. \A u \in Ids : /\ tokens'[u].family = tokens[u].family
                       /\ tokens'[u].live => tokens[u].live
    BY <1>4
  <2>3. \A q \in Requests :
          /\ Op(q)' = Op(q)
          /\ Holds(q)' => Holds(q) /\ req'[q].token = req[q].token
          /\ Marks(q)' => Marks(q) /\ req'[q].token = req[q].token
    BY <1>1 DEF Alone, Holds, Marks, Is, Op
  <2> QED
    BY <1>1, <1>3, <1>4, <2>1, <2>2, <2>3 DEF SessionsConsistent, Spent, Alone
<1>9. EndedStaysEnded'
  BY <1>1, <1>4 DEF SessionsConsistent, EndedStaysEnded
<1>10. RedeemedOnce'
  <2>1. ASSUME NEW q \in Requests \ {r}, req[q].redeemed = t
        PROVE  r \in req[q].alongside
    BY <1>1, <1>3, <2>1, SessionAssumption DEF SessionsConsistent, Spent, Named
  <2> QED
    BY <1>1, <2>1 DEF SessionsConsistent, RedeemedOnce, Alone
<1> QED
  BY <1>5, <1>6, <1>7, <1>8, <1>9, <1>10 DEF SessionsConsistent

-----------------------------------------------------------------------------
(* The end of some families: no token of theirs is live, and a refresh     *)
(* that will put one in is remembered as overtaken.                        *)
LEMMA EndKeeps ==
  ASSUME SessionsConsistent, NEW r \in Requests, NEW families, NEW pc, NEW answer,
         families \subseteq {tokens[t].family : t \in Ids},
         FinishEnding(r, families, pc, answer),
         pc \in {"done", "forget", "event"},
         req[r].pc # "done", Past(r) => pc = "done", ~Holds(r), ~Saves(r), ~Marks(r)
  PROVE  SessionsConsistent'
<1> USE DEF Ids
<1> DEFINE Lost(q) == (Holds(q) \/ Saves(q)) /\ tokens[req[q].token].family \in families
<1>1. /\ UNCHANGED <<onetime, cookie, grace>>
      /\ ended' = ended \cup families /\ escaped' = escaped \ families
  BY DEF FinishEnding, End, memory
<1>2. /\ tokens' \in [Ids -> [family: Ids \cup {Nothing}, live: BOOLEAN]]
      /\ \A t \in Ids :
           /\ tokens'[t].family = tokens[t].family
           /\ tokens'[t].live => tokens[t].live /\ tokens[t].family \notin families
  <2>1. tokens \in [Ids -> [family: Ids \cup {Nothing}, live: BOOLEAN]]
    BY DEF SessionsConsistent, Shape
  <2>2. tokens' = [t \in Ids |-> IF tokens[t].family \in families
                                THEN [tokens[t] EXCEPT !.live = FALSE] ELSE tokens[t]]
    BY DEF FinishEnding, End
  <2>4. ASSUME NEW t \in Ids
        PROVE  /\ tokens'[t] \in [family: Ids \cup {Nothing}, live: BOOLEAN]
               /\ tokens'[t].family = tokens[t].family
               /\ tokens'[t].live => tokens[t].live /\ tokens[t].family \notin families
    <3>1. tokens[t] \in [family: Ids \cup {Nothing}, live: BOOLEAN]
      BY <2>1
    <3>2. tokens'[t] = IF tokens[t].family \in families
                       THEN [tokens[t] EXCEPT !.live = FALSE] ELSE tokens[t]
      BY <2>2
    <3> QED
      BY <3>1, <3>2
  <2>5. tokens' \in [Ids -> [family: Ids \cup {Nothing}, live: BOOLEAN]]
    BY <2>2, <2>4
  <2> QED
    BY <2>4, <2>5
<1>3. /\ DOMAIN req' = Requests /\ \A q \in Requests : DOMAIN req'[q] = Fields
      /\ \A q \in Requests : /\ req'[q].op = req[q].op /\ req'[q].pair = req[q].pair
                             /\ req'[q].token = req[q].token
                             /\ req'[q].redeemed = req[q].redeemed
                             /\ req'[q].alongside = req[q].alongside
      /\ \A q \in Requests \ {r} : /\ req'[q].pc = req[q].pc
                                   /\ req[q].overtaken => req'[q].overtaken
                                   /\ Lost(q) => req'[q].overtaken
      /\ req'[r].pc = pc
  <2>1. req' = [Overtake(families) EXCEPT ![r].pc = pc, ![r].answer = answer]
    BY DEF FinishEnding
  <2>2. DOMAIN req = Requests /\ \A q \in Requests : DOMAIN req[q] = Fields
    BY DEF SessionsConsistent, Shape
  <2>3. /\ DOMAIN Overtake(families) = Requests
        /\ \A q \in Requests :
             /\ Overtake(families)[q] \in {req[q], [req[q] EXCEPT !.overtaken = TRUE]}
             /\ Lost(q) => Overtake(families)[q] = [req[q] EXCEPT !.overtaken = TRUE]
    BY DEF Overtake, Rotating, Holds, Saves, Is
  <2>4. \A q \in Requests \ {r} : req'[q] = Overtake(families)[q]
    BY <2>1, <2>3
  <2>5. /\ DOMAIN req' = Requests
        /\ req'[r] = [Overtake(families)[r] EXCEPT !.pc = pc, !.answer = answer]
    BY <2>1, <2>3
  <2>6. ASSUME NEW q \in Requests
        PROVE  /\ DOMAIN Overtake(families)[q] = Fields
               /\ \A f \in Fields \ {"overtaken"} : Overtake(families)[q][f] = req[q][f]
               /\ req[q].overtaken => Overtake(families)[q].overtaken
               /\ Lost(q) => Overtake(families)[q].overtaken
    BY <2>2, <2>3 DEF Fields
  <2> HIDE DEF Lost
  <2>7. ASSUME NEW q \in Requests \ {r}
        PROVE  /\ DOMAIN req'[q] = Fields /\ req'[q].pc = req[q].pc
               /\ req'[q].op = req[q].op /\ req'[q].pair = req[q].pair
               /\ req'[q].token = req[q].token /\ req'[q].redeemed = req[q].redeemed
               /\ req'[q].alongside = req[q].alongside
               /\ req[q].overtaken => req'[q].overtaken
               /\ Lost(q) => req'[q].overtaken
    BY <2>4, <2>6 DEF Fields
  <2>8. /\ DOMAIN req'[r] = Fields /\ req'[r].pc = pc
        /\ req'[r].op = req[r].op /\ req'[r].pair = req[r].pair
        /\ req'[r].token = req[r].token /\ req'[r].redeemed = req[r].redeemed
        /\ req'[r].alongside = req[r].alongside
    BY <2>5, <2>6 DEF Fields
  <2> QED
    BY <2>5, <2>7, <2>8
<1>4. \A q \in Requests : /\ Past(q) => Past(q)'
                          /\ Past(q)' => Past(q) \/ q = r
                          /\ req[q].pc = "done" => req'[q].pc = "done"
                          /\ Op(q)' = Op(q)
                          /\ Holds(q)' => Holds(q) /\ q # r
                          /\ Saves(q)' => Saves(q) /\ q # r
                          /\ Marks(q)' => Marks(q)
                          /\ Is(q, {"refresh"}, "abuse")' => Is(q, {"refresh"}, "abuse")
  BY <1>3 DEF Past, Holds, Saves, Marks, Is, Op
<1>5. Shape'
  BY <1>1, <1>2, <1>3, <1>4 DEF SessionsConsistent, Shape
<1>6. Named'
  <2>1. ASSUME NEW q \in Requests, ~Past(q)' PROVE q \notin families
    BY <1>4, <2>1 DEF SessionsConsistent, Named
  <2> QED
    BY <1>1, <1>2, <1>4, <2>1 DEF SessionsConsistent, Named
<1>7. Carried'
  <2>1. ASSUME NEW q \in Requests, (Holds(q) \/ Saves(q))'
        PROVE  /\ req'[q].token \in Ids /\ tokens'[req'[q].token].family # Nothing
               /\ tokens'[req'[q].token].family \in ended' =>
                    req'[q].overtaken \/ tokens'[req'[q].token].family \in escaped'
    <3>1. /\ q # r /\ (Holds(q) \/ Saves(q)) /\ req'[q].token = req[q].token
          /\ req[q].token \in Ids
      BY <1>3, <1>4, <2>1 DEF SessionsConsistent, Carried
    <3>2. CASE tokens[req[q].token].family \in families
      BY <1>2, <1>3, <3>1, <3>2 DEF SessionsConsistent, Carried
    <3>3. CASE tokens[req[q].token].family \notin families
      BY <1>1, <1>2, <1>3, <3>1, <3>3 DEF SessionsConsistent, Carried
    <3> QED
      BY <3>2, <3>3
  <2> QED
    BY <1>1, <1>3, <1>4, <2>1 DEF SessionsConsistent, Carried
<1>8. Spent'
  BY <1>1, <1>2, <1>3, <1>4 DEF SessionsConsistent, Spent
<1>9. EndedStaysEnded' /\ RedeemedOnce'
  BY <1>1, <1>2, <1>3 DEF SessionsConsistent, EndedStaysEnded, RedeemedOnce
<1> QED
  BY <1>5, <1>6, <1>7, <1>8, <1>9 DEF SessionsConsistent

LEMMA EndSteps ==
  ASSUME SessionsConsistent, NEW r \in Requests,
         RefreshAbused(r) \/ Logout(r) \/ LogoutAll(r) \/ RevokeAll(r) \/ ResetEvent(r)
  PROVE  SessionsConsistent'
<1> USE DEF Holds, Saves, Marks, Past, Is
<1>1. CASE RefreshAbused(r)
  <2>1. req[r].token \in Ids
    BY <1>1 DEF RefreshAbused, SessionsConsistent, Carried
  <2> QED
    BY <1>1, <2>1, EndKeeps DEF RefreshAbused
<1>2. CASE Logout(r)
  <2>1. cookie[Op(r).by] \in Ids
    BY <1>2 DEF Logout, SessionsConsistent, Shape
  <2> QED
    BY <1>2, <2>1, EndKeeps DEF Logout
<1>3. CASE LogoutAll(r) \/ RevokeAll(r) \/ ResetEvent(r)
  <2>1. All \subseteq {tokens[t].family : t \in Ids}
    BY DEF All
  <2> QED
    BY <1>3, <2>1, EndKeeps DEF LogoutAll, RevokeAll, ResetEvent
<1> QED
  BY <1>1, <1>2, <1>3

LEMMA GraceKeeps ==
  ASSUME SessionsConsistent, NEW t \in Ids, GraceOver(t)
  PROVE  SessionsConsistent'
BY DEF GraceOver, store, SessionsConsistent, Shape, Named, Carried, Spent, EndedStaysEnded,
       RedeemedOnce, Past, Holds, Saves, Marks, Is, Op

LEMMA RestartKeeps ==
  ASSUME SessionsConsistent, Restart
  PROVE  SessionsConsistent'
<1> USE DEF Ids
<1>1. /\ UNCHANGED <<tokens, onetime, cookie, ended, escaped>>
      /\ grace' = [t \in Ids |-> Nothing]
  BY DEF Restart, store
<1>2. /\ DOMAIN req' = Requests
      /\ \A q \in Requests :
           /\ DOMAIN req'[q] = Fields /\ req'[q].op = req[q].op /\ req'[q].pair = req[q].pair
           /\ req'[q].redeemed = req[q].redeemed /\ req'[q].alongside = req[q].alongside
           /\ req'[q].pc \in {"start", "done"}
           /\ req'[q].pc = "start" => req[q].pc = "start"
  BY DEF Restart, SessionsConsistent, Shape, Fields
<1>3. Shape' /\ Named'
  BY <1>1, <1>2 DEF SessionsConsistent, Shape, Named, Past, Op
<1>4. Carried' /\ Spent' /\ EndedStaysEnded' /\ RedeemedOnce'
  BY <1>1, <1>2 DEF SessionsConsistent, Carried, Spent, EndedStaysEnded, RedeemedOnce,
                    Holds, Saves, Marks, Is, Op
<1> QED
  BY <1>3, <1>4 DEF SessionsConsistent

LEMMA SessionsNext == SessionsConsistent /\ [Next]_vars => SessionsConsistent'
<1> SUFFICES ASSUME SessionsConsistent, [Next]_vars PROVE SessionsConsistent'
  OBVIOUS
<1>1. CASE UNCHANGED vars
  BY <1>1 DEF vars, store, memory, history, SessionsConsistent, Shape, Named, Carried, Spent,
              EndedStaysEnded, RedeemedOnce, Past, Holds, Saves, Marks, Is, Op
<1>2. ASSUME NEW r \in Requests, Beginning(r) PROVE SessionsConsistent'
  BY <1>2, QuietSteps, QuietKeeps, IssueKeeps, ConsumeFindKeeps, MarkKeeps, SaveSteps
     DEF Beginning
<1>3. ASSUME NEW r \in Requests, Refreshing(r) PROVE SessionsConsistent'
  BY <1>3, QuietSteps, QuietKeeps, FindKeeps, EndSteps, RevokeKeeps, SaveSteps DEF Refreshing
<1>4. ASSUME NEW r \in Requests, Ending(r) PROVE SessionsConsistent'
  BY <1>4, QuietSteps, QuietKeeps, EndSteps DEF Ending
<1>5. ASSUME NEW r \in Requests, Administering(r) PROVE SessionsConsistent'
  BY <1>5, QuietSteps, QuietKeeps
<1>6. CASE (\E t \in Ids : GraceOver(t)) \/ Restart
  BY <1>6, GraceKeeps, RestartKeeps
<1> QED
  BY <1>1, <1>2, <1>3, <1>4, <1>5, <1>6 DEF Next

LEMMA SessionsAlways == Spec => []SessionsConsistent
BY SessionsInit, SessionsNext, PTL DEF Spec

-----------------------------------------------------------------------------
(***************************************************************************)
(* Why a token that was spent may count as reused.                         *)
(***************************************************************************)
(* What a cookie, a grace period and an answer name is nothing, or a token *)
(* that was saved.                                                         *)
Exists(t) == t = Nothing \/ (t \in Ids /\ tokens[t].family # Nothing)

(* Why a token that was saved is not good any more. *)
DeadExplained(t) ==
  tokens[t].family # Nothing /\ ~tokens[t].live =>
    \/ t \in forgotten \/ tokens[t].family \in ended
    \/ grace[t] # Nothing \/ InTheGap(t)

Remembers(r) == Is(r, {"refresh"}, "remember")

Reused ==
  /\ \A b \in Browsers : Exists(cookie[b])
  /\ \A t \in Ids : Exists(grace[t]) /\ DeadExplained(t)
  /\ \A r \in Requests : Exists(req[r].pair) /\ (Remembers(r) => Exists(r))

LEMMA ReusedInit == Init => Reused
<1> SUFFICES ASSUME Init PROVE Reused
  OBVIOUS
<1> USE SessionAssumption DEF Ids, NoToken
<1>1. PICK b \in Beginnings :
        /\ tokens = [t \in Ids |-> IF t \in b.open THEN [family |-> t, live |-> TRUE]
                                   ELSE NoToken]
        /\ cookie = [c \in Browsers |-> IF c \in b.open THEN c ELSE Nothing]
  BY DEF Init
<1>2. \A t \in Ids : grace[t] = Nothing
  BY DEF Init
<1>3. \A r \in Requests : req[r].pc = "start" /\ req[r].pair = Nothing
  BY DEF Init
<1> QED
  BY <1>1, <1>2, <1>3 DEF Reused, Exists, DeadExplained, Remembers, Is

(* The other requests keep their places, and so does r, unless it is       *)
(* between revoking a token and remembering the new pair.                  *)
Others(r) ==
  /\ \A q \in Requests \ {r} : /\ req'[q].pc = req[q].pc /\ req'[q].op = req[q].op
                               /\ req'[q].token = req[q].token /\ req'[q].pair = req[q].pair
  /\ req'[r].op = req[r].op

(* A step of r that revokes only whole families, and saves no token. *)
Tame(r) ==
  /\ Others(r) /\ UNCHANGED <<grace, forgotten>> /\ ended \subseteq ended'
  /\ req[r].pc \notin {"save", "remember"} /\ req'[r].pc # "remember"
  /\ Exists(req'[r].pair)
  /\ \A b \in Browsers : Exists(cookie'[b])
  /\ \A t \in Ids : /\ tokens'[t].family = tokens[t].family
                    /\ tokens'[t].live = tokens[t].live \/ tokens[t].family \in ended'

LEMMA TameKeeps ==
  ASSUME Reused, NEW r \in Requests, Tame(r)
  PROVE  Reused'
<1> USE DEF Tame, Others
<1>1. \A t : Exists(t) => Exists(t)'
  BY DEF Exists
<1>2. \A b \in Browsers : Exists(cookie[b])'
  BY DEF Exists
<1>3. ASSUME NEW t \in Ids PROVE Exists(grace[t])' /\ DeadExplained(t)'
  <2>1. InTheGap(t) => InTheGap(t)'
    BY DEF InTheGap
  <2>2. Exists(grace[t]) /\ DeadExplained(t)
    BY DEF Reused
  <2> QED
    BY <2>1, <2>2 DEF DeadExplained, Exists
<1>4. ASSUME NEW q \in Requests
      PROVE  Exists(req[q].pair)' /\ (Remembers(q)' => Exists(q)')
  <2>1. Exists(req[q].pair) /\ (Remembers(q) => Exists(q))
    BY DEF Reused
  <2>2. CASE q = r
    BY <2>2 DEF Remembers, Is, Exists
  <2>3. CASE q # r
    BY <1>1, <2>1, <2>3 DEF Remembers, Is, Op, Exists
  <2> QED
    BY <2>2, <2>3
<1> QED
  BY <1>2, <1>3, <1>4 DEF Reused

(* The steps that find, look, write the account or a one-time token, or    *)
(* end.                                                                    *)
LEMMA TameSteps ==
  ASSUME SessionsConsistent, Reused, NEW r \in Requests,
         \/ Login(r) \/ Reactivate(r) \/ ReactivateClear(r) \/ IssueInvalidate(r)
         \/ IssueSave(r) \/ TotpPeek(r) \/ TotpCode(r) \/ ConsumeFind(r) \/ ConsumeMark(r)
         \/ RefreshFind(r) \/ RefreshUser(r) \/ Deliver(r)
         \/ LogoutEmpty(r) \/ RevokeFails(r) \/ ForgetCookie(r) \/ ForgotPassword(r) \/ Administering(r)
  PROVE  Tame(r)
<1> USE DEF Tame, Others, Is, Op, Fields, store, history, memory, Keep, Finish, Goto, Refuse
<1>0. /\ Shape /\ Exists(req[r].pair) /\ Exists(Nothing)
      /\ \A b \in Browsers : Exists(cookie[b])
  BY DEF SessionsConsistent, Reused, Exists
<1>1. CASE Login(r) \/ Reactivate(r) \/ TotpPeek(r) \/ TotpCode(r)
           \/ LogoutEmpty(r) \/ RevokeFails(r) \/ ForgotPassword(r) \/ RefreshUser(r) \/ ConsumeFind(r)
  BY <1>0, <1>1 DEF Login, Reactivate, TotpPeek, TotpCode, LogoutEmpty, RevokeFails, ForgotPassword,
                    RefreshUser, ConsumeFind, Shape
<1>2. CASE ReactivateClear(r)
  BY <1>0, <1>2 DEF ReactivateClear, Update, Shape
<1>3. CASE IssueInvalidate(r) \/ IssueSave(r)
  BY <1>0, <1>3 DEF IssueInvalidate, IssueSave, Shape
<1>4. CASE ConsumeMark(r)
  BY <1>0, <1>4 DEF ConsumeMark, Mark, Shape
<1>5. CASE RefreshFind(r)
  <2> DEFINE t == cookie[Op(r).by]
  <2>1. CASE t = Nothing
    BY <1>0, <1>5, <2>1 DEF RefreshFind, Shape
  <2>2. CASE t # Nothing
    <3>1. t \in Ids /\ Exists(grace[t])
      BY <1>0, <2>2 DEF Shape, Reused
    <3>2. CASE tokens[t].live
      BY <1>0, <1>5, <2>2, <3>2 DEF RefreshFind, Shape
    <3>3. CASE ~tokens[t].live
      <4> DEFINE place == IF grace[t] # Nothing THEN "reply" ELSE "abuse"
      <4>1. /\ req[r].pc = "start" /\ Keep
            /\ req' = [req EXCEPT ![r].token = t, ![r].pc = place, ![r].pair = grace[t]]
        BY <1>5, <2>2, <3>3 DEF RefreshFind
      <4>2. place \in {"reply", "abuse"}
        OBVIOUS
      <4> HIDE DEF place, t
      <4> QED
        BY <1>0, <3>1, <4>1, <4>2 DEF Shape
    <3> QED
      BY <3>2, <3>3
  <2> QED
    BY <2>1, <2>2
<1>6. CASE Deliver(r)
  BY <1>0, <1>6 DEF Deliver, Shape
<1>7. CASE ForgetCookie(r)
  BY <1>0, <1>7 DEF ForgetCookie, Forget, Shape
<1>8. CASE ChangePassword(r) \/ RequestSelfDeletion(r) \/ CancelSelfDeletion(r)
           \/ BanUser(r) \/ UnbanUser(r)
  BY <1>0, <1>8 DEF ChangePassword, RequestSelfDeletion, CancelSelfDeletion, BanUser,
                    UnbanUser, Check, Shape
<1>9. CASE ChangeUpdate(r) \/ ResetUpdate(r) \/ CloseUpdate(r) \/ CancelUpdate(r)
           \/ BanUpdate(r) \/ UnbanUpdate(r)
  <2>1. PICK kind \in {"change", "reset", "close", "cancel", "ban", "unban"} :
          \E fields, place : Write(r, kind, fields, place) /\ place \in {"revokeAll", "done"}
    BY <1>9 DEF ChangeUpdate, ResetUpdate, CloseUpdate, CancelUpdate, BanUpdate, UnbanUpdate
  <2> QED
    BY <1>0, <2>1 DEF Write, Update, Shape
<1> QED
  BY <1>1, <1>2, <1>3, <1>4, <1>5, <1>6, <1>7, <1>8, <1>9 DEF Administering

(* What ends families: the tokens it revokes are of ended families. *)
LEMMA TameEnd ==
  ASSUME SessionsConsistent, Reused, NEW r \in Requests, NEW families, NEW pc, NEW answer,
         FinishEnding(r, families, pc, answer), pc \in {"done", "forget", "event"},
         req[r].pc \notin {"save", "remember"}
  PROVE  Tame(r)
<1>1. UNCHANGED <<cookie, grace, forgotten>> /\ ended' = ended \cup families
  BY DEF FinishEnding, End, memory
<1>2. \A t \in Ids : /\ tokens'[t].family = tokens[t].family
                     /\ tokens'[t].live = tokens[t].live \/ tokens[t].family \in families
  <2>1. \A t \in Ids : tokens'[t] = IF tokens[t].family \in families
                                    THEN [tokens[t] EXCEPT !.live = FALSE] ELSE tokens[t]
    BY DEF FinishEnding, End
  <2>2. \A t \in Ids : tokens[t] \in [family: Ids \cup {Nothing}, live: BOOLEAN]
    BY DEF SessionsConsistent, Shape
  <2> QED
    BY <2>1, <2>2
<1>3. /\ req'[r].pc = pc
      /\ \A q \in Requests : /\ req'[q].op = req[q].op /\ req'[q].token = req[q].token
                             /\ req'[q].pair = req[q].pair
                             /\ q # r => req'[q].pc = req[q].pc
  <2>1. req' = [Overtake(families) EXCEPT ![r].pc = pc, ![r].answer = answer]
    BY DEF FinishEnding
  <2>2. DOMAIN req = Requests /\ \A q \in Requests : DOMAIN req[q] = Fields
    BY DEF SessionsConsistent, Shape
  <2>3. /\ DOMAIN Overtake(families) = Requests
        /\ \A q \in Requests :
             Overtake(families)[q] \in {req[q], [req[q] EXCEPT !.overtaken = TRUE]}
    BY DEF Overtake
  <2>4. \A q \in Requests :
          /\ DOMAIN Overtake(families)[q] = Fields
          /\ \A f \in Fields \ {"overtaken"} : Overtake(families)[q][f] = req[q][f]
    BY <2>2, <2>3 DEF Fields
  <2>5. /\ \A q \in Requests \ {r} : req'[q] = Overtake(families)[q]
        /\ req'[r] = [Overtake(families)[r] EXCEPT !.pc = pc, !.answer = answer]
    BY <2>1, <2>3
  <2>6. ASSUME NEW q \in Requests \ {r}
        PROVE  /\ req'[q].op = req[q].op /\ req'[q].token = req[q].token
               /\ req'[q].pair = req[q].pair /\ req'[q].pc = req[q].pc
    BY <2>4, <2>5 DEF Fields
  <2>7. /\ req'[r].op = req[r].op /\ req'[r].token = req[r].token
        /\ req'[r].pair = req[r].pair /\ req'[r].pc = pc
    BY <2>4, <2>5 DEF Fields
  <2> QED
    BY <2>6, <2>7
<1>4. Exists(req[r].pair) /\ \A b \in Browsers : Exists(cookie[b])
  BY DEF Reused
<1> QED
  BY <1>1, <1>2, <1>3, <1>4 DEF Tame, Others

LEMMA TameEnds ==
  ASSUME SessionsConsistent, Reused, NEW r \in Requests,
         RefreshAbused(r) \/ Logout(r) \/ LogoutAll(r) \/ RevokeAll(r) \/ ResetEvent(r)
  PROVE  Tame(r)
<1> USE DEF Is
<1>1. CASE RefreshAbused(r)
  BY <1>1, TameEnd DEF RefreshAbused
<1>2. CASE Logout(r)
  BY <1>2, TameEnd DEF Logout
<1>3. CASE LogoutAll(r) \/ RevokeAll(r) \/ ResetEvent(r)
  BY <1>3, TameEnd DEF LogoutAll, RevokeAll, ResetEvent
<1> QED
  BY <1>1, <1>2, <1>3

(* A token is saved, its name being new, by a step of r. *)
LEMMA SaveReused ==
  ASSUME SessionsConsistent, Reused, NEW r \in Requests, NewSession(r) \/ RefreshSave(r)
  PROVE  Reused'
<1> USE DEF Ids
<1>1. PICK f \in Ids : tokens' = [tokens EXCEPT ![r] = [family |-> f, live |-> TRUE]]
  <2>1. RefreshSave(r) => tokens[req[r].token].family \in Ids
    BY DEF RefreshSave, Saves, SessionsConsistent, Shape, Carried, Is
  <2> QED
    BY <2>1 DEF NewSession, RefreshSave
<1>2. tokens'[r].family # Nothing /\ tokens'[r].live /\ \A t \in Ids \ {r} : tokens'[t] = tokens[t]
  BY <1>1, SessionAssumption DEF SessionsConsistent, Shape
<1>3. \A t : Exists(t) => Exists(t)'
  BY <1>2 DEF Exists
<1>4. UNCHANGED <<grace, cookie, forgotten, ended>>
  BY DEF NewSession, RefreshSave, memory, history
<1>5. /\ Others(r) /\ req'[r].pair \in {req[r].pair, r}
      /\ req[r].pc \in {"save", "remember"} =>
           req'[r].pc \in {"save", "remember"} /\ req'[r].token = req[r].token
  BY DEF NewSession, RefreshSave, Reply, Goto, SessionsConsistent, Shape, Others, Is, Op, Fields
<1>6. ASSUME NEW t \in Ids PROVE Exists(grace[t])' /\ DeadExplained(t)'
  <2>1. InTheGap(t) => InTheGap(t)'
    BY <1>5 DEF InTheGap, Others
  <2>2. Exists(grace[t]) /\ DeadExplained(t)
    BY DEF Reused
  <2>3. Exists(grace[t])'
    BY <1>3, <1>4, <2>2
  <2> QED
    BY <1>2, <1>4, <2>1, <2>2, <2>3 DEF DeadExplained
<1>7. \A b \in Browsers : Exists(cookie[b])'
  BY <1>3, <1>4 DEF Reused
<1>8. ASSUME NEW q \in Requests
      PROVE  Exists(req[q].pair)' /\ (Remembers(q)' => Exists(q)')
  <2>1. Exists(r)'
    BY <1>2 DEF Exists
  <2>2. CASE q = r
    BY <1>3, <1>5, <2>1, <2>2 DEF Reused, Exists
  <2>3. CASE q # r
    BY <1>3, <1>5, <2>3 DEF Reused, Others, Remembers, Is, Op, Exists
  <2> QED
    BY <2>2, <2>3
<1> QED
  BY <1>6, <1>7, <1>8 DEF Reused

(* The token that is revoked is in the gap until its successor is          *)
(* remembered, and has a grace period from then on.                        *)
LEMMA RevokeReused ==
  ASSUME SessionsConsistent, Reused, NEW r \in Requests, RefreshRevoke(r)
  PROVE  Reused'
<1> DEFINE t == req[r].token
<1>1. /\ Others(r) /\ UNCHANGED <<grace, cookie, forgotten, ended>>
      /\ req[r].pc = "revoke" /\ req'[r].pc = "save" /\ req'[r].token = t
      /\ req'[r].pair = req[r].pair
  BY DEF RefreshRevoke, SessionsConsistent, Shape, Others, Is, Op, Fields, memory, history
<1>2. \A u \in Ids : /\ tokens'[u].family = tokens[u].family
                     /\ u # t => tokens'[u].live = tokens[u].live
  BY DEF RefreshRevoke, SessionsConsistent, Shape
<1>3. \A u : Exists(u) => Exists(u)'
  BY <1>2 DEF Exists
<1>4. ASSUME NEW u \in Ids PROVE Exists(grace[u])' /\ DeadExplained(u)'
  <2>1. u = t => InTheGap(u)'
    BY <1>1 DEF InTheGap
  <2>2. InTheGap(u) => InTheGap(u)'
    BY <1>1 DEF InTheGap, Others
  <2>3. Exists(grace[u]) /\ DeadExplained(u)
    BY DEF Reused
  <2>4. Exists(grace[u])'
    BY <1>1, <1>3, <2>3
  <2> HIDE DEF t
  <2> QED
    BY <1>1, <1>2, <2>1, <2>2, <2>3, <2>4 DEF DeadExplained
<1>5. \A b \in Browsers : Exists(cookie[b])'
  BY <1>1, <1>3 DEF Reused
<1>6. ASSUME NEW q \in Requests
      PROVE  Exists(req[q].pair)' /\ (Remembers(q)' => Exists(q)')
  BY <1>1, <1>3 DEF Reused, Others, Remembers, Is, Op, Exists
<1> QED
  BY <1>4, <1>5, <1>6 DEF Reused

LEMMA RememberReused ==
  ASSUME SessionsConsistent, Reused, NEW r \in Requests, RefreshRemember(r)
  PROVE  Reused'
<1> DEFINE t == req[r].token
<1>1. /\ Others(r) /\ UNCHANGED <<tokens, cookie, ended>> /\ forgotten' = forgotten \ {t}
      /\ req'[r].pair = r /\ req'[r].pc = "reply" /\ req'[r].token = t
  BY DEF RefreshRemember, Reply, SessionsConsistent, Shape, Others, Is, Op, Fields, store
<1>2. \A u \in Ids : grace'[u] = IF u = t THEN r ELSE grace[u]
  BY DEF RefreshRemember, SessionsConsistent, Shape
<1>3. \A u : Exists(u) => Exists(u)'
  BY <1>1 DEF Exists
<1>4. Exists(r) /\ r # Nothing
  BY SessionAssumption DEF RefreshRemember, Remembers, Reused, Ids
<1> HIDE DEF t
<1>5. ASSUME NEW u \in Ids PROVE Exists(grace[u])' /\ DeadExplained(u)'
  <2>1. Exists(grace[u]) /\ DeadExplained(u)
    BY DEF Reused
  <2>2. Exists(grace[u])'
    BY <1>2, <1>3, <1>4, <2>1
  <2>3. CASE u = t
    BY <1>2, <1>4, <2>2, <2>3 DEF DeadExplained
  <2>4. CASE u # t
    <3>1. InTheGap(u) => InTheGap(u)'
      BY <1>1, <2>4 DEF InTheGap, Others, t
    <3> QED
      BY <1>1, <1>2, <2>1, <2>2, <2>4, <3>1 DEF DeadExplained
  <2> QED
    BY <2>3, <2>4
<1>6. \A b \in Browsers : Exists(cookie[b])'
  BY <1>1, <1>3 DEF Reused
<1>7. ASSUME NEW q \in Requests
      PROVE  Exists(req[q].pair)' /\ (Remembers(q)' => Exists(q)')
  BY <1>1, <1>3, <1>4 DEF Reused, Others, Remembers, Is, Op, Exists
<1> QED
  BY <1>5, <1>6, <1>7 DEF Reused

LEMMA GraceReused ==
  ASSUME SessionsConsistent, Reused, NEW t \in Ids, GraceOver(t)
  PROVE  Reused'
<1>1. /\ UNCHANGED <<tokens, cookie, req, ended>> /\ forgotten' = forgotten \cup {t}
      /\ \A u \in Ids : grace'[u] = IF u = t THEN Nothing ELSE grace[u]
  BY DEF GraceOver, store, SessionsConsistent, Shape
<1> QED
  BY <1>1 DEF Reused, Exists, DeadExplained, InTheGap, Remembers, Is, Op

LEMMA RestartReused ==
  ASSUME SessionsConsistent, Reused, Restart
  PROVE  Reused'
<1>1. /\ UNCHANGED <<tokens, cookie, ended>> /\ \A u \in Ids : grace'[u] = Nothing
      /\ forgotten' = {t \in Ids : tokens[t].family # Nothing /\ ~tokens[t].live}
  BY DEF Restart, store
<1>2. \A q \in Requests : req'[q].pair = req[q].pair /\ req'[q].pc \in {"start", "done"}
  BY DEF Restart, SessionsConsistent, Shape, Fields
<1> QED
  BY <1>1, <1>2 DEF Reused, Exists, DeadExplained, Remembers, Is

LEMMA ReusedNext == SessionsConsistent /\ Reused /\ [Next]_vars => Reused'
<1> SUFFICES ASSUME SessionsConsistent, Reused, [Next]_vars PROVE Reused'
  OBVIOUS
<1>1. CASE UNCHANGED vars
  BY <1>1 DEF vars, store, memory, history, Reused, Exists, DeadExplained, InTheGap,
              Remembers, Is, Op
<1>2. ASSUME NEW r \in Requests, Beginning(r) PROVE Reused'
  BY <1>2, TameSteps, TameKeeps, SaveReused DEF Beginning
<1>3. ASSUME NEW r \in Requests, Refreshing(r) PROVE Reused'
  BY <1>3, TameSteps, TameEnds, TameKeeps, SaveReused, RevokeReused, RememberReused
     DEF Refreshing
<1>4. ASSUME NEW r \in Requests, Ending(r) PROVE Reused'
  BY <1>4, TameSteps, TameEnds, TameKeeps DEF Ending
<1>5. ASSUME NEW r \in Requests, Administering(r) PROVE Reused'
  BY <1>5, TameSteps, TameKeeps
<1>6. CASE (\E t \in Ids : GraceOver(t)) \/ Restart
  BY <1>6, GraceReused, RestartReused
<1> QED
  BY <1>1, <1>2, <1>3, <1>4, <1>5, <1>6 DEF Next

(* The step that finds a token reused is RefreshFind of that request. *)
LEMMA AbuseStep ==
  ASSUME SessionsConsistent, Reused, [Next]_vars, NEW r \in Requests,
         Is(r, {"refresh"}, "start"), req'[r].pc = "abuse"
  PROVE  LET t == req'[r].token IN
         t \in forgotten \/ tokens[t].family \in ended \/ InTheGap(t)
<1>1. RefreshFind(r)
  <2>1. req'[r].pc # req[r].pc
    BY DEF Is
  <2>2. req' # req
    BY <2>1
  <2>3. ASSUME NEW q \in Requests, Beginning(q) \/ Refreshing(q) \/ Ending(q) \/ Administering(q)
        PROVE  q = r
    <3>1. Others(q)
      <4>1. CASE NewSession(q) \/ RefreshSave(q) \/ RefreshRevoke(q) \/ RefreshRemember(q)
        BY <4>1 DEF NewSession, RefreshSave, RefreshRevoke, RefreshRemember, Reply, Goto,
                    SessionsConsistent, Shape, Others, Is, Op, Fields
      <4>2. CASE ~(NewSession(q) \/ RefreshSave(q) \/ RefreshRevoke(q) \/ RefreshRemember(q))
        <5>1. Tame(q)
          BY <2>3, <4>2, TameSteps, TameEnds DEF Beginning, Refreshing, Ending
        <5> QED
          BY <5>1 DEF Tame
      <4> QED
        BY <4>1, <4>2
    <3> QED
      BY <2>1, <3>1 DEF Others
  <2>4. ASSUME NEW t \in Ids, GraceOver(t) PROVE FALSE
    BY <2>2, <2>4 DEF GraceOver
  <2>5. ~Restart
    <3>1. Restart => req'[r].pc \in {"start", "done"}
      <4>1. DOMAIN req[r] = Fields
        BY DEF SessionsConsistent, Shape
      <4>2. Restart => req'[r] = IF req[r].pc \in {"start", "done"} THEN req[r]
              ELSE [req[r] EXCEPT !.pc = "done", !.answer = "crashed", !.overtaken = FALSE]
        BY DEF Restart
      <4> QED
        BY <4>1, <4>2 DEF Fields
    <3> QED
      BY <3>1
  <2>6. UNCHANGED vars => FALSE
    BY <2>2 DEF vars
  <2>7. Beginning(r) \/ Refreshing(r) \/ Ending(r) \/ Administering(r)
    BY <2>3, <2>4, <2>5, <2>6 DEF Next
  <2>8. ~(Beginning(r) \/ Ending(r) \/ Administering(r))
    <3>1. DOMAIN req = Requests /\ DOMAIN req[r] = Fields /\ Op(r).kind = "refresh" /\ req[r].pc = "start"
      BY DEF SessionsConsistent, Shape, Is
    <3>2. ~Beginning(r)
      BY <3>1 DEF Beginning, Login, Reactivate, ReactivateClear, IssueInvalidate, IssueSave,
                  TotpPeek, TotpCode, ConsumeFind, ConsumeMark, Mark, NewSession, Is
    <3>3. ~Ending(r)
      BY <3>1 DEF Ending, Logout, LogoutEmpty, RevokeFails, LogoutAll, ForgetCookie, ForgotPassword,
                  RevokeAll, ResetEvent, Is
    <3>4. ~Administering(r)
      BY <3>1 DEF Administering, ChangePassword, RequestSelfDeletion, CancelSelfDeletion,
                  BanUser, UnbanUser, Check, ChangeUpdate, ResetUpdate, CloseUpdate,
                  CancelUpdate, BanUpdate, UnbanUpdate, Write, Is
    <3> QED
      BY <3>2, <3>3, <3>4
  <2> QED
    BY <2>7, <2>8 DEF Refreshing, RefreshAbused, RefreshUser, RefreshRevoke, RefreshSave,
                      RefreshRemember, Deliver, Is
<1> DEFINE t == cookie[Op(r).by]
<1>2. /\ t # Nothing /\ ~tokens[t].live /\ grace[t] = Nothing /\ req'[r].token = t
  BY <1>1 DEF RefreshFind, Refuse, Finish, SessionsConsistent, Shape, Fields, Is, Op
<1>3. t \in Ids /\ tokens[t].family # Nothing /\ DeadExplained(t)
  BY <1>2 DEF SessionsConsistent, Shape, Reused, Exists
<1> HIDE DEF t
<1> QED
  BY <1>2, <1>3 DEF DeadExplained

-----------------------------------------------------------------------------
(***************************************************************************)
(* Types.  That only families are ended, and only ended ones escaped, also *)
(* needs to know what a request on its way holds.                          *)
(***************************************************************************)
Local == [op: Operation, pc: PCs, token: Ids \cup {Nothing},
          pair: Ids \cup {Nothing}, redeemed: Ids \cup {Nothing},
          alongside: SUBSET Requests, overtaken: BOOLEAN,
          answer: {"none", "ok", "refused", "issued", "abused", "crashed"}]

(* A refresh is overtaken by the end of the family of its token; the token *)
(* of one that is about to end a family has a family.                      *)
Tracked(q) ==
  /\ req[q].overtaken => /\ Op(q).kind = "refresh" /\ req[q].pc \in Rotating
                         /\ req[q].token \in Ids
                         /\ tokens[req[q].token].family \in ended
  /\ Is(q, {"refresh"}, "abuse") => /\ req[q].token \in Ids
                                    /\ tokens[req[q].token].family # Nothing

Typed ==
  /\ account \in Account /\ req \in [Requests -> Local] /\ restarts \in 0..MaxRestarts
  /\ forgotten \subseteq Ids /\ ended \subseteq Ids /\ escaped \subseteq ended
  /\ \A q \in Requests : Tracked(q)

LEMMA TypedInit == Init => Typed
<1> SUFFICES ASSUME Init PROVE Typed
  OBVIOUS
<1>1. PICK b \in Beginnings : account = b.account
  BY DEF Init
<1>2. account \in Account
  BY <1>1, SessionAssumption
<1>3. PICK plan \in Plans :
        req = [r \in Requests |->
                [op |-> plan[r], pc |-> "start", token |-> Nothing, pair |-> Nothing,
                 redeemed |-> Nothing, alongside |-> {}, overtaken |-> FALSE,
                 answer |-> "none"]]
  BY DEF Init
<1>4. \A r \in Requests : plan[r] \in Operation
  BY SessionAssumption
<1>5. req \in [Requests -> Local]
  BY <1>3, <1>4 DEF Local, PCs
<1>6. \A q \in Requests : Tracked(q)
  BY <1>3 DEF Tracked, Is
<1>7. restarts \in 0..MaxRestarts /\ forgotten = {} /\ ended = {} /\ escaped = {}
  BY SessionAssumption DEF Init
<1> QED
  BY <1>2, <1>5, <1>6, <1>7 DEF Typed

(* One record of req is replaced by one of the type. *)
LEMMA LocalStep ==
  ASSUME Typed, NEW r \in Requests, NEW record \in Local, req' = [req EXCEPT ![r] = record]
  PROVE  req' \in [Requests -> Local]
BY DEF Typed

LEMMA GotoTyped ==
  ASSUME Typed, NEW r \in Requests, NEW place \in PCs, Goto(r, place)
  PROVE  req' \in [Requests -> Local]
<1>1. req[r] \in Local
  BY DEF Typed
<1>2. [req[r] EXCEPT !.pc = place] \in Local
  BY <1>1 DEF Local
<1> QED
  BY <1>2 DEF Typed, Goto

LEMMA FinishTyped ==
  ASSUME Typed, NEW r \in Requests, NEW answer \in {"ok", "refused", "issued"},
         Finish(r, answer)
  PROVE  req' \in [Requests -> Local]
<1>1. req[r] \in Local
  BY DEF Typed
<1>2. [req[r] EXCEPT !.pc = "done", !.answer = answer, !.overtaken = FALSE] \in Local
  BY <1>1 DEF Local, PCs
<1> QED
  BY <1>2 DEF Typed, Finish

LEMMA ReplyTyped ==
  ASSUME Typed, NEW r \in Requests, NEW t \in Ids \cup {Nothing}, Reply(r, t)
  PROVE  req' \in [Requests -> Local]
<1>1. req[r] \in Local
  BY DEF Typed
<1>2. [req[r] EXCEPT !.pc = "reply", !.pair = t, !.overtaken = FALSE] \in Local
  BY <1>1 DEF Local, PCs
<1> QED
  BY <1>2 DEF Typed, Reply

(* The steps of r that end no family and put no token into one; what a     *)
(* refresh holds, it held before.                                          *)
Modest(r) ==
  /\ \A q \in Requests \ {r} : req'[q] = req[q]
  /\ req'[r].op = req[r].op
  /\ req'[r].overtaken =>
       /\ req[r].overtaken /\ req'[r].token = req[r].token /\ req'[r].pc \in Rotating
  /\ Is(r, {"refresh"}, "abuse")' => /\ req'[r].token \in Ids
                                     /\ tokens[req'[r].token].family # Nothing
  /\ \A t \in Ids : tokens[t].family # Nothing => tokens'[t].family = tokens[t].family
  /\ UNCHANGED <<ended, escaped>> /\ UNCHANGED restarts

LEMMA ModestKeeps ==
  ASSUME Typed, NEW r \in Requests, Modest(r),
         account' \in Account, req' \in [Requests -> Local], forgotten' \subseteq Ids
  PROVE  Typed'
<1>1. ASSUME NEW q \in Requests PROVE Tracked(q)'
  <2>1. Tracked(q) /\ Nothing \notin ended
    BY SessionAssumption DEF Typed
  <2>2. CASE q = r
    BY <2>1, <2>2 DEF Modest, Tracked, Is, Op
  <2>3. CASE q # r
    BY <2>1, <2>3 DEF Modest, Tracked, Is, Op
  <2> QED
    BY <2>2, <2>3
<1> QED
  BY <1>1 DEF Typed, Modest

-----------------------------------------------------------------------------
(* Steps that leave the account alone and send no token anywhere.          *)
LEMMA PlainTyped ==
  ASSUME SessionsConsistent, Reused, Typed, NEW r \in Requests,
         \/ Login(r) \/ Reactivate(r) \/ TotpPeek(r) \/ TotpCode(r)
         \/ IssueInvalidate(r) \/ IssueSave(r) \/ NewSession(r) \/ Deliver(r)
         \/ RefreshUser(r) \/ RefreshRemember(r)
         \/ LogoutEmpty(r) \/ RevokeFails(r) \/ ForgetCookie(r) \/ ForgotPassword(r)
         \/ ChangePassword(r) \/ RequestSelfDeletion(r) \/ CancelSelfDeletion(r)
         \/ BanUser(r) \/ UnbanUser(r)
  PROVE  Typed'
<1> DEFINE Answers == {"ok", "refused", "issued"}
<1>1. \/ \E place \in PCs \ {"abuse"} : /\ Goto(r, place)
                                        /\ req[r].pc \notin Rotating \/ place \in Rotating
      \/ \E answer \in Answers : Finish(r, answer)
      \/ \E t \in Ids : Reply(r, t)
  BY DEF Login, Reactivate, TotpPeek, TotpCode, IssueInvalidate, IssueSave, NewSession,
         Deliver, RefreshUser, RefreshRemember, LogoutEmpty, RevokeFails, ForgetCookie, ForgotPassword,
         ChangePassword, RequestSelfDeletion, CancelSelfDeletion, BanUser, UnbanUser, Check,
         Refuse, PCs, Rotating, Is, Ids
<1>2. req' \in [Requests -> Local]
  BY <1>1, GotoTyped, FinishTyped, ReplyTyped
<1>3. account' \in Account /\ UNCHANGED <<ended, escaped, restarts>> /\ forgotten' \subseteq Ids
  BY DEF Typed, Login, Reactivate, TotpPeek, TotpCode, IssueInvalidate, IssueSave, NewSession,
         Deliver, RefreshUser, RefreshRemember, LogoutEmpty, RevokeFails, ForgetCookie, ForgotPassword,
         ChangePassword, RequestSelfDeletion, CancelSelfDeletion, BanUser, UnbanUser, Check,
         Refuse, Keep, store, memory, history
<1>4. \A t \in Ids : tokens[t].family # Nothing => tokens'[t].family = tokens[t].family
  <2>1. CASE NewSession(r)
    <3>1. tokens[r].family = Nothing
      BY <2>1 DEF NewSession, Is, SessionsConsistent, Named, Past
    <3> QED
      BY <2>1, <3>1 DEF NewSession, SessionsConsistent, Shape
  <2>2. CASE ~NewSession(r)
    BY <2>2 DEF Login, Reactivate, TotpPeek, TotpCode, IssueInvalidate, IssueSave,
         Deliver, RefreshUser, RefreshRemember, LogoutEmpty, RevokeFails, ForgetCookie, ForgotPassword,
         ChangePassword, RequestSelfDeletion, CancelSelfDeletion, BanUser, UnbanUser, Check,
         Refuse, Keep, store
  <2> QED
    BY <2>1, <2>2
<1>5. DOMAIN req = Requests /\ DOMAIN req[r] = Fields /\ Tracked(r)
  BY DEF SessionsConsistent, Shape, Typed
<1>6. /\ \A q \in Requests \ {r} : req'[q] = req[q]
      /\ req'[r].op = req[r].op
      /\ req'[r].overtaken =>
           req[r].overtaken /\ req'[r].token = req[r].token /\ req'[r].pc \in Rotating
      /\ req'[r].pc # "abuse"
  <2>1. CASE \E place \in PCs \ {"abuse"} : /\ Goto(r, place)
                                            /\ req[r].pc \notin Rotating \/ place \in Rotating
    BY <1>5, <2>1 DEF Goto, Fields, Tracked
  <2>2. CASE \E answer \in Answers : Finish(r, answer)
    BY <1>5, <2>2 DEF Finish, Fields
  <2>3. CASE \E t \in Ids : Reply(r, t)
    BY <1>5, <2>3 DEF Reply, Fields
  <2> QED
    BY <1>1, <2>1, <2>2, <2>3
<1>7. Modest(r)
  BY <1>3, <1>4, <1>6 DEF Modest, Is
<1> QED
  BY <1>2, <1>3, <1>7, ModestKeeps

(* An account that is written keeps its type: what is undefined is not     *)
(* written at all.                                                         *)
LEMMA UpdateTyped ==
  ASSUME account \in Account, NEW fields, Update(fields),
         fields.password \in {Nothing} \cup (0..1),
         fields.totp \in {Nothing} \cup BOOLEAN, fields.pending \in {Nothing} \cup BOOLEAN,
         fields.banned \in {Nothing} \cup BOOLEAN
  PROVE  account' \in Account
<1>1. account' = [f \in DOMAIN account |->
                    IF fields[f] = Nothing THEN account[f] ELSE fields[f]]
  BY DEF Update
<1>2. DOMAIN account = {"password", "totp", "pending", "banned"}
  BY DEF Account
<1>3. /\ account.password \in 0..1 /\ account.totp \in BOOLEAN
      /\ account.pending \in BOOLEAN /\ account.banned \in BOOLEAN
  BY DEF Account
<1>4. account'.password \in 0..1
  BY <1>1, <1>2, <1>3
<1>5. account'.totp \in BOOLEAN
  BY <1>1, <1>2, <1>3
<1>6. account'.pending \in BOOLEAN
  BY <1>1, <1>2, <1>3
<1>7. account'.banned \in BOOLEAN
  BY <1>1, <1>2, <1>3
<1>8. account' = [password |-> account'.password, totp |-> account'.totp,
                  pending |-> account'.pending, banned |-> account'.banned]
  BY <1>1, <1>2
<1> QED
  BY <1>4, <1>5, <1>6, <1>7, <1>8 DEF Account

LEMMA WriteTyped ==
  ASSUME SessionsConsistent, Typed, NEW r \in Requests,
         \/ ReactivateClear(r) \/ ChangeUpdate(r) \/ ResetUpdate(r) \/ CloseUpdate(r)
         \/ CancelUpdate(r) \/ BanUpdate(r) \/ UnbanUpdate(r)
  PROVE  Typed'
<1>1. account \in Account /\ Tracked(r) /\ DOMAIN req = Requests /\ DOMAIN req[r] = Fields
  BY DEF Typed, SessionsConsistent, Shape
<1> DEFINE Fit(fields) ==
      /\ fields.password \in {Nothing} \cup (0..1)
      /\ fields.totp \in {Nothing} \cup BOOLEAN /\ fields.pending \in {Nothing} \cup BOOLEAN
      /\ fields.banned \in {Nothing} \cup BOOLEAN
<1>0. /\ \A x \in {Nothing} \cup BOOLEAN : /\ Fit([account EXCEPT !.pending = x])
                                         /\ Fit([account EXCEPT !.banned = x])
                                         /\ Fit([NewPassword EXCEPT !.pending = x])
      /\ Fit(NewPassword)
  BY <1>1 DEF Account, NewPassword
<1> HIDE DEF Fit
<1>2. PICK fields : Update(fields) /\ Fit(fields) /\ req[r].pc \in {"clear", "update"}
  BY <1>0 DEF ReactivateClear, ChangeUpdate, ResetUpdate, CloseUpdate, CancelUpdate,
              BanUpdate, UnbanUpdate, Write, Is
<1>3. account' \in Account
  BY <1>1, <1>2, UpdateTyped DEF Fit
<1>4. Goto(r, "session") \/ Goto(r, "revokeAll") \/ Finish(r, "ok")
  BY DEF ReactivateClear, ChangeUpdate, ResetUpdate, CloseUpdate, CancelUpdate,
         BanUpdate, UnbanUpdate, Write
<1>5. req' \in [Requests -> Local]
  BY <1>4, GotoTyped, FinishTyped DEF PCs
<1>6. UNCHANGED <<tokens, ended, escaped, restarts, forgotten>>
  BY <1>2 DEF Update, memory, history
<1>7. /\ \A q \in Requests \ {r} : req'[q] = req[q]
      /\ req'[r].op = req[r].op /\ req'[r].pc # "abuse"
      /\ req'[r].overtaken => req[r].overtaken
  BY <1>1, <1>4 DEF Goto, Finish, Fields
<1>8. ~req[r].overtaken
  BY <1>1, <1>2 DEF Tracked, Rotating
<1>9. Modest(r)
  BY <1>6, <1>7, <1>8 DEF Modest, Is
<1> QED
  BY <1>3, <1>5, <1>6, <1>9, ModestKeeps DEF Typed

(* A one-time token is found, and marked. *)
LEMMA ConsumeTyped ==
  ASSUME SessionsConsistent, Typed, NEW r \in Requests, ConsumeFind(r) \/ ConsumeMark(r)
  PROVE  Typed'
<1>1. /\ req[r] \in Local /\ Tracked(r) /\ Op(r).of \in Requests
      /\ DOMAIN req = Requests /\ DOMAIN req[r] = Fields
  BY DEF Typed, SessionsConsistent, Shape, Carried
<1>2. UNCHANGED <<account, tokens, ended, escaped, restarts, forgotten>>
  BY DEF ConsumeFind, ConsumeMark, Mark, Refuse, Keep, store, memory, history
<1>3. ~req[r].overtaken
  BY <1>1 DEF Tracked, Rotating, ConsumeFind, ConsumeMark, Mark, Is
<1>4. PICK record \in Local : /\ req' = [req EXCEPT ![r] = record]
                              /\ record.op = req[r].op /\ record.overtaken = FALSE
                              /\ record.pc # "abuse"
  <2>1. CASE Refuse(r)
    <3> DEFINE new == [req[r] EXCEPT !.pc = "done", !.answer = "refused", !.overtaken = FALSE]
    <3>1. new \in Local /\ new.op = req[r].op /\ new.overtaken = FALSE /\ new.pc # "abuse"
      BY <1>1 DEF Local, PCs
    <3>2. req' = [req EXCEPT ![r] = new]
      BY <2>1 DEF Refuse, Finish
    <3> HIDE DEF new
    <3> QED
      BY <3>1, <3>2
  <2>2. CASE ConsumeFind(r) /\ ~Refuse(r)
    <3> DEFINE new == [req[r] EXCEPT !.pc = "mark", !.token = Op(r).of]
    <3>1. new \in Local /\ new.op = req[r].op /\ new.overtaken = FALSE /\ new.pc # "abuse"
      BY <1>1, <1>3 DEF Local, PCs, Ids
    <3>2. req' = [req EXCEPT ![r] = new]
      BY <2>2 DEF ConsumeFind
    <3> HIDE DEF new
    <3> QED
      BY <3>1, <3>2
  <2>3. CASE ConsumeMark(r)
    <3> DEFINE place == IF Op(r).kind = "totp" THEN "session" ELSE "update"
               beside == Alongside(r, Op(r).of, {"mark"})
               new == [req[r] EXCEPT !.pc = place, !.redeemed = Op(r).of, !.alongside = beside]
    <3>1. place \in {"session", "update"} /\ beside \in SUBSET Requests
      BY DEF Alongside
    <3>2. req' = [req EXCEPT ![r] = new]
      BY <2>3 DEF ConsumeMark, Mark
    <3> HIDE DEF place, beside
    <3>3. new \in Local /\ new.op = req[r].op /\ new.overtaken = FALSE /\ new.pc # "abuse"
      BY <1>1, <1>3, <3>1 DEF Local, PCs, Ids
    <3> HIDE DEF new
    <3> QED
      BY <3>2, <3>3
  <2> QED
    BY <2>1, <2>2, <2>3
<1>5. req' \in [Requests -> Local]
  BY <1>4, LocalStep
<1>6. Modest(r)
  BY <1>1, <1>2, <1>4 DEF Modest, Is
<1> QED
  BY <1>2, <1>5, <1>6, ModestKeeps DEF Typed

(* A refresh finds a token, which was saved, and revokes it. *)
LEMMA FindTyped ==
  ASSUME SessionsConsistent, Reused, Typed, NEW r \in Requests, RefreshFind(r)
  PROVE  Typed'
<1> DEFINE t == cookie[Op(r).by]
<1>1. /\ req[r] \in Local /\ Tracked(r)
      /\ DOMAIN req = Requests /\ DOMAIN req[r] = Fields
      /\ t = Nothing \/ (t \in Ids /\ tokens[t].family # Nothing)
      /\ t # Nothing => grace[t] \in Ids \cup {Nothing}
  BY DEF Typed, SessionsConsistent, Shape, Reused, Exists
<1>2. /\ UNCHANGED <<account, tokens, ended, escaped, restarts, forgotten>>
      /\ req[r].pc = "start"
  BY DEF RefreshFind, Refuse, Keep, store, memory, history, Is
<1>3. ~req[r].overtaken
  BY <1>1, <1>2 DEF Tracked, Rotating
<1>4. PICK record \in Local : /\ req' = [req EXCEPT ![r] = record]
                              /\ record.op = req[r].op /\ record.overtaken = FALSE
                              /\ record.pc = "abuse" => t # Nothing /\ record.token = t
  <2>1. CASE t = Nothing
    <3> DEFINE new == [req[r] EXCEPT !.pc = "done", !.answer = "refused", !.overtaken = FALSE]
    <3>1. new \in Local /\ new.op = req[r].op /\ new.overtaken = FALSE /\ new.pc # "abuse"
      BY <1>1 DEF Local, PCs
    <3>2. req' = [req EXCEPT ![r] = new]
      BY <2>1 DEF RefreshFind, Refuse, Finish
    <3> HIDE DEF new
    <3> QED
      BY <3>1, <3>2
  <2>2. CASE t # Nothing /\ tokens[t].live
    <3> DEFINE new == [req[r] EXCEPT !.pc = "user", !.token = t]
    <3>1. req' = [req EXCEPT ![r] = new]
      BY <2>2 DEF RefreshFind
    <3> HIDE DEF t
    <3>2. new \in Local /\ new.op = req[r].op /\ new.overtaken = FALSE /\ new.pc # "abuse"
      BY <1>1, <1>3, <2>2 DEF Local, PCs
    <3> HIDE DEF new
    <3> QED
      BY <3>1, <3>2
  <2>3. CASE t # Nothing /\ ~tokens[t].live
    <3> DEFINE place == IF grace[t] # Nothing THEN "reply" ELSE "abuse"
               new == [req[r] EXCEPT !.token = t, !.pc = place, !.pair = grace[t]]
    <3>1. req' = [req EXCEPT ![r] = new]
      BY <2>3 DEF RefreshFind
    <3>2. place \in {"reply", "abuse"}
      OBVIOUS
    <3> HIDE DEF t, place
    <3>3. new \in Local /\ new.op = req[r].op /\ new.overtaken = FALSE /\ new.token = t
      BY <1>1, <1>3, <2>3, <3>2 DEF Local, PCs
    <3> HIDE DEF new
    <3> QED
      BY <2>3, <3>1, <3>3
  <2> QED
    BY <2>1, <2>2, <2>3
<1>5. req' \in [Requests -> Local]
  BY <1>4, LocalStep
<1>6. Modest(r)
  <2> HIDE DEF t
  <2> QED
    BY <1>1, <1>2, <1>4 DEF Modest, Is
<1> QED
  BY <1>2, <1>5, <1>6, ModestKeeps DEF Typed

LEMMA RevokeTyped ==
  ASSUME SessionsConsistent, Typed, NEW r \in Requests, RefreshRevoke(r)
  PROVE  Typed'
<1> DEFINE t == req[r].token
           beside == Alongside(r, t, {"user", "revoke"})
           new == [req[r] EXCEPT !.pc = "save", !.redeemed = t, !.alongside = beside]
<1>1. /\ req[r] \in Local /\ Tracked(r)
      /\ DOMAIN req = Requests /\ DOMAIN req[r] = Fields
      /\ tokens \in [Ids -> [family: Ids \cup {Nothing}, live: BOOLEAN]]
  BY DEF Typed, SessionsConsistent, Shape
<1>2. /\ UNCHANGED <<account, ended, escaped, restarts, forgotten>>
      /\ req' = [req EXCEPT ![r] = new]
      /\ tokens' = [tokens EXCEPT ![t].live = FALSE]
  BY DEF RefreshRevoke, memory, history
<1>3. beside \in SUBSET Requests
  BY DEF Alongside
<1> HIDE DEF beside
<1>4. /\ new \in Local /\ new.op = req[r].op /\ new.overtaken = req[r].overtaken
      /\ new.token = t /\ new.pc = "save"
  BY <1>1, <1>3 DEF Local, PCs
<1> HIDE DEF new
<1>5. req' \in [Requests -> Local]
  BY <1>2, <1>4, LocalStep
<1>6. \A u \in Ids : tokens'[u].family = tokens[u].family
  BY <1>1, <1>2
<1>7. Modest(r)
  BY <1>1, <1>2, <1>4, <1>6 DEF Modest, Is, Rotating
<1> QED
  BY <1>2, <1>5, <1>7, ModestKeeps DEF Typed

(* Only a refresh whose family has ended lets it escape. *)
LEMMA SaveTyped ==
  ASSUME SessionsConsistent, Typed, NEW r \in Requests, RefreshSave(r)
  PROVE  Typed'
<1> DEFINE f == tokens[req[r].token].family
<1>1. /\ DOMAIN req = Requests /\ DOMAIN req[r] = Fields /\ Tracked(r)
      /\ tokens \in [Ids -> [family: Ids \cup {Nothing}, live: BOOLEAN]]
      /\ req[r].token \in Ids /\ f # Nothing
  BY DEF Typed, SessionsConsistent, Shape, Carried, RefreshSave, Saves
<1>2. /\ Goto(r, "remember") /\ tokens' = [tokens EXCEPT ![r] = [family |-> f, live |-> TRUE]]
      /\ escaped' = IF req[r].overtaken THEN escaped \cup {f} ELSE escaped
      /\ UNCHANGED <<account, restarts, forgotten, ended>>
  BY DEF RefreshSave, memory
<1>3. req' \in [Requests -> Local]
  BY <1>2, GotoTyped DEF PCs
<1>4. tokens[r].family = Nothing
  BY DEF RefreshSave, Is, SessionsConsistent, Named, Past
<1>5. \A t \in Ids : tokens[t].family # Nothing => tokens'[t].family = tokens[t].family
  BY <1>1, <1>2, <1>4
<1>6. req[r].overtaken => f \in ended
  BY <1>1 DEF Tracked
<1>7. escaped' \subseteq ended'
  BY <1>2, <1>6 DEF Typed
<1>8. ASSUME NEW q \in Requests PROVE Tracked(q)'
  <2>1. Tracked(q) /\ Nothing \notin ended
    BY SessionAssumption DEF Typed
  <2>2. CASE q = r
    <3>1. /\ req'[r].op = req[r].op /\ req'[r].token = req[r].token
          /\ req'[r].overtaken = req[r].overtaken /\ req'[r].pc = "remember"
      BY <1>1, <1>2 DEF Goto, Fields
    <3> HIDE DEF f
    <3> QED
      BY <1>1, <1>2, <1>5, <2>1, <2>2, <3>1 DEF Tracked, Is, Op, Rotating
  <2>3. CASE q # r
    <3>1. req'[q] = req[q]
      BY <1>1, <1>2, <2>3 DEF Goto
    <3> HIDE DEF f
    <3> QED
      BY <1>2, <1>5, <2>1, <2>3, <3>1 DEF Tracked, Is, Op
  <2> QED
    BY <2>2, <2>3
<1> QED
  BY <1>2, <1>3, <1>7, <1>8 DEF Typed

(* The end of families: of families, and whoever was about to put a token  *)
(* into one knows.                                                         *)
LEMMA EndTyped ==
  ASSUME SessionsConsistent, Typed, NEW r \in Requests, NEW families, NEW place, NEW answer,
         families \subseteq {tokens[t].family : t \in Ids} \ {Nothing},
         FinishEnding(r, families, place, answer),
         place \in {"done", "forget", "event"}, answer \in {"none", "ok", "abused"},
         Op(r).kind # "refresh" \/ req[r].pc = "abuse"
  PROVE  Typed'
<1>1. /\ DOMAIN req = Requests /\ \A q \in Requests : DOMAIN req[q] = Fields
      /\ req \in [Requests -> Local]
      /\ tokens \in [Ids -> [family: Ids \cup {Nothing}, live: BOOLEAN]]
      /\ families \subseteq Ids
  BY DEF Typed, SessionsConsistent, Shape
<1>2. /\ UNCHANGED <<account, restarts, forgotten>>
      /\ ended' = ended \cup families /\ escaped' = escaped \ families
      /\ req' = [Overtake(families) EXCEPT ![r].pc = place, ![r].answer = answer]
  BY DEF FinishEnding, End, memory
<1>3. \A t \in Ids : tokens'[t].family = tokens[t].family
  BY <1>1 DEF FinishEnding, End
<1>4. /\ DOMAIN Overtake(families) = Requests
      /\ \A q \in Requests :
           \/ Overtake(families)[q] = req[q]
           \/ /\ Overtake(families)[q] = [req[q] EXCEPT !.overtaken = TRUE]
              /\ Op(q).kind = "refresh" /\ req[q].pc \in Rotating \ {"remember"}
              /\ tokens[req[q].token].family \in families
  BY DEF Overtake
<1>5. ASSUME NEW q \in Requests
      PROVE  /\ Overtake(families)[q] \in Local
             /\ Overtake(families)[q].op = req[q].op /\ Overtake(families)[q].pc = req[q].pc
             /\ Overtake(families)[q].token = req[q].token
             /\ Overtake(families)[q].overtaken = req[q].overtaken
                  \/ (/\ Op(q).kind = "refresh" /\ req[q].pc \in Rotating \ {"remember"}
                      /\ tokens[req[q].token].family \in families)
  <2>1. req[q] \in Local
    BY <1>1
  <2> QED
    BY <1>4, <2>1 DEF Local
<1>6. req' \in [Requests -> Local]
  <2> DEFINE new == [Overtake(families)[r] EXCEPT !.pc = place, !.answer = answer]
  <2>1. new \in Local
    BY <1>5 DEF Local, PCs
  <2>2. req' = [Overtake(families) EXCEPT ![r] = new]
    BY <1>2
  <2> HIDE DEF new
  <2>3. \A q \in Requests : req'[q] \in Local
    BY <1>4, <1>5, <2>1, <2>2
  <2> QED
    BY <1>4, <2>2, <2>3
<1>7. ASSUME NEW q \in Requests PROVE Tracked(q)'
  <2>1. Tracked(q)
    BY DEF Typed
  <2>2. CASE q = r
    <3>1. req'[r] = [Overtake(families)[r] EXCEPT !.pc = place, !.answer = answer]
      BY <1>2, <1>4
    <3>2. req'[r].overtaken = Overtake(families)[r].overtaken /\ req'[r].pc = place
      BY <1>5, <3>1 DEF Local
    <3>3. ~req'[r].overtaken
      BY <1>5, <2>1, <2>2, <3>2 DEF Tracked, Rotating
    <3> QED
      BY <2>2, <3>2, <3>3 DEF Tracked, Is
  <2>3. CASE q # r
    <3>1. req'[q] = Overtake(families)[q]
      BY <1>2, <1>4, <2>3
    <3>2. Op(q).kind = "refresh" /\ req[q].pc \in Rotating \ {"remember"} => req[q].token \in Ids
      BY DEF SessionsConsistent, Carried, Holds, Saves, Is, Rotating
    <3>3. req'[q].op = req[q].op /\ req'[q].pc = req[q].pc /\ req'[q].token = req[q].token
      BY <1>5, <3>1
    <3>4. \/ req'[q].overtaken = req[q].overtaken
          \/ /\ Op(q).kind = "refresh" /\ req[q].pc \in Rotating \ {"remember"}
             /\ tokens[req[q].token].family \in families
      BY <1>5, <3>1
    <3>5. ASSUME req'[q].overtaken
          PROVE  /\ Op(q).kind = "refresh" /\ req[q].pc \in Rotating /\ req[q].token \in Ids
                 /\ tokens[req[q].token].family \in ended'
      BY <1>2, <2>1, <3>2, <3>4, <3>5 DEF Tracked
    <3> QED
      BY <1>3, <2>1, <3>3, <3>5 DEF Tracked, Is, Op
  <2> QED
    BY <2>2, <2>3
<1> QED
  BY <1>1, <1>2, <1>6, <1>7 DEF Typed

LEMMA EndsTyped ==
  ASSUME SessionsConsistent, Reused, Typed, NEW r \in Requests,
         RefreshAbused(r) \/ Logout(r) \/ LogoutAll(r) \/ RevokeAll(r) \/ ResetEvent(r)
  PROVE  Typed'
<1> USE DEF Is
<1>1. CASE RefreshAbused(r)
  <2>1. req[r].token \in Ids /\ tokens[req[r].token].family # Nothing
    BY <1>1 DEF RefreshAbused, Typed, Tracked
  <2> QED
    BY <1>1, <2>1, EndTyped DEF RefreshAbused
<1>2. CASE Logout(r)
  <2>1. cookie[Op(r).by] \in Ids /\ tokens[cookie[Op(r).by]].family # Nothing
    BY <1>2 DEF Logout, SessionsConsistent, Shape, Reused, Exists
  <2> QED
    BY <1>2, <2>1, EndTyped DEF Logout
<1>3. CASE LogoutAll(r) \/ RevokeAll(r) \/ ResetEvent(r)
  BY <1>3, EndTyped DEF LogoutAll, RevokeAll, ResetEvent, All
<1> QED
  BY <1>1, <1>2, <1>3

LEMMA TimeTyped ==
  ASSUME SessionsConsistent, Typed, Restart \/ \E t \in Ids : GraceOver(t)
  PROVE  Typed'
<1>1. CASE \E t \in Ids : GraceOver(t)
  BY <1>1 DEF GraceOver, store, Typed, Tracked, Is, Op
<1>2. CASE Restart
  <2>1. /\ UNCHANGED <<account, tokens, ended, escaped>> /\ restarts' \in 0..MaxRestarts
        /\ forgotten' \subseteq Ids
    <3>1. UNCHANGED <<account, tokens, ended, escaped>> /\ forgotten' \subseteq Ids
      BY <1>2 DEF Restart, store
    <3>2. restarts' = restarts + 1 /\ restarts < MaxRestarts
      BY <1>2 DEF Restart
    <3>3. restarts \in 0..MaxRestarts /\ MaxRestarts \in Nat
      BY SessionAssumption DEF Typed
    <3> QED
      BY <3>1, <3>2, <3>3
  <2>2. req' = [r \in Requests |->
                 IF req[r].pc \in {"start", "done"} THEN req[r]
                 ELSE [req[r] EXCEPT !.pc = "done", !.answer = "crashed", !.overtaken = FALSE]]
    BY <1>2 DEF Restart
  <2>3. ASSUME NEW q \in Requests PROVE req'[q] \in Local /\ Tracked(q)'
    <3>1. req[q] \in Local /\ Tracked(q)
      BY DEF Typed
    <3>2. CASE req[q].pc \in {"start", "done"}
      BY <2>1, <2>2, <3>1, <3>2 DEF Tracked, Is, Op
    <3>3. CASE req[q].pc \notin {"start", "done"}
      <4> DEFINE new == [req[q] EXCEPT !.pc = "done", !.answer = "crashed", !.overtaken = FALSE]
      <4>1. new \in Local /\ new.overtaken = FALSE /\ new.pc = "done"
        BY <3>1 DEF Local, PCs
      <4>2. req'[q] = new
        BY <2>2, <3>3
      <4> HIDE DEF new
      <4> QED
        BY <4>1, <4>2 DEF Tracked, Is
    <3> QED
      BY <3>2, <3>3
  <2>4. req' \in [Requests -> Local]
    BY <2>2, <2>3
  <2> QED
    BY <2>1, <2>3, <2>4 DEF Typed
<1> QED
  BY <1>1, <1>2

LEMMA TypedNext == SessionsConsistent /\ Reused /\ Typed /\ [Next]_vars => Typed'
<1> SUFFICES ASSUME SessionsConsistent, Reused, Typed, [Next]_vars PROVE Typed'
  OBVIOUS
<1>1. CASE UNCHANGED vars
  BY <1>1 DEF vars, store, memory, history, Typed, Tracked, Is, Op
<1>2. ASSUME NEW r \in Requests, Beginning(r) PROVE Typed'
  BY <1>2, PlainTyped, WriteTyped, ConsumeTyped DEF Beginning
<1>3. ASSUME NEW r \in Requests, Refreshing(r) PROVE Typed'
  BY <1>3, PlainTyped, FindTyped, RevokeTyped, SaveTyped, EndsTyped DEF Refreshing
<1>4. ASSUME NEW r \in Requests, Ending(r) PROVE Typed'
  BY <1>4, PlainTyped, EndsTyped DEF Ending
<1>5. ASSUME NEW r \in Requests, Administering(r) PROVE Typed'
  BY <1>5, PlainTyped, WriteTyped DEF Administering
<1>6. CASE (\E t \in Ids : GraceOver(t)) \/ Restart
  BY <1>6, TimeTyped
<1> QED
  BY <1>1, <1>2, <1>3, <1>4, <1>5, <1>6 DEF Next

LEMMA ReusedAlways == Spec => []Reused
BY ReusedInit, ReusedNext, SessionsAlways, PTL DEF Spec

-----------------------------------------------------------------------------
(***************************************************************************)
(* logout, logoutAll, a new password, a closed or a banned account: no     *)
(* token of a family that was revoked is live, unless a refresh had found  *)
(* one good before and put its successor in afterwards.                    *)
(***************************************************************************)
THEOREM SessionsEnd == Spec => []EndedStaysEnded
<1>1. SessionsConsistent => EndedStaysEnded
  BY DEF SessionsConsistent
<1> QED
  BY <1>1, SessionsAlways, PTL

(***************************************************************************)
(* consume and the rotation of refresh: two requests that redeem the same  *)
(* token had both found it good before the first of them spent it.         *)
(***************************************************************************)
THEOREM TokensRedeemedOnce == Spec => []RedeemedOnce
<1>1. SessionsConsistent => RedeemedOnce
  BY DEF SessionsConsistent
<1> QED
  BY <1>1, SessionsAlways, PTL

(***************************************************************************)
(* refresh: whoever is thrown out for reusing a token sent one whose grace *)
(* period is over or was lost, one of a session that had been ended, or    *)
(* one whose successor another request was about to remember.              *)
(***************************************************************************)
THEOREM ReuseExplained == Spec => AbuseExplained
<1>1. SessionsConsistent /\ Reused /\ [Next]_vars =>
        \A r \in Requests : Is(r, {"refresh"}, "start") /\ req'[r].pc = "abuse" =>
          LET t == req'[r].token IN
          t \in forgotten \/ tokens[t].family \in ended \/ InTheGap(t)
  BY AbuseStep
<1> QED
  BY <1>1, ReusedAlways, SessionsAlways, PTL DEF Spec, AbuseExplained

(***************************************************************************)
(* Variables keep their types; only families are ended, and only ended     *)
(* ones escape: a refresh knows it was overtaken only when the family of   *)
(* its token is over.                                                      *)
(***************************************************************************)
THEOREM SessionTypes == Spec => []TypeOK
<1>1. SessionsConsistent /\ Typed => TypeOK
  BY DEF SessionsConsistent, Shape, Typed, Local, TypeOK
<1>2. Spec => []Typed
  BY TypedInit, TypedNext, SessionsAlways, ReusedAlways, PTL DEF Spec
<1> QED
  BY <1>1, <1>2, SessionsAlways, PTL

=============================================================================
