------------------------------- MODULE WorldChat -------------------------------
(***************************************************************************)
(* ChatService: the private conversation of one company (družina) of a     *)
(* world.  Messages are sent, edited, deleted and removed by moderation;   *)
(* scheduled ones are posted by a cron that runs in every replica; the     *)
(* list of who may read follows the membership; the conversation is        *)
(* deleted, and the world deleted and restored.                            *)
(*                                                                         *)
(* Left out: previews, pushes, read markers, whispers, dice, combat, and   *)
(* lists of members edited by hand.                                        *)
(***************************************************************************)
EXTENDS Integers, FiniteSets

CONSTANTS
  Users, Requests, Workers,   \* Workers: runs of the cron
  old, Author,                \* a message that is there at the start, and its author
  Nothing,
  Plans, Beginnings,
  MaxFaults   \* processes that die and commands that fail

Processes == Requests \cup Workers
Messages == Processes \cup {old}     \* the others are named by who sends them

Kinds == {"send", "edit", "delete", "hide", "reveal", "remove", "react", "drop",
          "close", "restore", "change", "schedule", "cancel", "cron"}
Standings == {"out", "other", "group", "staff"}

(* `of' names a message sent again, or a scheduled one that is cancelled;  *)
(* `user' gets the standing `to'.                                          *)
Operation == [kind: Kinds, by: Users, of: Requests \cup {Nothing},
              user: Users, to: Standings]

ASSUME ChatAssumption ==
  /\ Requests \cap Workers = {} /\ old \notin Processes /\ Author \in Users
  /\ Nothing \notin Messages /\ MaxFaults \in Nat
  /\ Plans \subseteq [Requests -> Operation]
  /\ Beginnings \subseteq [Users -> Standings]

VARIABLES
  world,       \* it is active
  member,      \* worldmemberships: role and company
  channel, allowed,     \* the conversation; its allowedMemberIds
  message, reacted,     \* chatmessages; who reacted to `old'
  scheduled, stale,     \* scheduledmessages; claimed more than ten minutes ago
  proc, faults,
  removed,     \* history: in which ways `old' was deleted
  revived,     \* history: the messages were restored with the world
  reclaimed    \* history: scheduled messages claimed again

place == <<world, member, channel, allowed>>
content == <<message, reacted>>
timer == <<scheduled, stale, reclaimed>>
past == <<removed, revived>>
vars == <<place, content, timer, proc, faults, past>>

NoMessage == [exists |-> FALSE, deleted |-> FALSE, hidden |-> FALSE, text |-> "none"]

Idle(o) == [op |-> o, pc |-> "start", job |-> Nothing, list |-> {}, staff |-> FALSE,
            had |-> FALSE, slipped |-> FALSE, raced |-> FALSE, late |-> FALSE,
            broke |-> FALSE, answer |-> "none"]

Init ==
  /\ world = TRUE /\ channel = "live" /\ member \in Beginnings
  /\ allowed = {u \in Users : member[u] \in {"group", "staff"}}
  /\ message = [m \in Messages |-> IF m = old
                  THEN [NoMessage EXCEPT !.exists = TRUE, !.text = "written"]
                  ELSE NoMessage]
  /\ reacted = {}
  /\ scheduled = [s \in Requests |-> "none"] /\ stale = {} /\ reclaimed = {}
  /\ \E plan \in Plans :
       proc = [p \in Processes |->
                 Idle(IF p \in Requests THEN plan[p]
                      ELSE [kind |-> "cron", by |-> Author, of |-> Nothing,
                            user |-> Author, to |-> "other"])]
  /\ faults = 0 /\ removed = {} /\ revived = FALSE

-----------------------------------------------------------------------------
Op(p) == proc[p].op
Is(p, kinds, pc) == Op(p).kind \in kinds /\ proc[p].pc = pc
By(p) == IF proc[p].job = Nothing THEN Op(p).by ELSE Op(proc[p].job).by

Goto(p, pc) == proc' = [proc EXCEPT ![p].pc = pc]
(* What the cron was told decides the status it sets. *)
End(p, answer) ==
  proc' = [proc EXCEPT ![p].pc = IF p \in Workers THEN "mark" ELSE "done",
                       ![p].answer = answer]
Keep == UNCHANGED <<place, content, timer, faults, past>>
Refuse(p) == End(p, "refused") /\ Keep
(* A command fails when the message is already saved: `broke' is history.  *)
Fail(p) ==
  /\ faults < MaxFaults /\ faults' = faults + 1
  /\ proc' = [proc EXCEPT ![p].pc = IF p \in Workers THEN "mark" ELSE "done",
                          ![p].answer = "refused", ![p].broke = TRUE]
  /\ UNCHANGED <<place, content, timer, past>>
Step(p, guard, pc) == IF guard THEN Goto(p, pc) /\ Keep ELSE Refuse(p)

-----------------------------------------------------------------------------
(***************************************************************************)
(* sendMessage, for a user or for the cron.                                *)
(***************************************************************************)
FindChannel(p) ==
  /\ Is(p, {"send"}, "start") \/ Is(p, {"cron", "react"}, "channel")
  /\ IF channel = "live"
     THEN proc' = [proc EXCEPT ![p].pc = "access", ![p].list = allowed] /\ Keep
     ELSE Refuse(p)

(* hasChannelAccess: on the list that was read, or staff. *)
Access(p) ==
  /\ Is(p, {"send", "cron", "react"}, "access")
  /\ Step(p, By(p) \in proc[p].list \/ member[By(p)] = "staff",
          CASE Op(p).kind = "react" -> "toggle"
            [] Op(p).kind = "cron" -> "save"
            [] OTHER -> "nonce")

(* The same clientNonce: the same message sent again. *)
Nonce(p) == IF Op(p).of = Nothing THEN p ELSE Op(p).of
Sent(p) ==
  \E q \in Requests : Op(q).kind = "send" /\ Nonce(q) = Nonce(p) /\ message[q].exists

FindNonce(p) ==
  /\ Is(p, {"send"}, "nonce")
  /\ IF Sent(p) THEN End(p, "ok") /\ Keep ELSE Goto(p, "save") /\ Keep

(* The index on the nonce is unique. *)
Save(p) ==
  /\ Is(p, {"send", "cron"}, "save")
  /\ \/ Op(p).kind = "send" /\ Sent(p) /\ Refuse(p)
     \/ /\ Op(p).kind = "cron" \/ ~Sent(p)
        /\ message' = [message EXCEPT ![p] =
                         [NoMessage EXCEPT !.exists = TRUE, !.text = "written"]]
        /\ Goto(p, "recheck") /\ UNCHANGED <<place, reacted, timer, faults, past>>

Swept == \E d \in Requests : Is(d, {"drop"}, "drop")

(* Mutant: before RC-D3. *)
NoRecheck(p) == Is(p, {"send", "cron"}, "recheck") /\ End(p, "ok") /\ Keep

(* RC-D3: is the conversation still there?  Whether it is deleted with the *)
(* world is not asked.  This look, the preview, the mark of what the       *)
(* sender has read and the count of unread may fail: the message is there, *)
(* and the answer is an error.                                             *)
Recheck(p) ==
  /\ Is(p, {"send", "cron"}, "recheck")
  /\ \/ channel = "gone" /\ Goto(p, "withdraw") /\ Keep
     \/ /\ channel # "gone" /\ Keep
        /\ proc' = [proc EXCEPT ![p].slipped = Swept, ![p].answer = "ok",
                                ![p].pc = IF p \in Workers THEN "mark" ELSE "done"]
     \/ Fail(p)

(* The soft deletion, whose failure is swallowed. *)
Withdraw(p) ==
  /\ Is(p, {"send", "cron"}, "withdraw")
  /\ \/ /\ message' = [message EXCEPT ![p].deleted = TRUE] /\ End(p, "refused")
        /\ UNCHANGED <<place, reacted, timer, faults, past>>
     \/ Fail(p)

-----------------------------------------------------------------------------
(***************************************************************************)
(* editMessage, deleteMessage, moderation and reactions, on `old'.         *)
(***************************************************************************)
Changers == {"edit", "delete", "hide", "reveal", "remove"}

FindMessage(p) ==
  /\ Is(p, {"edit", "delete"}, "start")
  /\ Step(p, ~message[old].deleted, IF By(p) = Author THEN "write" ELSE "may")

May(p) == Is(p, {"edit", "delete"}, "may") /\ Step(p, member[By(p)] = "staff", "write")

ModerateFind(p) ==
  /\ Is(p, {"hide", "reveal", "remove"}, "start")
  /\ Step(p, ~message[old].deleted, "write")

(* Who has found the message before it was deleted is late. *)
Overtaking(p) ==
  [q \in Processes |->
    IF q = p THEN [proc[q] EXCEPT !.pc = "done", !.answer = "ok"]
    ELSE IF Is(q, Changers, "may") \/ Is(q, Changers, "write")
    THEN [proc[q] EXCEPT !.late = TRUE] ELSE proc[q]]

Rewrite(new) ==
  /\ message' = [message EXCEPT ![old] = new]
  /\ UNCHANGED <<place, reacted, timer, faults>>

EditMessage(p) ==
  /\ Is(p, {"edit"}, "write") /\ End(p, "ok")
  /\ Rewrite([message[old] EXCEPT !.text = "edited"]) /\ UNCHANGED past

DeleteMessage(p) ==
  /\ Is(p, {"delete"}, "write") /\ proc' = Overtaking(p)
  /\ Rewrite([message[old] EXCEPT !.text = "tombstone", !.deleted = TRUE])
  /\ removed' = removed \cup {"author"} /\ UNCHANGED revived

(* moderationSetMessageHidden. *)
HideMessage(p) ==
  /\ Is(p, {"hide", "reveal"}, "write") /\ End(p, "ok")
  /\ Rewrite([message[old] EXCEPT !.hidden = (Op(p).kind = "hide")]) /\ UNCHANGED past

Remove(p, hidden) ==
  /\ Is(p, {"remove"}, "write") /\ proc' = Overtaking(p)
  /\ Rewrite([message[old] EXCEPT !.text = "tombstone", !.deleted = TRUE, !.hidden = hidden])
  /\ removed' = removed \cup {"moderation"} /\ UNCHANGED revived

(* Mutant: the mask stays over the tombstone. *)
RemoveMasked(p) == Remove(p, message[old].hidden)

(* moderationRemoveMessage. *)
RemoveMessage(p) == Remove(p, FALSE)

ReactFind(p) ==
  /\ Is(p, {"react"}, "start")
  /\ IF message[old].deleted THEN Refuse(p)
     ELSE /\ proc' = [proc EXCEPT ![p].pc = "channel", ![p].had = By(p) \in reacted]
          /\ Keep

(* removeReactionIfPresent when `had', else addReactionIfAbsent: one       *)
(* command, which finds nothing if the reaction is not as expected.        *)
React(p, had, otherwise) ==
  IF (By(p) \in reacted) = had
  THEN /\ reacted' = (IF had THEN reacted \ {By(p)} ELSE reacted \cup {By(p)})
       /\ End(p, "ok") /\ UNCHANGED <<place, message, timer, faults, past>>
  ELSE otherwise

Toggle(p) ==
  /\ Is(p, {"react"}, "toggle")
  /\ React(p, proc[p].had, Goto(p, "opposite") /\ Keep)

ToggleOpposite(p) ==
  Is(p, {"react"}, "opposite") /\ React(p, ~proc[p].had, Refuse(p))

-----------------------------------------------------------------------------
(***************************************************************************)
(* The conversation is deleted; the world is deleted and restored.         *)
(***************************************************************************)
DropFind(r) ==
  /\ Is(r, {"drop"}, "start")
  /\ Step(r, channel = "live" /\ member[By(r)] = "staff", "sweep")

(* Deleted with the conversation, and emptied; deleted and restored with   *)
(* the world.                                                              *)
EveryMessage(r) ==
  message' = [m \in Messages |->
    IF message[m].exists
    THEN [message[m] EXCEPT !.deleted = (Op(r).kind # "restore"),
                            !.text = IF Op(r).kind = "drop" THEN "none" ELSE @]
    ELSE message[m]]

(* deleteChannel: the messages first ... *)
Sweep(r) ==
  /\ Is(r, {"drop"}, "sweep") /\ EveryMessage(r)
  /\ proc' = [Overtaking(r) EXCEPT ![r].pc = "drop"]
  /\ removed' = removed \cup {"channel"}
  /\ UNCHANGED <<place, reacted, timer, faults, revived>>

(* ... and the conversation last. *)
Drop(r) ==
  /\ Is(r, {"drop"}, "drop") /\ End(r, "ok") /\ channel' = "gone"
  /\ UNCHANGED <<world, member, allowed, content, timer, faults, past>>

CloseWorld(r) ==
  /\ Is(r, {"close"}, "start")
  /\ \/ ~world /\ Refuse(r)
     \/ /\ world /\ world' = FALSE /\ Goto(r, "channel")
        /\ UNCHANGED <<member, channel, allowed, content, timer, faults, past>>

RestoreWorld(r) ==
  /\ Is(r, {"restore"}, "start")
  /\ \/ world /\ Refuse(r)
     \/ /\ ~world /\ world' = TRUE /\ Goto(r, "channel")
        /\ UNCHANGED <<member, channel, allowed, content, timer, faults, past>>

(* handleWorldDeleted, handleWorldRestored: the conversation ... *)
WorldChannel(r) ==
  /\ Is(r, {"close", "restore"}, "channel") /\ Goto(r, "messages")
  /\ channel' = (IF channel = "gone" THEN "gone"
                 ELSE IF Op(r).kind = "close" THEN "hidden" ELSE "live")
  /\ UNCHANGED <<world, member, allowed, content, timer, faults, past>>

(* ... and its messages, whatever they were deleted for. *)
WorldMessages(r) ==
  /\ Is(r, {"close", "restore"}, "messages") /\ End(r, "ok") /\ EveryMessage(r)
  /\ revived' = (revived \/ Op(r).kind = "restore")
  /\ UNCHANGED <<place, reacted, timer, faults, removed>>

-----------------------------------------------------------------------------
(***************************************************************************)
(* A change of the membership, and the list that follows it.               *)
(***************************************************************************)
Syncing == {"role", "list", "allow"}
Others(r) == {q \in Requests \ {r} : Op(q).kind = "change" /\ proc[q].pc \in Syncing}

(* assertWorldActive, which is not asked of who leaves. *)
ChangeFind(r) ==
  /\ Is(r, {"change"}, "start")
  /\ Step(r, (world \/ Op(r).to = "out") /\ member[Op(r).user] # "out", "write")

(* The event carries the membership that was written. *)
ChangeWrite(r) ==
  /\ Is(r, {"change"}, "write")
  /\ member' = [member EXCEPT ![Op(r).user] = Op(r).to]
  /\ proc' = [q \in Processes |->
       IF q = r THEN [proc[r] EXCEPT !.pc = "role", !.had = (Op(r).to = "group"),
                                     !.raced = (Others(r) # {})]
       ELSE IF q \in Others(r) THEN [proc[q] EXCEPT !.raced = TRUE] ELSE proc[q]]
  /\ UNCHANGED <<world, channel, allowed, content, timer, faults, past>>

(* Mutant: before N-20, only the company counted. *)
CompanyOnly(r) == Is(r, {"change"}, "role") /\ Goto(r, "list") /\ Keep

(* syncLinkedChannelMembers: is the user staff now? *)
SyncRole(r) ==
  /\ Is(r, {"change"}, "role") /\ Keep
  /\ proc' = [proc EXCEPT ![r].pc = "list", ![r].staff = (member[Op(r).user] = "staff")]

(* The list as it is; one that is deleted is not looked at. *)
SyncList(r) ==
  LET u == Op(r).user
      should == proc[r].staff \/ proc[r].had
      differs == (u \in allowed) # should IN
  /\ Is(r, {"change"}, "list") /\ Keep
  /\ \/ channel = "live" /\ differs
        /\ proc' = [proc EXCEPT ![r].pc = "allow",
             ![r].list = IF should THEN allowed \cup {u} ELSE allowed \ {u}]
     \/ channel = "live" /\ ~differs /\ End(r, "ok")
     \/ channel # "live"
        /\ proc' = [proc EXCEPT ![r].pc = "done", ![r].answer = "ok", ![r].raced = TRUE]

(* The whole list is replaced. *)
SyncAllow(r) ==
  /\ Is(r, {"change"}, "allow") /\ End(r, "ok") /\ allowed' = proc[r].list
  /\ UNCHANGED <<world, member, channel, content, timer, faults, past>>

-----------------------------------------------------------------------------
(***************************************************************************)
(* Scheduled messages.                                                     *)
(***************************************************************************)
(* The number of those waiting may be at its limit. *)
Schedule(r) ==
  /\ Is(r, {"schedule"}, "start")
  /\ \/ Refuse(r)
     \/ /\ scheduled' = [scheduled EXCEPT ![r] = "pending"] /\ End(r, "ok")
        /\ UNCHANGED <<place, content, stale, reclaimed, faults, past>>

CancelFind(r) ==
  /\ Is(r, {"cancel"}, "start")
  /\ Step(r, scheduled[Op(r).of] # "none" /\ Op(Op(r).of).by = By(r), "write")

(* Whatever its status is. *)
CancelDelete(r) ==
  /\ Is(r, {"cancel"}, "write") /\ End(r, "ok")
  /\ scheduled' = [scheduled EXCEPT ![Op(r).of] = "none"]
  /\ UNCHANGED <<place, content, stale, reclaimed, faults, past>>

Take(w, s, status) ==
  /\ proc[w].pc = "start"
  /\ proc' = [proc EXCEPT ![w].pc = "channel", ![w].job = s]
  /\ scheduled' = [scheduled EXCEPT ![s] = status] /\ stale' = stale \ {s}
  /\ reclaimed' = (IF s \in stale THEN reclaimed \cup {s} ELSE reclaimed)
  /\ UNCHANGED <<place, content, faults, past>>

Due(s) == scheduled[s] = "pending" \/ (scheduled[s] = "sending" /\ s \in stale)

(* Mutant: read first, set later. *)
ReadDue(w) == \E s \in Requests : Due(s) /\ Take(w, s, scheduled[s])

(* claimDue: found and set to sending in one command. *)
ClaimDue(w) == \E s \in Requests : Due(s) /\ Take(w, s, "sending")

(* SENDING_STALE_MS have gone by. *)
TenMinutes(s) ==
  /\ scheduled[s] = "sending" /\ s \notin stale /\ stale' = stale \cup {s}
  /\ UNCHANGED <<place, content, scheduled, reclaimed, proc, faults, past>>

(* setStatus: by id, if the document is there.  When "sent" cannot be set, *)
(* the catch takes it for an error of sendMessage and sets "failed".       *)
SetStatus(w) ==
  LET s == proc[w].job IN
  /\ Is(w, {"cron"}, "mark")
  /\ \/ /\ scheduled' = [scheduled EXCEPT ![s] =
             IF @ = "none" THEN "none"
             ELSE IF proc[w].answer = "ok" THEN "sent" ELSE "failed"]
        /\ stale' = stale \ {s} /\ Goto(w, "done")
        /\ UNCHANGED <<place, content, reclaimed, faults, past>>
     \/ proc[w].answer = "ok" /\ Fail(w)

-----------------------------------------------------------------------------
(* A process stops between two of its steps. *)
Die(p) ==
  /\ proc[p].pc \notin {"start", "done"} /\ faults < MaxFaults /\ faults' = faults + 1
  /\ proc' = [proc EXCEPT ![p].pc = "done", ![p].answer = "crashed"]
  /\ UNCHANGED <<place, content, timer, past>>

Sending(p) ==
  \/ FindChannel(p) \/ Access(p) \/ FindNonce(p) \/ Save(p) \/ Recheck(p) \/ Withdraw(p)

Changing(p) ==
  \/ FindMessage(p) \/ May(p) \/ ModerateFind(p) \/ EditMessage(p) \/ DeleteMessage(p)
  \/ HideMessage(p) \/ RemoveMessage(p) \/ ReactFind(p) \/ Toggle(p) \/ ToggleOpposite(p)

Keeping(r) ==
  \/ DropFind(r) \/ Sweep(r) \/ Drop(r) \/ CloseWorld(r) \/ RestoreWorld(r)
  \/ WorldChannel(r) \/ WorldMessages(r)
  \/ ChangeFind(r) \/ ChangeWrite(r) \/ SyncRole(r) \/ SyncList(r) \/ SyncAllow(r)
  \/ Schedule(r) \/ CancelFind(r) \/ CancelDelete(r)

Next ==
  \/ \E p \in Processes : Sending(p) \/ Changing(p) \/ Die(p)
  \/ \E r \in Requests : Keeping(r) \/ TenMinutes(r)
  \/ \E w \in Workers : ClaimDue(w) \/ SetStatus(w)

Spec == Init /\ [][Next]_vars

-----------------------------------------------------------------------------
PCs == {"start", "channel", "access", "nonce", "save", "recheck", "withdraw", "may",
        "write", "toggle", "opposite", "sweep", "drop", "messages", "role", "list",
        "allow", "mark", "done"}

TypeOK ==
  /\ world \in BOOLEAN /\ member \in [Users -> Standings]
  /\ channel \in {"live", "hidden", "gone"} /\ allowed \subseteq Users
  /\ message \in [Messages -> [exists: BOOLEAN, deleted: BOOLEAN, hidden: BOOLEAN,
                               text: {"none", "written", "edited", "tombstone"}]]
  /\ reacted \subseteq Users
  /\ scheduled \in [Requests -> {"none", "pending", "sending", "sent", "failed"}]
  /\ stale \subseteq Requests /\ reclaimed \subseteq Requests
  /\ proc \in [Processes -> [op: Operation, pc: PCs, job: Requests \cup {Nothing},
       list: SUBSET Users, staff: BOOLEAN, had: BOOLEAN, slipped: BOOLEAN,
       raced: BOOLEAN, late: BOOLEAN, broke: BOOLEAN, answer: {"none", "ok", "refused", "crashed"}]]
  /\ faults \in 0..MaxFaults
  /\ removed \subseteq {"author", "moderation", "channel"} /\ revived \in BOOLEAN

(***************************************************************************)
(* RC-D3: no message lives on in a conversation that is gone, except one   *)
(* that will still be looked at, whose sender died or met an error after   *)
(* it was saved (that of the soft deletion included), that was saved and   *)
(* checked between the deletion of the messages and of the conversation,   *)
(* or that came back with the world.                                       *)
(***************************************************************************)
OrphanExplained ==
  channel = "gone" => \A m \in Messages :
    message[m].exists /\ ~message[m].deleted =>
      \/ revived
      \/ m \in Processes /\ (\/ proc[m].pc \in {"recheck", "withdraw"}
                             \/ proc[m].answer = "crashed" \/ proc[m].broke
                             \/ proc[m].slipped)

(***************************************************************************)
(* What was deleted cannot be read again, and what moderation removed      *)
(* shows its tombstone and no mask over it; except by an edit or a hiding  *)
(* that had found the message before, or after it came back with the       *)
(* world.                                                                  *)
(***************************************************************************)
RemovedStaysRemoved ==
  \/ revived \/ \E p \in Processes : proc[p].late
  \/ /\ removed # {} => message[old].text \notin {"written", "edited"}
     /\ "moderation" \in removed => ~message[old].hidden

(***************************************************************************)
(* D-NEW-channel-group-sync, N-20: when nothing is on its way, the list    *)
(* has exactly the members of the company and the staff; a user is wrong   *)
(* on it only if two changes overlapped, or one with the end of the world  *)
(* or of the process.                                                      *)
(***************************************************************************)
Quiet == \A r \in Requests : ~(Op(r).kind = "change" /\ proc[r].pc \in Syncing)

AccessExplained ==
  Quiet /\ channel = "live" =>
    \A u \in Users : (u \in allowed) # (member[u] \in {"group", "staff"}) =>
      \E r \in Requests : /\ Op(r).kind = "change" /\ Op(r).user = u
                          /\ proc[r].raced \/ proc[r].answer = "crashed"

(***************************************************************************)
(* A scheduled message is posted once, however many replicas run the cron, *)
(* unless it was claimed again after ten minutes.  "sent" means that it    *)
(* was, and "failed" that it was not, but for an error after it was saved. *)
(***************************************************************************)
Posted(s) == {w \in Workers : proc[w].job = s /\ message[w].exists}

ScheduledOnce ==
  \A s \in Requests :
    /\ Cardinality(Posted(s)) > 1 => s \in reclaimed
    /\ scheduled[s] = "sent" => Posted(s) # {}
    /\ scheduled[s] = "failed" /\ (\E w \in Posted(s) : ~message[w].deleted) =>
         revived \/ s \in reclaimed \/ \E w \in Posted(s) : proc[w].broke

(***************************************************************************)
(* FIX-40: every toggle that was answered turned the reaction once, so a   *)
(* quick double click leaves it as it was.                                 *)
(***************************************************************************)
ReactionParity ==
  \A u \in Users :
    LET done == {r \in Requests : /\ Op(r).kind = "react" /\ By(r) = u
                                  /\ proc[r].answer = "ok"} IN
    (u \in reacted) = (Cardinality(done) % 2 = 1)

(***************************************************************************)
(* What the test of RC-D3 says of every such race.                         *)
(***************************************************************************)
NoOrphan ==
  channel = "gone" /\ faults = 0 /\ ~revived => \A m \in Messages :
    message[m].exists /\ ~message[m].deleted =>
      m \in Processes /\ proc[m].pc \in {"recheck", "withdraw"}

=============================================================================
