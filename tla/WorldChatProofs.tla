---------------------------- MODULE WorldChatProofs ----------------------------
(***************************************************************************)
(* The conversation of a company, for any number of users, of requests, of *)
(* runs of the cron and of faults between two steps:                       *)
(*   - claimDue gives a scheduled message to one worker until ten minutes  *)
(*     have gone by, and its status tells what became of it;               *)
(*   - the types, from which the rest goes on;                             *)
(*   - what was deleted stays unreadable (Removed);                        *)
(*   - a conversation that is deleted is empty, but for what was passing   *)
(*     (Emptied);                                                          *)
(*   - the list of who may read follows the membership (Synced).           *)
(***************************************************************************)
EXTENDS WorldChat, FiniteSetTheorems, TLAPS

Fields == {"op", "pc", "job", "list", "staff", "had", "slipped", "raced", "late", "broke",
           "answer"}
MessageFields == {"exists", "deleted", "hidden", "text"}

Shape ==
  /\ DOMAIN proc = Processes /\ \A p \in Processes : DOMAIN proc[p] = Fields
  /\ DOMAIN message = Messages
  /\ \A m \in Messages : DOMAIN message[m] = MessageFields
  /\ DOMAIN scheduled = Requests
  /\ \A w \in Workers : Op(w).kind = "cron"

(* What a worker knows is so: it has answered "ok" only for a message that *)
(* exists, and refused only if there is none to be read, or if an error    *)
(* came after it was saved.                                                *)
Honest ==
  \A w \in Workers :
    /\ proc[w].pc = "start" <=> proc[w].job = Nothing
    /\ proc[w].job \in Requests \cup {Nothing}
    /\ proc[w].pc \in {"start", "channel", "access", "save"} => ~message[w].exists
    /\ proc[w].pc = "recheck" => message[w].exists
    /\ proc[w].pc = "mark" => proc[w].answer \in {"ok", "refused"}
    /\ proc[w].answer # "none" => proc[w].pc \in {"mark", "done"}
    /\ proc[w].answer = "ok" => message[w].exists
    /\ proc[w].answer = "refused" /\ message[w].exists =>
         message[w].deleted \/ revived \/ proc[w].broke

(* Two workers have the same message only when it was claimed again.       *)
Claimed ==
  /\ \A s \in Requests : scheduled[s] # "none" => proc[s].pc # "start"
  /\ \A w \in Workers : proc[w].job # Nothing => proc[proc[w].job].pc # "start"
  /\ \A s \in Requests : scheduled[s] = "pending" => \A w \in Workers : proc[w].job # s
  /\ \A v, w \in Workers : v # w /\ proc[v].job = proc[w].job /\ proc[w].job # Nothing =>
       proc[w].job \in reclaimed

(* A status that is final was set by a worker that has done its work.      *)
Told ==
  \A s \in Requests :
    /\ scheduled[s] = "sent" => \E w \in Workers : proc[w].job = s /\ message[w].exists
    /\ scheduled[s] = "failed" => \E w \in Workers :
         proc[w].job = s /\ proc[w].pc = "done" /\ proc[w].answer = "refused"

(* The inductive invariant. *)
ScheduleConsistent == Shape /\ Honest /\ Claimed /\ Told

-----------------------------------------------------------------------------
LEMMA ScheduleInit == Init => ScheduleConsistent
<1> SUFFICES ASSUME Init PROVE ScheduleConsistent
  OBVIOUS
<1> USE ChatAssumption DEF Processes, Messages
<1>1. PICK plan \in Plans :
        proc = [p \in Processes |->
                 Idle(IF p \in Requests THEN plan[p]
                      ELSE [kind |-> "cron", by |-> Author, of |-> Nothing,
                            user |-> Author, to |-> "other"])]
  BY DEF Init
<1>2. /\ message = [m \in Messages |-> IF m = old
                     THEN [NoMessage EXCEPT !.exists = TRUE, !.text = "written"]
                     ELSE NoMessage]
      /\ scheduled = [s \in Requests |-> "none"]
  BY DEF Init
<1>3. \A p \in Processes : proc[p].pc = "start" /\ proc[p].job = Nothing /\ proc[p].answer = "none"
  BY <1>1 DEF Idle
<1>4. \A w \in Workers : ~message[w].exists
  BY <1>2 DEF NoMessage
<1>5. Shape
  BY <1>1, <1>2 DEF Shape, Idle, NoMessage, Fields, MessageFields, Op
<1>6. Honest /\ Claimed /\ Told
  BY <1>2, <1>3, <1>4 DEF Honest, Claimed, Told
<1> QED
  BY <1>5, <1>6 DEF ScheduleConsistent

-----------------------------------------------------------------------------
(* A step that no worker takes, and that schedules nothing.                *)
Aside ==
  /\ Shape' /\ UNCHANGED reclaimed /\ (revived => revived')
  /\ \A w \in Workers : /\ proc'[w].pc = proc[w].pc /\ proc'[w].job = proc[w].job
                        /\ proc'[w].answer = proc[w].answer
                        /\ proc'[w].broke = proc[w].broke
                        /\ message'[w].exists = message[w].exists
                        /\ message[w].deleted => message'[w].deleted \/ revived'
  /\ \A r \in Requests : proc[r].pc # "start" => proc'[r].pc # "start"
  /\ \A s \in Requests : scheduled'[s] \in {scheduled[s], "none"}

LEMMA AsideKeeps ==
  ASSUME ScheduleConsistent, Aside
  PROVE  ScheduleConsistent'
<1> USE DEF ScheduleConsistent, Aside
<1>1. Honest'
  BY DEF Honest
<1>2. Claimed'
  BY DEF Claimed, Honest
<1>3. Told'
  BY DEF Told
<1> QED
  BY <1>1, <1>2, <1>3

(* A request moves on.                                                     *)
Moves(r) ==
  /\ DOMAIN proc' = Processes /\ \A p \in Processes : DOMAIN proc'[p] = Fields
  /\ \A w \in Workers : /\ proc'[w].pc = proc[w].pc /\ proc'[w].job = proc[w].job
                        /\ proc'[w].answer = proc[w].answer /\ proc'[w].op = proc[w].op
                        /\ proc'[w].broke = proc[w].broke
  /\ \A q \in Requests : proc[q].pc # "start" => proc'[q].pc # "start"

LEMMA RequestMoves ==
  ASSUME ScheduleConsistent, NEW r \in Requests,
         Sending(r) \/ Changing(r) \/ Die(r) \/ Keeping(r)
  PROVE  Moves(r)
<1> USE ChatAssumption DEF Processes, Fields, Step, Goto, End, Refuse, Fail
<1>0. /\ DOMAIN proc = Processes /\ \A p \in Processes : DOMAIN proc[p] = Fields
      /\ r \in Processes /\ r \notin Workers
  BY DEF ScheduleConsistent, Shape
<1>1. CASE FindChannel(r) \/ Access(r) \/ FindNonce(r) \/ Save(r)
  BY <1>0, <1>1 DEF FindChannel, Access, FindNonce, Save, Moves
<1>2. CASE Recheck(r) \/ Withdraw(r) \/ Die(r)
  BY <1>0, <1>2 DEF Recheck, Withdraw, Die, Moves
<1>3. CASE FindMessage(r) \/ May(r) \/ ModerateFind(r) \/ EditMessage(r) \/ HideMessage(r)
  BY <1>0, <1>3 DEF FindMessage, May, ModerateFind, EditMessage, HideMessage, Moves
<1>4. CASE ReactFind(r) \/ Toggle(r) \/ ToggleOpposite(r)
  BY <1>0, <1>4 DEF ReactFind, Toggle, ToggleOpposite, React, Moves
<1>5. CASE DeleteMessage(r) \/ RemoveMessage(r) \/ Sweep(r)
  <2>1. \/ proc' = Overtaking(r)
        \/ proc' = [Overtaking(r) EXCEPT ![r].pc = "drop"]
    BY <1>5 DEF DeleteMessage, RemoveMessage, Remove, Sweep
  <2>2. /\ DOMAIN Overtaking(r) = Processes
        /\ \A p \in Processes \ {r} :
             Overtaking(r)[p] \in {proc[p], [proc[p] EXCEPT !.late = TRUE]}
        /\ Overtaking(r)[r] = [proc[r] EXCEPT !.pc = "done", !.answer = "ok"]
    BY <1>0 DEF Overtaking
  <2>3. /\ \A p \in Processes : DOMAIN Overtaking(r)[p] = Fields
        /\ \A p \in Processes \ {r} : /\ Overtaking(r)[p].pc = proc[p].pc
                                     /\ Overtaking(r)[p].job = proc[p].job
                                     /\ Overtaking(r)[p].answer = proc[p].answer
                                     /\ Overtaking(r)[p].op = proc[p].op
                                     /\ Overtaking(r)[p].broke = proc[p].broke
        /\ Overtaking(r)[r].pc = "done"
    <3>1. ASSUME NEW p \in Processes \ {r}
          PROVE  /\ DOMAIN Overtaking(r)[p] = Fields
                 /\ Overtaking(r)[p].pc = proc[p].pc /\ Overtaking(r)[p].job = proc[p].job
                 /\ Overtaking(r)[p].answer = proc[p].answer
                 /\ Overtaking(r)[p].op = proc[p].op
                 /\ Overtaking(r)[p].broke = proc[p].broke
      <4>1. CASE Overtaking(r)[p] = proc[p]
        BY <1>0, <4>1
      <4>2. CASE Overtaking(r)[p] = [proc[p] EXCEPT !.late = TRUE]
        BY <1>0, <4>2
      <4> QED
        BY <2>2, <4>1, <4>2
    <3>2. DOMAIN Overtaking(r)[r] = Fields /\ Overtaking(r)[r].pc = "done"
      BY <1>0, <2>2
    <3> QED
      BY <3>1, <3>2
  <2>4. CASE proc' = Overtaking(r)
    BY <1>0, <2>2, <2>3, <2>4 DEF Moves
  <2>5. CASE proc' = [Overtaking(r) EXCEPT ![r].pc = "drop"]
    BY <1>0, <2>2, <2>3, <2>5 DEF Moves
  <2> QED
    BY <2>1, <2>4, <2>5
<1>6. CASE DropFind(r) \/ Drop(r) \/ CloseWorld(r) \/ RestoreWorld(r)
           \/ WorldChannel(r) \/ WorldMessages(r)
  BY <1>0, <1>6 DEF DropFind, Drop, CloseWorld, RestoreWorld, WorldChannel, WorldMessages, Moves
<1>7. CASE ChangeWrite(r)
  <2>1. proc' = [q \in Processes |->
          IF q = r THEN [proc[r] EXCEPT !.pc = "role", !.had = (Op(r).to = "group"),
                                        !.raced = (Others(r) # {})]
          ELSE IF q \in Others(r) THEN [proc[q] EXCEPT !.raced = TRUE] ELSE proc[q]]
    BY <1>7 DEF ChangeWrite
  <2> QED
    BY <1>0, <2>1 DEF Moves
<1>8. CASE ChangeFind(r) \/ SyncRole(r) \/ SyncList(r) \/ SyncAllow(r)
  BY <1>0, <1>8 DEF ChangeFind, SyncRole, SyncList, SyncAllow, Moves
<1>9. CASE Schedule(r) \/ CancelFind(r) \/ CancelDelete(r)
  BY <1>0, <1>9 DEF Schedule, CancelFind, CancelDelete, Moves
<1> QED
  BY <1>1, <1>2, <1>3, <1>4, <1>5, <1>6, <1>7, <1>8, <1>9 DEF Sending, Changing, Keeping

(* What requests do to the messages of workers: nothing, or with the world *)
(* or the conversation, which brings none into being.                      *)
LEMMA RequestAside ==
  ASSUME ScheduleConsistent, NEW r \in Requests,
         Sending(r) \/ Changing(r) \/ Die(r) \/ Keeping(r), ~Schedule(r)
  PROVE  Aside
<1> USE ChatAssumption DEF Processes, Messages
<1>0. /\ Moves(r) /\ r \notin Workers /\ old \notin Workers
      /\ DOMAIN message = Messages /\ \A m \in Messages : DOMAIN message[m] = MessageFields
      /\ DOMAIN scheduled = Requests /\ \A w \in Workers : Op(w).kind = "cron"
  BY RequestMoves DEF ScheduleConsistent, Shape
<1>1. ASSUME UNCHANGED reclaimed, revived => revived',
             DOMAIN message' = Messages,
             \A m \in Messages : DOMAIN message'[m] = MessageFields,
             \A w \in Workers : /\ message'[w].exists = message[w].exists
                                /\ message[w].deleted => message'[w].deleted \/ revived',
             DOMAIN scheduled' = Requests,
             \A s \in Requests : scheduled'[s] \in {scheduled[s], "none"}
      PROVE  Aside
  BY <1>0, <1>1 DEF Aside, Moves, Shape, Op
<1>2. CASE UNCHANGED <<message, scheduled, reclaimed, revived>>
  BY <1>0, <1>1, <1>2
<1>3. CASE CancelDelete(r)
  BY <1>0, <1>1, <1>3 DEF CancelDelete, content, past
<1>4. CASE Save(r) \/ Withdraw(r)
  BY <1>0, <1>1, <1>4 DEF Save, Withdraw, Refuse, Fail, Keep, NoMessage, MessageFields,
                          place, content, timer, past
<1>5. CASE EditMessage(r) \/ DeleteMessage(r) \/ HideMessage(r) \/ RemoveMessage(r)
  <2>1. /\ \E new : message' = [message EXCEPT ![old] = new] /\ DOMAIN new = MessageFields
        /\ UNCHANGED <<scheduled, reclaimed, revived>>
    BY <1>0, <1>5 DEF EditMessage, DeleteMessage, HideMessage, RemoveMessage, Remove, Rewrite,
                      timer, past, MessageFields
  <2> QED
    BY <1>0, <1>1, <2>1
<1>6. CASE Sweep(r) \/ WorldMessages(r)
  <2>1. /\ message' = [m \in Messages |->
             IF message[m].exists
             THEN [message[m] EXCEPT !.deleted = (Op(r).kind # "restore"),
                                     !.text = IF Op(r).kind = "drop" THEN "none" ELSE @]
             ELSE message[m]]
        /\ UNCHANGED <<scheduled, reclaimed>>
    BY <1>6 DEF Sweep, WorldMessages, EveryMessage, timer
  <2>2. (revived => revived') /\ (Op(r).kind # "restore" \/ revived')
    <3>1. CASE Sweep(r)
      BY <3>1 DEF Sweep, Is
    <3>2. CASE WorldMessages(r)
      BY <3>2 DEF WorldMessages
    <3> QED
      BY <1>6, <3>1, <3>2
  <2>3. ASSUME NEW m \in Messages
        PROVE  /\ DOMAIN message'[m] = MessageFields
               /\ message'[m].exists = message[m].exists
               /\ message[m].deleted => message'[m].deleted \/ Op(r).kind = "restore"
    <3>1. CASE message[m].exists
      <4>1. message'[m] = [message[m] EXCEPT !.deleted = (Op(r).kind # "restore"),
                              !.text = IF Op(r).kind = "drop" THEN "none" ELSE @]
        BY <2>1, <3>1
      <4> QED
        BY <1>0, <4>1 DEF MessageFields
    <3>2. CASE ~message[m].exists
      BY <1>0, <2>1, <3>2
    <3> QED
      BY <3>1, <3>2
  <2>4. DOMAIN message' = Messages
    BY <2>1
  <2> QED
    BY <1>0, <1>1, <2>1, <2>2, <2>3, <2>4
<1>7. CASE UNCHANGED vars
  BY <1>2, <1>7 DEF vars, content, timer, past
<1> QED
  BY <1>2, <1>3, <1>4, <1>5, <1>6
     DEF Sending, FindChannel, Access, FindNonce, Recheck, Changing, FindMessage, May,
         ModerateFind, ReactFind, Toggle, ToggleOpposite, React, Die, Keeping, DropFind, Drop,
         CloseWorld, RestoreWorld, WorldChannel, ChangeFind, ChangeWrite, SyncRole, SyncList,
         SyncAllow, CancelFind, Step, Refuse, Fail, Keep, content, timer, past

-----------------------------------------------------------------------------
(* What a worker does between its claim and the status it sets: it keeps   *)
(* its message and stays honest.                                           *)
Works(w) ==
  /\ Shape' /\ UNCHANGED <<scheduled, reclaimed, revived>>
  /\ \A p \in Processes \ {w} : proc'[p] = proc[p] /\ message'[p] = message[p]
  /\ proc[w].pc \notin {"start", "done"} /\ proc'[w].pc # "start"
  /\ proc'[w].job = proc[w].job
  /\ message[w].exists => message'[w].exists
  /\ proc'[w].pc \in {"channel", "access", "save"} => ~message'[w].exists
  /\ proc'[w].pc = "recheck" => message'[w].exists
  /\ proc'[w].pc = "mark" => proc'[w].answer \in {"ok", "refused"}
  /\ proc'[w].answer # "none" => proc'[w].pc \in {"mark", "done"}
  /\ proc'[w].answer = "ok" => message'[w].exists
  /\ proc'[w].answer = "refused" /\ message'[w].exists =>
       message'[w].deleted \/ revived' \/ proc'[w].broke

LEMMA WorksKeeps ==
  ASSUME ScheduleConsistent, NEW w \in Workers, Works(w)
  PROVE  ScheduleConsistent'
<1> USE ChatAssumption DEF ScheduleConsistent, Works, Processes
<1>1. Honest'
  BY DEF Honest
<1>2. Claimed'
  <2>1. \A q \in Requests : proc'[q] = proc[q]
    OBVIOUS
  <2>2. \A v \in Workers : proc'[v].job = proc[v].job /\ proc[v].job \in Requests \cup {Nothing}
    BY DEF Honest
  <2> QED
    BY <2>1, <2>2 DEF Claimed
<1>3. Told'
  BY DEF Told
<1> QED
  BY <1>1, <1>2, <1>3

(* An error after the message was saved.                                   *)
LEMMA FailWorks ==
  ASSUME ScheduleConsistent, NEW w \in Workers, Fail(w),
         proc[w].pc \in {"recheck", "withdraw", "mark"}
  PROVE  Works(w)
<1> USE ChatAssumption DEF Processes, Messages, Fields
<1>0. /\ DOMAIN proc = Processes /\ \A p \in Processes : DOMAIN proc[p] = Fields
      /\ w \in Processes /\ Op(w).kind = "cron"
      /\ DOMAIN message = Messages /\ \A m \in Messages : DOMAIN message[m] = MessageFields
      /\ DOMAIN scheduled = Requests /\ \A v \in Workers : Op(v).kind = "cron"
  BY DEF ScheduleConsistent, Shape
<1>1. /\ UNCHANGED <<message, scheduled, reclaimed, revived>>
      /\ proc' = [proc EXCEPT ![w].pc = "mark", ![w].answer = "refused", ![w].broke = TRUE]
  BY DEF Fail, content, timer, past
<1>2. /\ \A p \in Processes \ {w} : proc'[p] = proc[p]
      /\ proc'[w].pc = "mark" /\ proc'[w].answer = "refused" /\ proc'[w].broke
      /\ proc'[w].job = proc[w].job /\ proc'[w].op = proc[w].op
      /\ DOMAIN proc'[w] = Fields /\ DOMAIN proc' = Processes
  BY <1>0, <1>1
<1>3. Shape'
  BY <1>0, <1>1, <1>2 DEF Shape, Op
<1> QED
  BY <1>1, <1>2, <1>3 DEF Works

LEMMA WorkerSteps ==
  ASSUME ScheduleConsistent, NEW w \in Workers, Sending(w) \/ Changing(w) \/ Die(w)
  PROVE  Works(w)
<1> USE ChatAssumption DEF Processes, Messages, Fields, Is, End, Goto
<1>0. /\ DOMAIN proc = Processes /\ \A p \in Processes : DOMAIN proc[p] = Fields
      /\ w \in Processes /\ w \notin Requests /\ w # old /\ Op(w).kind = "cron"
      /\ DOMAIN message = Messages /\ \A m \in Messages : DOMAIN message[m] = MessageFields
      /\ DOMAIN scheduled = Requests /\ \A v \in Workers : Op(v).kind = "cron"
  BY DEF ScheduleConsistent, Shape
<1>1. /\ proc[w].pc \in {"channel", "access", "save"} => ~message[w].exists
      /\ proc[w].pc = "recheck" => message[w].exists
      /\ proc[w].answer # "none" => proc[w].pc \in {"mark", "done"}
      /\ proc[w].answer = "ok" => message[w].exists
      /\ proc[w].answer = "refused" /\ message[w].exists =>
           message[w].deleted \/ revived \/ proc[w].broke
  BY DEF ScheduleConsistent, Honest
<1>2. CASE FindChannel(w) \/ Access(w)
  <2>1. /\ UNCHANGED <<message, scheduled, reclaimed, revived>>
        /\ proc[w].pc \in {"channel", "access"}
        /\ \/ proc' = [proc EXCEPT ![w].pc = "access", ![w].list = allowed]
           \/ proc' = [proc EXCEPT ![w].pc = "save"]
           \/ proc' = [proc EXCEPT ![w].pc = "mark", ![w].answer = "refused"]
    BY <1>0, <1>2 DEF FindChannel, Access, Step, Refuse, Keep, content, timer, past
  <2> QED
    BY <1>0, <1>1, <2>1 DEF Works, Shape, Op
<1>3. CASE Save(w)
  <2>1. /\ UNCHANGED <<scheduled, reclaimed, revived>> /\ proc[w].pc = "save"
        /\ message' = [message EXCEPT ![w] =
                         [NoMessage EXCEPT !.exists = TRUE, !.text = "written"]]
        /\ proc' = [proc EXCEPT ![w].pc = "recheck"]
    BY <1>0, <1>3 DEF Save, timer, past
  <2>2. /\ DOMAIN message' = Messages /\ \A m \in Messages \ {w} : message'[m] = message[m]
        /\ message'[w] = [NoMessage EXCEPT !.exists = TRUE, !.text = "written"]
    BY <1>0, <2>1
  <2>3. DOMAIN message'[w] = MessageFields /\ message'[w].exists
    BY <2>2 DEF NoMessage, MessageFields
  <2>4. proc'[w] = [proc[w] EXCEPT !.pc = "recheck"]
    BY <1>0, <2>1
  <2>5. /\ proc'[w].pc = "recheck" /\ proc'[w].job = proc[w].job /\ proc'[w].op = proc[w].op
        /\ proc'[w].answer = proc[w].answer /\ DOMAIN proc'[w] = Fields
    BY <1>0, <2>4
  <2>6. DOMAIN proc' = Processes /\ \A p \in Processes \ {w} : proc'[p] = proc[p]
    BY <1>0, <2>1
  <2>7. Shape'
    BY <1>0, <2>1, <2>2, <2>3, <2>5, <2>6 DEF Shape, Op
  <2> QED
    BY <1>1, <2>1, <2>2, <2>3, <2>5, <2>6, <2>7 DEF Works
<1>4. CASE Recheck(w) /\ ~Fail(w)
  <2>1. /\ UNCHANGED <<message, scheduled, reclaimed, revived>> /\ proc[w].pc = "recheck"
        /\ \/ proc' = [proc EXCEPT ![w].pc = "withdraw"]
           \/ proc' = [proc EXCEPT ![w].slipped = Swept, ![w].answer = "ok", ![w].pc = "mark"]
    BY <1>0, <1>4 DEF Recheck, Keep, content, timer, past
  <2> QED
    BY <1>0, <1>1, <2>1 DEF Works, Shape, Op
<1>5. CASE Withdraw(w) /\ ~Fail(w)
  <2>1. /\ UNCHANGED <<scheduled, reclaimed, revived>> /\ proc[w].pc = "withdraw"
        /\ message' = [message EXCEPT ![w].deleted = TRUE]
        /\ proc' = [proc EXCEPT ![w].pc = "mark", ![w].answer = "refused"]
    BY <1>0, <1>5 DEF Withdraw, timer, past
  <2> QED
    BY <1>0, <1>1, <2>1 DEF Works, Shape, Op, MessageFields
<1>6. CASE Die(w)
  <2>1. /\ UNCHANGED <<message, scheduled, reclaimed, revived>>
        /\ proc[w].pc \notin {"start", "done"}
        /\ proc' = [proc EXCEPT ![w].pc = "done", ![w].answer = "crashed"]
    BY <1>6 DEF Die, content, timer, past
  <2> QED
    BY <1>0, <1>1, <2>1 DEF Works, Shape, Op
<1>7. ~Changing(w) /\ ~FindNonce(w)
  BY <1>0 DEF Changing, FindMessage, May, ModerateFind, EditMessage, DeleteMessage,
              HideMessage, RemoveMessage, Remove, ReactFind, Toggle, ToggleOpposite, FindNonce
<1>8. CASE (Recheck(w) \/ Withdraw(w)) /\ Fail(w)
  BY <1>8, FailWorks DEF Recheck, Withdraw
<1> QED
  BY <1>2, <1>3, <1>4, <1>5, <1>6, <1>7, <1>8 DEF Sending

-----------------------------------------------------------------------------
(* Found and set to sending in one command: nobody else has the message,   *)
(* or it was there for ten minutes.                                        *)
LEMMA ClaimKeeps ==
  ASSUME ScheduleConsistent, NEW w \in Workers, ClaimDue(w)
  PROVE  ScheduleConsistent'
<1> USE ChatAssumption DEF ScheduleConsistent, Processes, Fields
<1>1. PICK s \in Requests : Due(s) /\ Take(w, s, "sending")
  BY DEF ClaimDue
<1>2. /\ proc[w].pc = "start" /\ UNCHANGED <<message, revived>>
      /\ proc' = [proc EXCEPT ![w].pc = "channel", ![w].job = s]
      /\ scheduled' = [scheduled EXCEPT ![s] = "sending"]
      /\ reclaimed \subseteq reclaimed' /\ (s \in stale => s \in reclaimed')
      /\ scheduled[s] = "pending" \/ s \in stale
      /\ scheduled[s] \in {"pending", "sending"}
  BY <1>1 DEF Take, Due, content, past
<1>3. /\ \A p \in Processes \ {w} : proc'[p] = proc[p]
      /\ proc'[w].pc = "channel" /\ proc'[w].job = s /\ proc'[w].answer = proc[w].answer
      /\ proc'[w].op = proc[w].op /\ DOMAIN proc'[w] = Fields /\ DOMAIN proc' = Processes
  BY <1>2 DEF Shape
<1>4. /\ DOMAIN scheduled' = Requests /\ scheduled'[s] = "sending"
      /\ \A t \in Requests \ {s} : scheduled'[t] = scheduled[t]
  BY <1>2 DEF Shape
<1>5. Shape'
  BY <1>2, <1>3, <1>4 DEF Shape, Op
<1>6. Honest'
  <2>1. s # Nothing
    BY DEF Messages
  <2> QED
    BY <1>2, <1>3, <2>1 DEF Honest
<1>7. proc[s].pc # "start" /\ s # w
  BY <1>2 DEF Claimed
<1>8. ASSUME NEW v \in Workers \ {w}, proc[v].job = s PROVE s \in reclaimed'
  BY <1>2, <1>8 DEF Claimed
<1>9. Claimed'
  <2>1. \A q \in Requests : proc'[q] = proc[q]
    BY <1>3
  <2>2. \A v \in Workers \ {w} : proc'[v].job = proc[v].job
    BY <1>3
  <2>3. \A v \in Workers : proc[v].job \in Requests \cup {Nothing}
    BY DEF Honest
  <2>4. \A t \in Requests : scheduled'[t] # "none" => proc'[t].pc # "start"
    BY <1>4, <1>7, <2>1 DEF Claimed
  <2>5. \A v \in Workers : proc'[v].job # Nothing => proc'[proc'[v].job].pc # "start"
    BY <1>3, <1>7, <2>1, <2>2, <2>3 DEF Claimed
  <2>6. \A t \in Requests : scheduled'[t] = "pending" => \A v \in Workers : proc'[v].job # t
    BY <1>3, <1>4, <2>2 DEF Claimed
  <2>7. \A u, v \in Workers : u # v /\ proc'[u].job = proc'[v].job /\ proc'[v].job # Nothing =>
          proc'[v].job \in reclaimed'
    BY <1>2, <1>3, <1>8, <2>2 DEF Claimed
  <2> QED
    BY <2>4, <2>5, <2>6, <2>7 DEF Claimed
<1>10. Told'
  BY <1>2, <1>3, <1>4 DEF Told, Honest
<1> QED
  BY <1>5, <1>6, <1>9, <1>10

(* The status follows the answer, if the message was not cancelled.        *)
LEMMA MarkKeeps ==
  ASSUME ScheduleConsistent, NEW w \in Workers, SetStatus(w), ~Fail(w)
  PROVE  ScheduleConsistent'
<1> USE ChatAssumption DEF ScheduleConsistent, Processes, Fields
<1> DEFINE s == proc[w].job
<1>1. /\ proc[w].pc = "mark" /\ proc' = [proc EXCEPT ![w].pc = "done"]
      /\ UNCHANGED <<message, revived, reclaimed>>
      /\ scheduled' = [scheduled EXCEPT ![s] =
           IF @ = "none" THEN "none" ELSE IF proc[w].answer = "ok" THEN "sent" ELSE "failed"]
  BY DEF SetStatus, Is, Goto, content, past
<1>2. s \in Requests /\ proc[w].answer \in {"ok", "refused"}
  BY <1>1 DEF Honest
<1>3. /\ \A p \in Processes \ {w} : proc'[p] = proc[p]
      /\ proc'[w].pc = "done" /\ proc'[w].job = s /\ proc'[w].answer = proc[w].answer
      /\ proc'[w].op = proc[w].op /\ DOMAIN proc'[w] = Fields /\ DOMAIN proc' = Processes
  BY <1>1 DEF Shape
<1>4. /\ DOMAIN scheduled' = Requests /\ \A t \in Requests \ {s} : scheduled'[t] = scheduled[t]
      /\ scheduled'[s] = IF scheduled[s] = "none" THEN "none"
                         ELSE IF proc[w].answer = "ok" THEN "sent" ELSE "failed"
  BY <1>1, <1>2 DEF Shape
<1>5. Shape'
  BY <1>1, <1>3, <1>4 DEF Shape, Op
<1>6. Honest'
  BY <1>1, <1>3 DEF Honest
<1>7. Claimed'
  <2>1. \A q \in Requests : proc'[q] = proc[q] /\ q # w
    BY <1>3
  <2>2. \A v \in Workers : proc'[v].job = proc[v].job /\ proc[v].job \in Requests \cup {Nothing}
    BY <1>3 DEF Honest
  <2>3. \A t \in Requests : /\ scheduled'[t] # "none" => scheduled[t] # "none"
                            /\ scheduled'[t] = "pending" => scheduled[t] = "pending"
    BY <1>4
  <2> QED
    BY <1>1, <2>1, <2>2, <2>3 DEF Claimed
<1>8. Told'
  <2>1. ASSUME NEW t \in Requests \ {s}, scheduled[t] \in {"sent", "failed"}
        PROVE  /\ scheduled[t] = "sent" =>
                    \E v \in Workers : proc'[v].job = t /\ message'[v].exists
               /\ scheduled[t] = "failed" => \E v \in Workers :
                    proc'[v].job = t /\ proc'[v].pc = "done" /\ proc'[v].answer = "refused"
    BY <1>1, <1>3, <2>1 DEF Told
  <2>2. scheduled'[s] = "sent" => proc'[w].job = s /\ message'[w].exists
    BY <1>1, <1>3, <1>4 DEF Honest
  <2>3. scheduled'[s] = "failed" =>
          proc'[w].job = s /\ proc'[w].pc = "done" /\ proc'[w].answer = "refused"
    BY <1>2, <1>3, <1>4
  <2> QED
    BY <1>4, <2>1, <2>2, <2>3 DEF Told
<1> QED
  BY <1>5, <1>6, <1>7, <1>8

(* A message that is scheduled is nobody's yet.                            *)
LEMMA WriteKeeps ==
  ASSUME ScheduleConsistent, NEW r \in Requests, Schedule(r)
  PROVE  ScheduleConsistent'
<1> USE DEF ScheduleConsistent
<1>1. CASE Refuse(r)
  BY <1>1, AsideKeeps, RequestMoves
     DEF Aside, Moves, Shape, Keeping, Refuse, Keep, Processes, Op, content, timer, past
<1>2. CASE ~Refuse(r)
  <2>1. /\ proc[r].pc = "start" /\ UNCHANGED <<message, reclaimed, revived>>
        /\ scheduled' = [scheduled EXCEPT ![r] = "pending"]
        /\ proc' = [proc EXCEPT ![r].pc = "done", ![r].answer = "ok"]
    BY <1>2, ChatAssumption DEF Schedule, Is, End, content, past
  <2>2. Moves(r) /\ proc'[r].pc = "done"
    BY <2>1, RequestMoves DEF Keeping, Shape, Processes
  <2>3. /\ DOMAIN scheduled' = Requests /\ scheduled'[r] = "pending"
        /\ \A t \in Requests \ {r} : scheduled'[t] = scheduled[t]
    BY <2>1 DEF Shape
  <2>4. /\ \A w \in Workers : /\ proc'[w].pc = proc[w].pc /\ proc'[w].job = proc[w].job
                               /\ proc'[w].answer = proc[w].answer
                               /\ proc'[w].op = proc[w].op /\ proc'[w].broke = proc[w].broke
        /\ \A q \in Requests : proc[q].pc # "start" => proc'[q].pc # "start"
        /\ message' = message /\ revived' = revived /\ reclaimed' = reclaimed
    BY <2>1, <2>2 DEF Moves
  <2>5. Shape'
    BY <2>2, <2>3, <2>4 DEF Shape, Moves, Op
  <2>6. Honest'
    BY <2>4 DEF Honest
  <2>7. Claimed'
    <3>1. r # Nothing
      BY ChatAssumption DEF Messages, Processes
    <3>2. \A w \in Workers : proc[w].job # r
      BY <2>1, <3>1 DEF Claimed
    <3> QED
      BY <2>2, <2>3, <2>4, <3>2 DEF Claimed, Honest
  <2>8. Told'
    BY <2>3, <2>4 DEF Told
  <2> QED
    BY <2>5, <2>6, <2>7, <2>8
<1> QED
  BY <1>1, <1>2

LEMMA ScheduleNext == ScheduleConsistent /\ [Next]_vars => ScheduleConsistent'
<1> SUFFICES ASSUME ScheduleConsistent, [Next]_vars PROVE ScheduleConsistent'
  OBVIOUS
<1>1. CASE UNCHANGED vars
  BY <1>1 DEF vars, content, timer, past, ScheduleConsistent, Shape, Honest, Claimed, Told, Op
<1>2. ASSUME NEW p \in Processes, Sending(p) \/ Changing(p) \/ Die(p)
      PROVE  ScheduleConsistent'
  <2>1. CASE p \in Workers
    BY <1>2, <2>1, WorkerSteps, WorksKeeps
  <2>2. CASE p \in Requests
    <3>1. ~Schedule(p) \/ Schedule(p)
      OBVIOUS
    <3> QED
      BY <1>2, <2>2, <3>1, RequestAside, AsideKeeps, WriteKeeps
  <2> QED
    BY <2>1, <2>2 DEF Processes
<1>3. ASSUME NEW r \in Requests, Keeping(r) PROVE ScheduleConsistent'
  BY <1>3, RequestAside, AsideKeeps, WriteKeeps
<1>4. ASSUME NEW r \in Requests, TenMinutes(r) PROVE ScheduleConsistent'
  BY <1>4 DEF TenMinutes, content, past, ScheduleConsistent, Shape, Honest, Claimed, Told, Op
<1>5. ASSUME NEW w \in Workers, ClaimDue(w) \/ SetStatus(w) PROVE ScheduleConsistent'
  <2>1. CASE SetStatus(w) /\ Fail(w)
    <3>1. proc[w].pc = "mark"
      BY <2>1 DEF SetStatus, Is
    <3> QED
      BY <2>1, <3>1, FailWorks, WorksKeeps
  <2> QED
    BY <1>5, <2>1, ClaimKeeps, MarkKeeps
<1> QED
  BY <1>1, <1>2, <1>3, <1>4, <1>5 DEF Next

-----------------------------------------------------------------------------
(***************************************************************************)
(* claimDue, setStatus: however many replicas run the cron, a message is   *)
(* posted once unless it was claimed again after ten minutes; "sent" means *)
(* that it was posted; "failed" means that no message of it can be read,   *)
(* unless an error came after it was saved or its status could not be set, *)
(* or it was claimed again, or the messages came back with the world.      *)
(***************************************************************************)
THEOREM PostedOnce == Spec => []ScheduledOnce
<1>1. ScheduleConsistent => ScheduledOnce
  <2> SUFFICES ASSUME ScheduleConsistent, NEW s \in Requests
               PROVE  /\ Cardinality(Posted(s)) > 1 => s \in reclaimed
                      /\ scheduled[s] = "sent" => Posted(s) # {}
                      /\ scheduled[s] = "failed" /\ (\E w \in Posted(s) : ~message[w].deleted) =>
                           revived \/ s \in reclaimed \/ \E w \in Posted(s) : proc[w].broke
    BY DEF ScheduledOnce
  <2> USE ChatAssumption DEF ScheduleConsistent
  <2>0. s # Nothing
    BY DEF Messages, Processes
  <2>1. ASSUME s \notin reclaimed PROVE ~(Cardinality(Posted(s)) > 1)
    <3>1. \A v, w \in Posted(s) : v = w
      BY <2>0, <2>1 DEF Posted, Claimed
    <3>2. CASE Posted(s) = {}
      BY <3>2, FS_EmptySet
    <3>3. CASE Posted(s) # {}
      <4>1. PICK w \in Posted(s) : Posted(s) = {w}
        BY <3>1, <3>3
      <4>2. Cardinality(Posted(s)) = 1
        BY <4>1, FS_Singleton
      <4> QED
        BY <4>2
    <3> QED
      BY <3>2, <3>3
  <2>2. scheduled[s] = "sent" => Posted(s) # {}
    BY DEF Told, Posted
  <2>3. ASSUME scheduled[s] = "failed", NEW w \in Posted(s), ~message[w].deleted, ~revived,
               ~\E v \in Posted(s) : proc[v].broke
        PROVE  s \in reclaimed
    <3>1. PICK v \in Workers :
            proc[v].job = s /\ proc[v].pc = "done" /\ proc[v].answer = "refused"
      BY <2>3 DEF Told
    <3>2. v # w
      BY <2>3, <3>1 DEF Honest, Posted
    <3> QED
      BY <2>0, <3>1, <3>2 DEF Claimed, Posted
  <2> QED
    BY <2>1, <2>2, <2>3
<1> QED
  BY <1>1, ScheduleInit, ScheduleNext, PTL DEF Spec


-----------------------------------------------------------------------------
(***************************************************************************)
(* Steps: what a process becomes, and what it leaves to the others.        *)
(***************************************************************************)
Process == [op: Operation, pc: PCs, job: Requests \cup {Nothing}, list: SUBSET Users,
            staff: BOOLEAN, had: BOOLEAN, slipped: BOOLEAN, raced: BOOLEAN, late: BOOLEAN,
            broke: BOOLEAN, answer: {"none", "ok", "refused", "crashed"}]

Message == [exists: BOOLEAN, deleted: BOOLEAN, hidden: BOOLEAN,
            text: {"none", "written", "edited", "tombstone"}]

Status == {"none", "pending", "sending", "sent", "failed"}

ProcTyped == proc \in [Processes -> Process]

(* What p does, as a sender, a changer or a keeper, or as a run of the cron. *)
Acts(p) ==
  \/ Sending(p) \/ Changing(p) \/ Die(p)
  \/ p \in Requests /\ Keeping(p)
  \/ p \in Workers /\ (ClaimDue(p) \/ SetStatus(p))

(* A step of p leaves the others where they are, but for the marks late    *)
(* and raced.                                                              *)
Apart(p) ==
  /\ proc' \in [Processes -> Process]
  /\ proc[p].pc # "done" /\ proc'[p].op = proc[p].op
  /\ proc[p].late => proc'[p].late
  /\ \A q \in Processes \ {p} :
       \/ proc'[q] \in {proc[q], [proc[q] EXCEPT !.late = TRUE]}
       \/ proc[q].pc \in Syncing /\ proc'[q] = [proc[q] EXCEPT !.raced = TRUE]

LEMMA Alone ==
  ASSUME ProcTyped, NEW p \in Processes, NEW q \in Process, proc[p].pc # "done",
         q.op = proc[p].op, proc[p].late => q.late, proc' = [proc EXCEPT ![p] = q]
  PROVE  Apart(p)
BY DEF ProcTyped, Apart

LEMMA GotoApart ==
  ASSUME ProcTyped, NEW p \in Processes, NEW pc \in PCs, proc[p].pc # "done", Goto(p, pc)
  PROVE  Apart(p)
<1> DEFINE q == [proc[p] EXCEPT !.pc = pc]
<1>1. q \in Process /\ q.op = proc[p].op /\ q.late = proc[p].late
  BY DEF ProcTyped, Process
<1>2. proc' = [proc EXCEPT ![p] = q]
  BY DEF Goto
<1> HIDE DEF q
<1> QED
  BY <1>1, <1>2, Alone

LEMMA EndApart ==
  ASSUME ProcTyped, NEW p \in Processes, NEW answer \in {"ok", "refused"},
         proc[p].pc # "done", End(p, answer)
  PROVE  Apart(p)
<1> DEFINE pc == IF p \in Workers THEN "mark" ELSE "done"
           q == [proc[p] EXCEPT !.pc = pc, !.answer = answer]
<1>0. pc \in PCs
  BY DEF PCs
<1>2. proc' = [proc EXCEPT ![p] = q]
  BY DEF End
<1> HIDE DEF pc
<1>1. q \in Process /\ q.op = proc[p].op /\ q.late = proc[p].late
  BY <1>0 DEF ProcTyped, Process
<1> HIDE DEF q
<1> QED
  BY <1>1, <1>2, Alone

LEMMA FailApart ==
  ASSUME ProcTyped, NEW p \in Processes, proc[p].pc # "done", Fail(p)
  PROVE  Apart(p)
<1> DEFINE pc == IF p \in Workers THEN "mark" ELSE "done"
           q == [proc[p] EXCEPT !.pc = pc, !.answer = "refused", !.broke = TRUE]
<1>1. pc \in PCs
  BY DEF PCs
<1>2. proc' = [proc EXCEPT ![p] = q]
  BY DEF Fail
<1> HIDE DEF pc
<1>3. q \in Process /\ q.op = proc[p].op /\ q.late = proc[p].late
  BY <1>1 DEF ProcTyped, Process
<1> HIDE DEF q
<1> QED
  BY <1>2, <1>3, Alone

LEMMA StepApart ==
  ASSUME ProcTyped, NEW p \in Processes, NEW pc \in PCs, NEW guard,
         proc[p].pc # "done", Step(p, guard, pc)
  PROVE  Apart(p)
BY GotoApart, EndApart DEF Step, Refuse

LEMMA OvertakingApart ==
  ASSUME ProcTyped, NEW p \in Processes, NEW pc \in {"done", "drop"}, proc[p].pc # "done",
         proc' = [Overtaking(p) EXCEPT ![p].pc = pc]
  PROVE  /\ Apart(p) /\ proc'[p].pc = pc
         /\ \A q \in Processes \ {p} :
              Is(q, Changers, "may") \/ Is(q, Changers, "write") => proc'[q].late
<1>1. /\ proc' \in [Processes -> {proc'[q] : q \in Processes}]
      /\ \A q \in Processes \ {p} : proc'[q] = Overtaking(p)[q]
      /\ proc'[p] = [[proc[p] EXCEPT !.pc = "done", !.answer = "ok"] EXCEPT !.pc = pc]
  BY DEF Overtaking
<1>2. /\ proc'[p] \in Process /\ proc'[p].op = proc[p].op /\ proc'[p].late = proc[p].late
      /\ proc'[p].pc = pc
  BY <1>1 DEF ProcTyped, Process, PCs
<1>3. ASSUME NEW q \in Processes \ {p}
      PROVE  /\ proc'[q] \in Process
             /\ proc'[q] \in {proc[q], [proc[q] EXCEPT !.late = TRUE]}
             /\ Is(q, Changers, "may") \/ Is(q, Changers, "write") => proc'[q].late
  <2>1. CASE Is(q, Changers, "may") \/ Is(q, Changers, "write")
    <3>1. proc'[q] = [proc[q] EXCEPT !.late = TRUE]
      BY <1>1, <2>1 DEF Overtaking
    <3>2. proc[q] \in Process
      BY DEF ProcTyped
    <3>3. [proc[q] EXCEPT !.late = TRUE] \in Process /\ [proc[q] EXCEPT !.late = TRUE].late
      BY <3>2 DEF Process
    <3> QED  BY <3>1, <3>3
  <2>2. CASE ~(Is(q, Changers, "may") \/ Is(q, Changers, "write"))
    <3>1. proc'[q] = proc[q]
      BY <1>1, <2>2 DEF Overtaking
    <3> QED  BY <2>2, <3>1 DEF ProcTyped
  <2> QED  BY <2>1, <2>2
<1>4. proc' \in [Processes -> Process]
  BY <1>1, <1>2, <1>3
<1> QED
  BY <1>2, <1>3, <1>4 DEF Apart

LEMMA ChangeWriteApart ==
  ASSUME ProcTyped, NEW r \in Requests, ChangeWrite(r)
  PROVE  /\ Apart(r) /\ proc'[r].pc = "role" /\ proc'[r].had = (Op(r).to = "group")
         /\ proc'[r].raced = (Others(r) # {}) /\ proc'[r].answer = proc[r].answer
         /\ \A q \in Others(r) : proc'[q] = [proc[q] EXCEPT !.raced = TRUE]
         /\ \A q \in Processes \ {r} : q \notin Others(r) => proc'[q] = proc[q]
<1>0. r \in Processes /\ Others(r) \subseteq Processes \ {r}
  BY DEF Processes, Others
<1>1. proc' = [q \in Processes |->
       IF q = r THEN [proc[r] EXCEPT !.pc = "role", !.had = (Op(r).to = "group"),
                                     !.raced = (Others(r) # {})]
       ELSE IF q \in Others(r) THEN [proc[q] EXCEPT !.raced = TRUE] ELSE proc[q]]
  BY DEF ChangeWrite
<1>2. proc'[r] = [proc[r] EXCEPT !.pc = "role", !.had = (Op(r).to = "group"),
                                 !.raced = (Others(r) # {})]
  BY <1>0, <1>1
<1>3. /\ \A q \in Others(r) : proc'[q] = [proc[q] EXCEPT !.raced = TRUE]
      /\ \A q \in Processes \ {r} : q \notin Others(r) => proc'[q] = proc[q]
  BY <1>0, <1>1
<1>9. \A q \in Others(r) : proc[q].pc \in Syncing
  BY DEF Others
<1>4. (Op(r).to = "group") \in BOOLEAN /\ (Others(r) # {}) \in BOOLEAN /\ "role" \in PCs
  BY DEF PCs
<1>5. /\ proc'[r] \in Process /\ proc'[r].op = proc[r].op /\ proc'[r].late = proc[r].late
      /\ proc'[r].pc = "role" /\ proc'[r].had = (Op(r).to = "group")
      /\ proc'[r].raced = (Others(r) # {}) /\ proc'[r].answer = proc[r].answer
  <2> DEFINE had == (Op(r).to = "group")
             raced == (Others(r) # {})
  <2>1. proc'[r] = [proc[r] EXCEPT !.pc = "role", !.had = had, !.raced = raced]
    BY <1>2
  <2>2. had \in BOOLEAN /\ raced \in BOOLEAN /\ proc[r] \in Process
    BY <1>0 DEF ProcTyped
  <2> HIDE DEF had, raced
  <2>3. /\ proc'[r] \in Process /\ proc'[r].op = proc[r].op /\ proc'[r].late = proc[r].late
        /\ proc'[r].pc = "role" /\ proc'[r].had = had
        /\ proc'[r].raced = raced /\ proc'[r].answer = proc[r].answer
    BY <1>4, <2>1, <2>2 DEF Process
  <2> QED  BY <2>3 DEF had, raced
<1>6. \A q \in Others(r) : [proc[q] EXCEPT !.raced = TRUE] \in Process
  BY <1>0 DEF ProcTyped, Process
<1>7. proc' \in [Processes -> Process]
  BY <1>0, <1>1, <1>3, <1>5, <1>6 DEF ProcTyped
<1>8. proc[r].pc # "done"
  BY DEF ChangeWrite, Is
<1> QED
  BY <1>0, <1>3, <1>5, <1>7, <1>8, <1>9 DEF Apart, ProcTyped

LEMMA StepsApart ==
  ASSUME ProcTyped, allowed \subseteq Users, NEW p \in Processes, Acts(p)
  PROVE  Apart(p)
<1> USE DEF Is
<1>0. proc[p] \in Process
  BY DEF ProcTyped
<1>a. ASSUME NEW q \in Process, q.op = proc[p].op, q.late = proc[p].late,
             proc' = [proc EXCEPT ![p] = q], proc[p].pc # "done"
      PROVE  Apart(p)
  BY <1>a, Alone
<1>1. CASE FindChannel(p)
  <2>1. CASE channel = "live"
    <3> DEFINE q == [proc[p] EXCEPT !.pc = "access", !.list = allowed]
    <3>1. q \in Process /\ q.op = proc[p].op /\ q.late = proc[p].late
      BY <1>0 DEF Process, PCs
    <3>2. proc' = [proc EXCEPT ![p] = q] /\ proc[p].pc # "done"
      BY <1>1, <2>1 DEF FindChannel
    <3> HIDE DEF q
    <3> QED  BY <1>a, <3>1, <3>2
  <2>2. CASE channel # "live"
    BY <1>1, <2>2, EndApart DEF FindChannel, Refuse
  <2> QED  BY <2>1, <2>2
<1>2. CASE Access(p) \/ FindMessage(p) \/ May(p) \/ ModerateFind(p)
  BY <1>2, StepApart DEF Access, FindMessage, May, ModerateFind, PCs
<1>3. CASE FindNonce(p) \/ Save(p) \/ Withdraw(p) \/ EditMessage(p) \/ HideMessage(p)
  BY <1>3, EndApart, GotoApart, FailApart DEF FindNonce, Save, Withdraw, EditMessage, HideMessage,
       Refuse, PCs
<1>4. CASE Recheck(p)
  <2>0. CASE Fail(p)
    BY <1>4, <2>0, FailApart DEF Recheck
  <2>1. CASE channel = "gone" /\ ~Fail(p)
    BY <1>4, <2>1, GotoApart DEF Recheck, PCs
  <2>2. CASE channel # "gone" /\ ~Fail(p)
    <3> DEFINE pc == IF p \in Workers THEN "mark" ELSE "done"
               q == [proc[p] EXCEPT !.slipped = Swept, !.answer = "ok", !.pc = pc]
    <3>1. pc \in PCs /\ Swept \in BOOLEAN
      BY DEF PCs, Swept
    <3>2. proc' = [proc EXCEPT ![p] = q] /\ proc[p].pc # "done"
      BY <1>4, <2>2 DEF Recheck
    <3> HIDE DEF pc
    <3>3. q \in Process /\ q.op = proc[p].op /\ q.late = proc[p].late
      BY <1>0, <3>1 DEF Process
    <3> HIDE DEF q
    <3> QED  BY <1>a, <3>2, <3>3
  <2> QED  BY <2>0, <2>1, <2>2
<1>5. CASE DeleteMessage(p) \/ RemoveMessage(p)
  <2>1. proc' = Overtaking(p) /\ proc[p].pc # "done"
    BY <1>5 DEF DeleteMessage, RemoveMessage, Remove
  <2>2. Overtaking(p) = [Overtaking(p) EXCEPT ![p].pc = "done"]
    <3>1. Overtaking(p)[p] = [proc[p] EXCEPT !.pc = "done", !.answer = "ok"]
      BY DEF Overtaking
    <3>2. [Overtaking(p)[p] EXCEPT !.pc = "done"] = Overtaking(p)[p]
      BY <1>0, <3>1 DEF Process
    <3> QED  BY <3>2 DEF Overtaking
  <2> QED  BY <2>1, <2>2, OvertakingApart
<1>6. CASE ReactFind(p)
  <2>1. CASE ~message[old].deleted
    <3> DEFINE had == By(p) \in reacted
               q == [proc[p] EXCEPT !.pc = "channel", !.had = had]
    <3>2. proc' = [proc EXCEPT ![p] = q] /\ proc[p].pc # "done"
      BY <1>6, <2>1 DEF ReactFind
    <3>3. had \in BOOLEAN
      OBVIOUS
    <3> HIDE DEF had
    <3>1. q \in Process /\ q.op = proc[p].op /\ q.late = proc[p].late
      BY <1>0, <3>3 DEF Process, PCs
    <3> HIDE DEF q
    <3> QED  BY <1>a, <3>1, <3>2
  <2>2. CASE message[old].deleted
    BY <1>6, <2>2, EndApart DEF ReactFind, Refuse
  <2> QED  BY <2>1, <2>2
<1>7. CASE Toggle(p) \/ ToggleOpposite(p)
  BY <1>7, EndApart, GotoApart DEF Toggle, ToggleOpposite, React, Refuse, PCs
<1>8. CASE Die(p)
  <2> DEFINE q == [proc[p] EXCEPT !.pc = "done", !.answer = "crashed"]
  <2>1. q \in Process /\ q.op = proc[p].op /\ q.late = proc[p].late
    BY <1>0 DEF Process, PCs
  <2>2. proc' = [proc EXCEPT ![p] = q] /\ proc[p].pc # "done"
    BY <1>8 DEF Die
  <2> HIDE DEF q
  <2> QED  BY <1>a, <2>1, <2>2
<1>9. CASE p \in Requests /\ (DropFind(p) \/ ChangeFind(p) \/ CancelFind(p))
  BY <1>9, StepApart DEF DropFind, ChangeFind, CancelFind, PCs
<1>10. CASE p \in Requests /\ Sweep(p)
  BY <1>10, OvertakingApart DEF Sweep
<1>11. CASE p \in Requests /\ (Drop(p) \/ CloseWorld(p) \/ RestoreWorld(p) \/ WorldChannel(p)
                               \/ WorldMessages(p) \/ SyncAllow(p) \/ Schedule(p)
                               \/ CancelDelete(p))
  BY <1>11, EndApart, GotoApart DEF Drop, CloseWorld, RestoreWorld, WorldChannel,
       WorldMessages, SyncAllow, Schedule, CancelDelete, Refuse, PCs
<1>12. CASE p \in Requests /\ ChangeWrite(p)
  BY <1>12, ChangeWriteApart
<1>13. CASE p \in Requests /\ SyncRole(p)
  <2> DEFINE q == [proc[p] EXCEPT !.pc = "list", !.staff = (member[Op(p).user] = "staff")]
  <2>1. q \in Process /\ q.op = proc[p].op /\ q.late = proc[p].late
    BY <1>0 DEF Process, PCs
  <2>2. proc' = [proc EXCEPT ![p] = q] /\ proc[p].pc # "done"
    BY <1>13 DEF SyncRole
  <2> HIDE DEF q
  <2> QED  BY <1>a, <2>1, <2>2
<1>14. CASE p \in Requests /\ SyncList(p)
  <2> DEFINE u == Op(p).user
             should == proc[p].staff \/ proc[p].had
             list == IF should THEN allowed \cup {u} ELSE allowed \ {u}
             q == [proc[p] EXCEPT !.pc = "allow", !.list = list]
             s == [proc[p] EXCEPT !.pc = "done", !.answer = "ok", !.raced = TRUE]
  <2>1. u \in Users
    BY <1>0 DEF Op, Process, Operation
  <2>2. list \in SUBSET Users
    BY <2>1
  <2>3. proc[p].pc # "done" /\ (\/ proc' = [proc EXCEPT ![p] = q]
                               \/ End(p, "ok")
                               \/ proc' = [proc EXCEPT ![p] = s])
    BY <1>14 DEF SyncList
  <2> HIDE DEF list
  <2>4. q \in Process /\ q.op = proc[p].op /\ q.late = proc[p].late
    BY <1>0, <2>2 DEF Process, PCs
  <2>5. s \in Process /\ s.op = proc[p].op /\ s.late = proc[p].late
    BY <1>0 DEF Process, PCs
  <2> HIDE DEF q, s
  <2> QED  BY <1>a, <2>3, <2>4, <2>5, EndApart
<1>15. CASE p \in Workers /\ ClaimDue(p)
  <2>1. PICK s \in Requests : Due(s) /\ Take(p, s, "sending")
    BY <1>15 DEF ClaimDue
  <2> DEFINE q == [proc[p] EXCEPT !.pc = "channel", !.job = s]
  <2>2. q \in Process /\ q.op = proc[p].op /\ q.late = proc[p].late
    BY <1>0 DEF Process, PCs
  <2>3. proc' = [proc EXCEPT ![p] = q] /\ proc[p].pc # "done"
    BY <2>1 DEF Take
  <2> HIDE DEF q
  <2> QED  BY <1>a, <2>2, <2>3
<1>16. CASE p \in Workers /\ SetStatus(p)
  BY <1>16, GotoApart, FailApart DEF SetStatus, PCs
<1> QED
  BY <1>1, <1>2, <1>3, <1>4, <1>5, <1>6, <1>7, <1>8, <1>9, <1>10, <1>11, <1>12, <1>13, <1>14,
     <1>15, <1>16 DEF Acts, Sending, Changing, Keeping

-----------------------------------------------------------------------------
(***************************************************************************)
(* Types.                                                                  *)
(***************************************************************************)
LEMMA ActsInNext ==
  Next => \/ \E p \in Processes : Acts(p)
          \/ \E r \in Requests : TenMinutes(r)
BY DEF Next, Acts, Processes

(* Which actions write what. *)
LEMMA PlaceWritten ==
  ASSUME NEW p \in Processes, Acts(p), ~UNCHANGED place
  PROVE  p \in Requests /\ (\/ Drop(p) \/ CloseWorld(p) \/ RestoreWorld(p)
                            \/ WorldChannel(p) \/ ChangeWrite(p) \/ SyncAllow(p))
BY DEF Acts, Sending, FindChannel, Access, FindNonce, Save, Recheck, Withdraw, Changing,
     FindMessage, May, ModerateFind, EditMessage, DeleteMessage, HideMessage, RemoveMessage,
     Remove, Rewrite, ReactFind, Toggle, ToggleOpposite, React, Die, Keeping, DropFind, Sweep,
     WorldMessages, ChangeFind, SyncRole, SyncList, Schedule, CancelFind, CancelDelete,
     ClaimDue, Take, SetStatus, Step, Refuse, Fail, Keep

LEMMA MessageWritten ==
  ASSUME NEW p \in Processes, Acts(p), ~UNCHANGED <<message, removed, revived>>
  PROVE  \/ Save(p) \/ Withdraw(p) \/ EditMessage(p) \/ DeleteMessage(p) \/ HideMessage(p)
         \/ RemoveMessage(p)
         \/ p \in Requests /\ (Sweep(p) \/ WorldMessages(p))
BY DEF Acts, Sending, FindChannel, Access, FindNonce, Recheck, Changing,
     FindMessage, May, ModerateFind, ReactFind, Toggle, ToggleOpposite, React, Die, Keeping,
     DropFind, Drop, CloseWorld, RestoreWorld, WorldChannel, ChangeFind, ChangeWrite, SyncRole,
     SyncList, SyncAllow, Schedule, CancelFind, CancelDelete, ClaimDue, Take, SetStatus, Step,
     Refuse, Fail, Keep, content, past

LEMMA TimerWritten ==
  ASSUME NEW p \in Processes, Acts(p), ~UNCHANGED <<timer, faults>>
  PROVE  \/ Die(p) \/ Fail(p)
         \/ p \in Requests /\ (Schedule(p) \/ CancelDelete(p))
         \/ p \in Workers /\ (ClaimDue(p) \/ SetStatus(p))
BY DEF Acts, Sending, FindChannel, Access, FindNonce, Save, Recheck, Withdraw, Changing,
     FindMessage, May, ModerateFind, EditMessage, DeleteMessage, HideMessage, RemoveMessage,
     Remove, Rewrite, ReactFind, Toggle, ToggleOpposite, React, Keeping, DropFind, Sweep,
     Drop, CloseWorld, RestoreWorld, WorldChannel, WorldMessages, ChangeFind, ChangeWrite,
     SyncRole, SyncList, SyncAllow, CancelFind, Step, Refuse, Keep

-----------------------------------------------------------------------------
PlaceTyped ==
  /\ world \in BOOLEAN /\ member \in [Users -> Standings]
  /\ channel \in {"live", "hidden", "gone"} /\ allowed \subseteq Users
ContentTyped ==
  /\ message \in [Messages -> Message] /\ reacted \subseteq Users
  /\ removed \subseteq {"author", "moderation", "channel"} /\ revived \in BOOLEAN
TimerTyped ==
  /\ scheduled \in [Requests -> Status] /\ stale \subseteq Requests
  /\ reclaimed \subseteq Requests /\ faults \in 0..MaxFaults

LEMMA TypeParts == TypeOK <=> PlaceTyped /\ ContentTyped /\ TimerTyped /\ ProcTyped
BY DEF TypeOK, PlaceTyped, ContentTyped, TimerTyped, ProcTyped, Process, Message, Status

LEMMA OpTyped ==
  ASSUME ProcTyped, NEW p \in Processes
  PROVE  /\ Op(p).user \in Users /\ Op(p).to \in Standings /\ Op(p).by \in Users
         /\ Op(p).of \in Requests \cup {Nothing} /\ Op(p).kind \in Kinds
         /\ proc[p].list \subseteq Users /\ proc[p].job \in Requests \cup {Nothing}
BY DEF ProcTyped, Process, Op, Operation

LEMMA PlaceStep ==
  ASSUME TypeOK, NEW p \in Processes, Acts(p)
  PROVE  PlaceTyped'
<1>0. PlaceTyped /\ ProcTyped
  BY TypeParts
<1>1. CASE UNCHANGED place
  BY <1>0, <1>1 DEF place, PlaceTyped
<1>2. CASE p \in Requests /\ ChangeWrite(p)
  <2>1. Op(p).user \in Users /\ Op(p).to \in Standings
    BY <1>0, OpTyped
  <2> QED  BY <1>0, <1>2, <2>1 DEF ChangeWrite, PlaceTyped
<1>3. CASE p \in Requests /\ SyncAllow(p)
  <2>1. proc[p].list \subseteq Users
    BY <1>0, OpTyped
  <2> QED  BY <1>0, <1>3, <2>1 DEF SyncAllow, PlaceTyped
<1>4. CASE Drop(p) \/ CloseWorld(p) \/ RestoreWorld(p) \/ WorldChannel(p)
  BY <1>0, <1>4 DEF Drop, CloseWorld, RestoreWorld, WorldChannel, Refuse, Keep, place, PlaceTyped
<1> QED
  BY <1>1, <1>2, <1>3, <1>4, PlaceWritten

LEMMA EveryTyped ==
  ASSUME ContentTyped, NEW p \in Processes, EveryMessage(p)
  PROVE  message' \in [Messages -> Message]
<1>1. ASSUME NEW m \in Messages
      PROVE  [message[m] EXCEPT !.deleted = (Op(p).kind # "restore"),
                                !.text = IF Op(p).kind = "drop" THEN "none" ELSE @] \in Message
  <2> DEFINE deleted == (Op(p).kind # "restore")
             text == IF Op(p).kind = "drop" THEN "none" ELSE message[m].text
  <2>1. message[m] \in Message /\ deleted \in BOOLEAN
    BY <1>1 DEF ContentTyped
  <2>2. text \in {"none", "written", "edited", "tombstone"}
    BY <2>1 DEF Message
  <2> HIDE DEF deleted, text
  <2>3. [message[m] EXCEPT !.deleted = deleted, !.text = text] \in Message
    BY <2>1, <2>2 DEF Message
  <2> QED  BY <2>3 DEF deleted, text
<1> QED
  BY <1>1 DEF EveryMessage, ContentTyped

LEMMA ContentStep ==
  ASSUME TypeOK, NEW p \in Processes, Acts(p)
  PROVE  ContentTyped'
<1>0. ContentTyped /\ ProcTyped
  BY TypeParts
<1>a. By(p) \in Users
  <2>1. Op(p).by \in Users /\ proc[p].job \in Requests \cup {Nothing}
    BY <1>0, OpTyped
  <2>2. proc[p].job # Nothing => Op(proc[p].job).by \in Users
    BY <1>0, <2>1, OpTyped DEF Processes
  <2> QED  BY <2>1, <2>2 DEF By
<1>b. ASSUME NEW m \in Messages, NEW d \in Message, message' = [message EXCEPT ![m] = d]
      PROVE  message' \in [Messages -> Message]
  BY <1>0, <1>b DEF ContentTyped
<1>c. old \in Messages /\ p \in Messages /\ \A m \in Messages : message[m] \in Message
  BY <1>0 DEF Messages, ContentTyped
<1>r. reacted' \subseteq Users
  <2>1. CASE UNCHANGED reacted
    BY <1>0, <2>1 DEF ContentTyped
  <2>2. CASE Toggle(p) \/ ToggleOpposite(p)
    BY <1>0, <1>a, <2>2 DEF Toggle, ToggleOpposite, React, Refuse, Keep, content, ContentTyped
  <2>3. ~(Toggle(p) \/ ToggleOpposite(p)) => UNCHANGED reacted
    BY DEF Acts, Sending, FindChannel, Access, FindNonce, Save, Recheck, Withdraw, Changing,
     FindMessage, May, ModerateFind, EditMessage, DeleteMessage, HideMessage, RemoveMessage,
     Remove, Rewrite, ReactFind, Die, Keeping, DropFind, Sweep,
     Drop, CloseWorld, RestoreWorld, WorldChannel, WorldMessages, ChangeFind, ChangeWrite,
     SyncRole, SyncList, SyncAllow, Schedule, CancelFind, CancelDelete, ClaimDue, Take,
     SetStatus, Step, Refuse, Fail, Keep, content
  <2> QED  BY <2>1, <2>2, <2>3
<1> SUFFICES /\ message' \in [Messages -> Message]
             /\ removed' \subseteq {"author", "moderation", "channel"} /\ revived' \in BOOLEAN
  BY <1>r DEF ContentTyped
<1>1. CASE UNCHANGED <<message, removed, revived>>
  BY <1>0, <1>1 DEF ContentTyped
<1>2. CASE Save(p)
  <2>1. [NoMessage EXCEPT !.exists = TRUE, !.text = "written"] \in Message
    BY DEF NoMessage, Message
  <2>2. UNCHANGED <<removed, revived>>
    BY <1>2 DEF Save, Refuse, Keep, past
  <2>3. \/ UNCHANGED message
        \/ message' = [message EXCEPT ![p] = [NoMessage EXCEPT !.exists = TRUE, !.text = "written"]]
    BY <1>2 DEF Save, Refuse, Keep, content
  <2> QED  BY <1>0, <1>b, <1>c, <2>1, <2>2, <2>3 DEF ContentTyped
<1>3. CASE Withdraw(p) /\ ~Fail(p)
  <2> DEFINE d == [message[p] EXCEPT !.deleted = TRUE]
  <2>1. d \in Message
    BY <1>c DEF Message
  <2>2. message' = [message EXCEPT ![p] = d] /\ UNCHANGED <<removed, revived>>
    BY <1>3 DEF Withdraw, past
  <2> HIDE DEF d
  <2> QED  BY <1>0, <1>b, <1>c, <2>1, <2>2 DEF ContentTyped
<1>4. CASE EditMessage(p) \/ DeleteMessage(p)
  <2> DEFINE d == [message[old] EXCEPT !.text = "edited"]
             e == [message[old] EXCEPT !.text = "tombstone", !.deleted = TRUE]
  <2>1. d \in Message /\ e \in Message
    BY <1>c DEF Message
  <2>2. /\ message' = [message EXCEPT ![old] = d] \/ message' = [message EXCEPT ![old] = e]
        /\ removed' \in {removed, removed \cup {"author"}} /\ UNCHANGED revived
    BY <1>4 DEF EditMessage, DeleteMessage, Rewrite, past
  <2> HIDE DEF d, e
  <2> QED  BY <1>0, <1>b, <1>c, <2>1, <2>2 DEF ContentTyped
<1>5. CASE HideMessage(p) \/ RemoveMessage(p)
  <2> DEFINE hidden == (Op(p).kind = "hide")
             d == [message[old] EXCEPT !.hidden = hidden]
             e == [message[old] EXCEPT !.text = "tombstone", !.deleted = TRUE, !.hidden = FALSE]
  <2>1. hidden \in BOOLEAN
    OBVIOUS
  <2>2. /\ message' = [message EXCEPT ![old] = d] \/ message' = [message EXCEPT ![old] = e]
        /\ removed' \in {removed, removed \cup {"moderation"}} /\ UNCHANGED revived
    BY <1>5 DEF HideMessage, RemoveMessage, Remove, Rewrite, past
  <2> HIDE DEF hidden
  <2>3. d \in Message /\ e \in Message
    BY <1>c, <2>1 DEF Message
  <2> HIDE DEF d, e
  <2> QED  BY <1>0, <1>b, <1>c, <2>2, <2>3 DEF ContentTyped
<1>6. CASE Sweep(p)
  BY <1>0, <1>6, EveryTyped DEF Sweep, ContentTyped
<1>7. CASE WorldMessages(p)
  BY <1>0, <1>7, EveryTyped DEF WorldMessages, ContentTyped
<1>8. CASE Fail(p)
  BY <1>1, <1>8 DEF Fail, content, past
<1> QED
  BY <1>1, <1>2, <1>3, <1>4, <1>5, <1>6, <1>7, <1>8, MessageWritten

LEMMA TimerStep ==
  ASSUME TypeOK, NEW p \in Processes, Acts(p)
  PROVE  TimerTyped'
<1>0. TimerTyped /\ ProcTyped /\ MaxFaults \in Nat
  BY TypeParts, ChatAssumption
<1>1. CASE UNCHANGED <<timer, faults>>
  BY <1>0, <1>1 DEF timer, TimerTyped
<1>2. CASE Die(p) \/ Fail(p)
  BY <1>0, <1>2 DEF Die, Fail, timer, TimerTyped
<1>3. CASE Schedule(p)
  BY <1>0, <1>3 DEF Schedule, Refuse, Keep, timer, TimerTyped, Status
<1>4. CASE CancelDelete(p)
  BY <1>0, <1>4 DEF CancelDelete, TimerTyped, Status
<1>5. CASE ClaimDue(p)
  BY <1>0, <1>5 DEF ClaimDue, Take, TimerTyped, Status
<1>6. CASE SetStatus(p) /\ ~Fail(p)
  BY <1>0, <1>6 DEF SetStatus, TimerTyped, Status
<1> QED
  BY <1>1, <1>2, <1>3, <1>4, <1>5, <1>6, TimerWritten

LEMMA TypesInit == Init => TypeOK
<1> SUFFICES ASSUME Init PROVE TypeOK
  OBVIOUS
<1>1. PICK plan \in Plans :
        proc = [p \in Processes |->
                 Idle(IF p \in Requests THEN plan[p]
                      ELSE [kind |-> "cron", by |-> Author, of |-> Nothing,
                            user |-> Author, to |-> "other"])]
  BY DEF Init
<1>2. \A o \in Operation : Idle(o) \in Process
  BY DEF Idle, Process, PCs
<1>3. [kind |-> "cron", by |-> Author, of |-> Nothing, user |-> Author, to |-> "other"]
        \in Operation
  BY ChatAssumption DEF Operation, Kinds, Standings
<1>4. \A p \in Requests : plan[p] \in Operation
  BY ChatAssumption
<1>5. ProcTyped
  BY <1>1, <1>2, <1>3, <1>4 DEF ProcTyped
<1>6. PlaceTyped
  BY ChatAssumption DEF Init, PlaceTyped
<1>7. ContentTyped
  <2>1. NoMessage \in Message /\ [NoMessage EXCEPT !.exists = TRUE, !.text = "written"] \in Message
    BY DEF NoMessage, Message
  <2> QED  BY <2>1 DEF Init, ContentTyped
<1>8. TimerTyped
  BY ChatAssumption DEF Init, TimerTyped, Status
<1> QED
  BY <1>5, <1>6, <1>7, <1>8, TypeParts

LEMMA TypesNext == TypeOK /\ [Next]_vars => TypeOK'
<1> SUFFICES ASSUME TypeOK, [Next]_vars PROVE TypeOK'
  OBVIOUS
<1>0. PlaceTyped /\ ContentTyped /\ TimerTyped /\ ProcTyped
  BY TypeParts
<1>a. PlaceTyped' /\ ContentTyped' /\ TimerTyped' /\ ProcTyped' => TypeOK'
  BY DEF TypeOK, PlaceTyped, ContentTyped, TimerTyped, ProcTyped, Process, Message, Status
<1>1. CASE UNCHANGED vars
  BY <1>1 DEF vars, place, content, timer, past, TypeOK
<1>2. ASSUME NEW p \in Processes, Acts(p) PROVE TypeOK'
  <2>1. Apart(p)
    BY <1>0, <1>2, StepsApart DEF PlaceTyped
  <2>2. ProcTyped'
    BY <2>1 DEF Apart, ProcTyped, Process
  <2> QED  BY <1>2, <1>a, <2>2, PlaceStep, ContentStep, TimerStep
<1>3. ASSUME NEW r \in Requests, TenMinutes(r) PROVE TypeOK'
  <2>1. PlaceTyped' /\ ContentTyped' /\ ProcTyped'
    BY <1>0, <1>3 DEF TenMinutes, place, content, past, PlaceTyped, ContentTyped, ProcTyped
  <2>2. TimerTyped'
    BY <1>0, <1>3 DEF TenMinutes, TimerTyped
  <2> QED  BY <1>a, <2>1, <2>2
<1> QED
  BY <1>1, <1>2, <1>3, ActsInNext

(***************************************************************************)
(* Every variable keeps its type: ChatService never leaves a half-made     *)
(* message, an unknown status or a member who is not a user.               *)
(***************************************************************************)
THEOREM ChatTypes == Spec => []TypeOK
BY TypesInit, TypesNext, PTL DEF Spec

-----------------------------------------------------------------------------
(***************************************************************************)
(* Deleted for good.                                                       *)
(***************************************************************************)
(* What a step of p leaves to the others. *)
LEMMA ApartLeaves ==
  ASSUME ProcTyped, NEW p \in Processes, Apart(p)
  PROVE  /\ \A q \in Processes : proc'[q].op = proc[q].op /\ (proc[q].late => proc'[q].late)
         /\ \A q \in Processes \ {p} :
              /\ proc'[q].pc = proc[q].pc /\ proc'[q].answer = proc[q].answer
              /\ proc'[q].job = proc[q].job /\ proc'[q].list = proc[q].list
              /\ proc'[q].staff = proc[q].staff /\ proc'[q].had = proc[q].had
              /\ proc'[q].slipped = proc[q].slipped /\ proc'[q].broke = proc[q].broke
              /\ proc[q].raced => proc'[q].raced
              /\ proc'[q].raced => proc[q].raced \/ proc[q].pc \in Syncing
<1>1. ASSUME NEW q \in Processes \ {p}
      PROVE  /\ proc'[q].op = proc[q].op /\ (proc[q].late => proc'[q].late)
             /\ proc'[q].pc = proc[q].pc /\ proc'[q].answer = proc[q].answer
             /\ proc'[q].job = proc[q].job /\ proc'[q].list = proc[q].list
             /\ proc'[q].staff = proc[q].staff /\ proc'[q].had = proc[q].had
             /\ proc'[q].slipped = proc[q].slipped /\ proc'[q].broke = proc[q].broke
             /\ proc[q].raced => proc'[q].raced
             /\ proc'[q].raced => proc[q].raced \/ proc[q].pc \in Syncing
  <2>1. proc[q] \in Process
    BY DEF ProcTyped
  <2>2. CASE proc'[q] = proc[q]
    BY <2>2
  <2>3. CASE proc'[q] = [proc[q] EXCEPT !.late = TRUE]
    BY <2>1, <2>3 DEF Process
  <2>4. CASE proc[q].pc \in Syncing /\ proc'[q] = [proc[q] EXCEPT !.raced = TRUE]
    BY <2>1, <2>4 DEF Process
  <2> QED  BY <2>2, <2>3, <2>4 DEF Apart
<1> QED
  BY <1>1 DEF Apart

-----------------------------------------------------------------------------
(* Who has found the message and will write over it. *)
Open(p) == Op(p).kind \in Changers /\ proc[p].pc \in {"may", "write"}

(* Once it was deleted its text is gone, it is marked deleted, so that it  *)
(* is not found again, and nobody who found it before is on his way.       *)
Buried ==
  /\ removed # {} => /\ message[old].deleted
                     /\ message[old].text \notin {"written", "edited"}
                     /\ \A p \in Processes : ~Open(p)
  /\ "moderation" \in removed => ~message[old].hidden

SomeLate == \E p \in Processes : proc[p].late

Removed == message[old].exists /\ (revived \/ SomeLate \/ Buried)

(* Only a message that is not deleted is found to be changed. *)
LEMMA Opened ==
  ASSUME ProcTyped, NEW p \in Processes, Acts(p), Apart(p)
  PROVE  /\ \A q \in Processes \ {p} : Open(q)' <=> Open(q)
         /\ Open(p)' => Open(p) \/ ~message[old].deleted
<1>1. \A q \in Processes : Open(q)' <=> proc'[q].op.kind \in Changers
                                        /\ proc'[q].pc \in {"may", "write"}
  BY DEF Open, Op
<1>2. \A q \in Processes \ {p} : Open(q)' <=> Open(q)
  BY <1>1, ApartLeaves DEF Open, Op
<1>3. ASSUME proc'[p].op.kind \in Changers, proc'[p].pc \in {"may", "write"},
             message[old].deleted
      PROVE  Open(p)
  <2> USE <1>3 DEF Is, Changers
  <2>0. proc[p].op.kind \in Changers /\ proc \in [Processes -> Process]
    BY ApartLeaves DEF ProcTyped
  <2>a. ASSUME NEW pc, Goto(p, pc) PROVE proc'[p].pc = pc
    BY <2>0, <2>a DEF Goto
  <2>b. ASSUME NEW answer, End(p, answer) PROVE FALSE
    <3>1. proc'[p] = [proc[p] EXCEPT !.pc = IF p \in Workers THEN "mark" ELSE "done",
                                     !.answer = answer]
      BY <2>0, <2>b DEF End
    <3> QED  BY <2>0, <3>1 DEF Process
  <2>1. CASE May(p)
    BY <2>0, <2>1 DEF May, Open, Op
  <2>2. ~FindMessage(p) /\ ~ModerateFind(p)
    BY <2>b DEF FindMessage, ModerateFind, Step, Refuse
  <2>3. CASE EditMessage(p) \/ HideMessage(p)
    BY <2>b, <2>3 DEF EditMessage, HideMessage
  <2>4. CASE DeleteMessage(p) \/ RemoveMessage(p)
    <3>1. proc'[p] = [proc[p] EXCEPT !.pc = "done", !.answer = "ok"]
      BY <2>4 DEF DeleteMessage, RemoveMessage, Remove, Overtaking
    <3> QED  BY <2>0, <3>1 DEF Process
  <2>5. CASE Die(p)
    BY <2>0, <2>5 DEF Die, Process
  <2>6. CASE p \in Workers /\ ClaimDue(p)
    BY <2>0, <2>6 DEF ClaimDue, Take, Process
  <2>7. CASE p \in Workers /\ SetStatus(p)
    <3>1. CASE Fail(p)
      BY <2>0, <3>1 DEF Fail, Process
    <3> QED  BY <2>a, <2>7, <3>1 DEF SetStatus
  <2>8. CASE Sending(p)
    BY <2>0, <2>8 DEF Sending, FindChannel, Access, FindNonce, Save, Recheck, Withdraw, Op
  <2>9. CASE ReactFind(p) \/ Toggle(p) \/ ToggleOpposite(p)
    BY <2>0, <2>9 DEF ReactFind, Toggle, ToggleOpposite, Op
  <2>10. CASE p \in Requests /\ Keeping(p)
    BY <2>0, <2>10 DEF Keeping, DropFind, Sweep, Drop, CloseWorld, RestoreWorld, WorldChannel,
         WorldMessages, ChangeFind, ChangeWrite, SyncRole, SyncList, SyncAllow, Schedule,
         CancelFind, CancelDelete, Op
  <2> QED
    BY <2>1, <2>2, <2>3, <2>4, <2>5, <2>6, <2>7, <2>8, <2>9, <2>10 DEF Acts, Changing
<1> QED
  BY <1>1, <1>2, <1>3

(* Who removes it leaves nobody behind who had found it, or marks him late. *)
LEMMA Overtaken ==
  ASSUME ProcTyped, NEW p \in Processes,
         DeleteMessage(p) \/ RemoveMessage(p) \/ (p \in Requests /\ Sweep(p))
  PROVE  SomeLate' \/ \A q \in Processes : ~Open(q)'
<1>1. PICK pc \in {"done", "drop"} : proc' = [Overtaking(p) EXCEPT ![p].pc = pc]
  <2>1. CASE DeleteMessage(p) \/ RemoveMessage(p)
    <3>1. proc' = Overtaking(p)
      BY <2>1 DEF DeleteMessage, RemoveMessage, Remove
    <3>2. Overtaking(p)[p] = [proc[p] EXCEPT !.pc = "done", !.answer = "ok"]
      BY DEF Overtaking
    <3>3. [Overtaking(p)[p] EXCEPT !.pc = "done"] = Overtaking(p)[p]
      BY <3>2 DEF ProcTyped, Process
    <3>4. Overtaking(p) = [Overtaking(p) EXCEPT ![p].pc = "done"]
      BY <3>3 DEF Overtaking
    <3> QED  BY <3>1, <3>4
  <2>2. CASE Sweep(p)
    BY <2>2 DEF Sweep
  <2> QED  BY <2>1, <2>2
<1>2. proc[p].pc # "done"
  BY DEF DeleteMessage, RemoveMessage, Remove, Sweep, Is
<1>3. /\ Apart(p) /\ proc'[p].pc = pc
      /\ \A q \in Processes \ {p} :
           Is(q, Changers, "may") \/ Is(q, Changers, "write") => proc'[q].late
  BY <1>1, <1>2, OvertakingApart
<1>4. \A q \in Processes \ {p} : Open(q) => proc'[q].late
  BY <1>3 DEF Open, Is
<1>5. \A q \in Processes : Open(q)' <=> proc'[q].op.kind \in Changers
                                        /\ proc'[q].pc \in {"may", "write"}
  BY DEF Open, Op
<1>6. \A q \in Processes \ {p} : Open(q)' => Open(q)
  BY <1>3, <1>5, ApartLeaves DEF Open, Op
<1>7. ~Open(p)'
  BY <1>3, <1>5
<1> QED
  BY <1>4, <1>6, <1>7 DEF SomeLate

LEMMA RemovedStep ==
  ASSUME TypeOK, Removed, NEW p \in Processes, Acts(p)
  PROVE  Removed'
<1>0. /\ ProcTyped /\ ContentTyped /\ Apart(p) /\ message[old] \in Message /\ message[p] \in Message
      /\ old \in Messages /\ p \in Messages /\ p # old /\ message \in [Messages -> Message]
  <2>1. ProcTyped /\ ContentTyped /\ allowed \subseteq Users
    BY TypeParts DEF PlaceTyped
  <2>2. old \in Messages /\ p \in Messages /\ p # old
    BY ChatAssumption DEF Messages
  <2> QED  BY <2>1, <2>2, StepsApart DEF ContentTyped
<1>1. SomeLate => SomeLate'
  BY <1>0, ApartLeaves DEF SomeLate
<1>2. /\ \A q \in Processes \ {p} : Open(q)' <=> Open(q)
      /\ Open(p)' => Open(p) \/ ~message[old].deleted
  BY <1>0, Opened
<1>a. Buried' <=>
        /\ removed' # {} => /\ message'[old].deleted
                            /\ message'[old].text \notin {"written", "edited"}
                            /\ \A q \in Processes : ~Open(q)'
        /\ "moderation" \in removed' => ~message'[old].hidden
  BY DEF Buried, Open, Op
<1>b. ASSUME message'[old].exists, revived => revived', Buried => revived' \/ SomeLate' \/ Buried'
      PROVE  Removed'
  BY <1>1, <1>b DEF Removed, SomeLate
<1>c. ASSUME message'[old] = message[old], UNCHANGED <<removed, revived>> PROVE Removed'
  BY <1>2, <1>a, <1>b, <1>c DEF Buried, Removed
<1>3. CASE UNCHANGED <<message, removed, revived>>
  BY <1>3, <1>c
<1>4. CASE Save(p) \/ Withdraw(p)
  <2>1. /\ \/ UNCHANGED message \/ \E d : message' = [message EXCEPT ![p] = d]
        /\ UNCHANGED <<removed, revived>>
    BY <1>4 DEF Save, Withdraw, Refuse, Fail, Keep, content, past
  <2> QED  BY <1>0, <1>c, <2>1
<1>5. CASE EditMessage(p) \/ HideMessage(p)
  <2>1. Open(p) /\ UNCHANGED <<removed, revived>>
    BY <1>5 DEF EditMessage, HideMessage, Is, Open, Changers, past
  <2>2. message'[old].exists
    BY <1>0, <1>5 DEF EditMessage, HideMessage, Rewrite, Message, Removed
  <2>3. Buried => removed = {}
    BY <2>1 DEF Buried
  <2> QED  BY <1>a, <1>b, <2>1, <2>2, <2>3
<1>6. CASE DeleteMessage(p) \/ RemoveMessage(p)
  <2>1. SomeLate' \/ \A q \in Processes : ~Open(q)'
    BY <1>0, <1>6, Overtaken
  <2>2. /\ message'[old].exists /\ message'[old].deleted /\ message'[old].text = "tombstone"
        /\ message'[old].hidden = IF RemoveMessage(p) THEN FALSE ELSE message[old].hidden
        /\ UNCHANGED revived
    <3>1. CASE RemoveMessage(p)
      BY <1>0, <3>1 DEF RemoveMessage, Remove, Rewrite, Message, Removed
    <3>2. CASE DeleteMessage(p) /\ ~RemoveMessage(p)
      BY <1>0, <3>2 DEF DeleteMessage, Rewrite, Message, Removed
    <3> QED  BY <1>6, <3>1, <3>2
  <2>3. "moderation" \in removed' => RemoveMessage(p) \/ "moderation" \in removed
    BY <1>6 DEF DeleteMessage
  <2> QED  BY <1>a, <1>b, <2>1, <2>2, <2>3 DEF Buried
<1>7. CASE p \in Requests /\ Sweep(p)
  <2>1. SomeLate' \/ \A q \in Processes : ~Open(q)'
    BY <1>0, <1>7, Overtaken
  <2>2. message'[old] = [message[old] EXCEPT !.deleted = TRUE, !.text = "none"]
    BY <1>0, <1>7 DEF Sweep, EveryMessage, Is, Removed
  <2>3. /\ message'[old].exists /\ message'[old].deleted /\ message'[old].text = "none"
        /\ message'[old].hidden = message[old].hidden
    BY <1>0, <2>2 DEF Message, Removed
  <2>4. UNCHANGED revived /\ ("moderation" \in removed' => "moderation" \in removed)
    BY <1>7 DEF Sweep
  <2> QED  BY <1>a, <1>b, <2>1, <2>3, <2>4 DEF Buried
<1>8. CASE p \in Requests /\ WorldMessages(p)
  <2>1. Op(p).kind \in {"close", "restore"} /\ UNCHANGED removed
        /\ revived' = (revived \/ Op(p).kind = "restore")
    BY <1>8 DEF WorldMessages, Is
  <2>2. message'[old] = [message[old] EXCEPT !.deleted = (Op(p).kind # "restore")]
    BY <1>0, <1>8, <2>1 DEF WorldMessages, EveryMessage, Removed, Message
  <2>3. message'[old].exists
    BY <1>0, <2>2 DEF Message, Removed
  <2>4. CASE Op(p).kind = "restore"
    BY <1>b, <2>1, <2>3, <2>4
  <2>5. CASE Op(p).kind = "close"
    <3>1. message'[old] = [message[old] EXCEPT !.deleted = TRUE]
      BY <2>2, <2>5
    <3>2. message'[old].deleted /\ message'[old].text = message[old].text
          /\ message'[old].hidden = message[old].hidden
      BY <1>0, <3>1 DEF Message
    <3> QED  BY <1>2, <1>a, <1>b, <2>1, <2>3, <3>2 DEF Buried
  <2> QED  BY <2>1, <2>4, <2>5
<1> QED
  BY <1>3, <1>4, <1>5, <1>6, <1>7, <1>8, MessageWritten

LEMMA RemovedInit == Init => Removed
<1> SUFFICES ASSUME Init PROVE Removed
  OBVIOUS
<1>1. message[old] = [NoMessage EXCEPT !.exists = TRUE, !.text = "written"]
  BY DEF Init, Messages
<1>2. message[old].exists
  BY <1>1 DEF NoMessage
<1>3. Buried
  BY DEF Init, Buried
<1> QED
  BY <1>2, <1>3 DEF Removed

LEMMA RemovedNext == TypeOK /\ Removed /\ [Next]_vars => Removed'
<1> SUFFICES ASSUME TypeOK, Removed, [Next]_vars PROVE Removed'
  OBVIOUS
<1>1. CASE UNCHANGED <<content, past, proc>>
  BY <1>1 DEF content, past, Removed, SomeLate, Buried, Open, Op
<1>2. ASSUME NEW p \in Processes, Acts(p) PROVE Removed'
  BY <1>2, RemovedStep
<1> QED
  BY <1>1, <1>2, ActsInNext DEF vars, TenMinutes

(***************************************************************************)
(* deleteMessage, moderationRemoveMessage, deleteChannel: what was deleted *)
(* cannot be read again, and what moderation removed shows no mask, unless *)
(* an edit or a hiding had found the message before, or the world came     *)
(* back.                                                                   *)
(***************************************************************************)
THEOREM RemovedForGood == Spec => []RemovedStaysRemoved
<1>1. Removed => RemovedStaysRemoved
  BY DEF Removed, SomeLate, Buried, RemovedStaysRemoved
<1> QED
  BY <1>1, TypesInit, TypesNext, RemovedInit, RemovedNext, PTL DEF Spec

-----------------------------------------------------------------------------
(***************************************************************************)
(* The conversation is deleted.                                            *)
(***************************************************************************)
(* A message that the exceptions name. *)
Passing(m) ==
  m \in Processes /\ (\/ proc[m].pc \in {"recheck", "withdraw"}
                      \/ proc[m].answer = "crashed" \/ proc[m].broke
                      \/ proc[m].slipped)

Ending == Swept \/ channel = "gone"

Read(m) == message[m].exists /\ ~message[m].deleted

(* From the moment the messages are swept nothing can be read but what is  *)
(* passing: who saves afterwards is still to look at the conversation.     *)
Emptied ==
  /\ \A p \in Processes : proc[p].answer = "crashed" => proc[p].pc = "done"
  /\ Ending => \A m \in Messages : Read(m) => revived \/ Passing(m)

-----------------------------------------------------------------------------
(* What p itself becomes, seen by who asks whether it is passing. *)
LEMMA StaysPassing ==
  ASSUME ProcTyped, NEW p \in Processes, Acts(p), ~Die(p), ~Recheck(p), ~Fail(p)
  PROVE  /\ proc'[p].answer \in {proc[p].answer, "ok", "refused"}
         /\ proc'[p].slipped = proc[p].slipped /\ proc'[p].broke = proc[p].broke
<1> DEFINE Same == /\ proc'[p].answer \in {proc[p].answer, "ok", "refused"}
                   /\ proc'[p].slipped = proc[p].slipped
                   /\ proc'[p].broke = proc[p].broke
<1> SUFFICES Same
  OBVIOUS
<1>0. proc \in [Processes -> Process] /\ proc[p] \in Process
  BY DEF ProcTyped
<1>a. ASSUME NEW pc, Goto(p, pc) PROVE Same
  BY <1>0, <1>a DEF Goto, Process
<1>b. ASSUME NEW answer \in {"ok", "refused"}, End(p, answer) PROVE Same
  <2>1. proc'[p] = [proc[p] EXCEPT !.pc = IF p \in Workers THEN "mark" ELSE "done",
                                   !.answer = answer]
    BY <1>0, <1>b DEF End
  <2> QED  BY <1>0, <2>1 DEF Process
<1>c. ASSUME NEW guard, NEW pc, Step(p, guard, pc) PROVE Same
  BY <1>a, <1>b, <1>c DEF Step, Refuse
<1>d. ASSUME NEW pc, proc' = [Overtaking(p) EXCEPT ![p].pc = pc] PROVE Same
  <2>1. proc'[p] = [[proc[p] EXCEPT !.pc = "done", !.answer = "ok"] EXCEPT !.pc = pc]
    BY <1>d DEF Overtaking
  <2> QED  BY <1>0, <2>1 DEF Process
<1>1. CASE FindChannel(p)
  BY <1>0, <1>1, <1>b DEF FindChannel, Refuse, Process
<1>2. CASE Access(p) \/ FindMessage(p) \/ May(p) \/ ModerateFind(p)
  <2> HIDE DEF Same
  <2> QED  BY <1>2, <1>c DEF Access, FindMessage, May, ModerateFind
<1>3. CASE FindNonce(p) \/ Save(p) \/ Withdraw(p) \/ EditMessage(p) \/ HideMessage(p)
  BY <1>3, <1>a, <1>b DEF FindNonce, Save, Withdraw, EditMessage, HideMessage, Refuse
<1>5. CASE DeleteMessage(p) \/ RemoveMessage(p)
  <2>1. proc'[p] = [proc[p] EXCEPT !.pc = "done", !.answer = "ok"]
    BY <1>5 DEF DeleteMessage, RemoveMessage, Remove, Overtaking
  <2> QED  BY <1>0, <2>1 DEF Process
<1>6. CASE ReactFind(p)
  BY <1>0, <1>6, <1>b DEF ReactFind, Refuse, Process
<1>7. CASE Toggle(p) \/ ToggleOpposite(p)
  BY <1>7, <1>a, <1>b DEF Toggle, ToggleOpposite, React, Refuse
<1>9. CASE p \in Requests /\ (DropFind(p) \/ ChangeFind(p) \/ CancelFind(p))
  <2> HIDE DEF Same
  <2> QED  BY <1>9, <1>c DEF DropFind, ChangeFind, CancelFind
<1>10. CASE p \in Requests /\ Sweep(p)
  <2> HIDE DEF Same
  <2> QED  BY <1>10, <1>d DEF Sweep
<1>11. CASE p \in Requests /\ (Drop(p) \/ CloseWorld(p) \/ RestoreWorld(p) \/ WorldChannel(p)
                               \/ WorldMessages(p) \/ SyncAllow(p) \/ Schedule(p)
                               \/ CancelDelete(p))
  <2> HIDE DEF Same
  <2> QED  BY <1>11, <1>a, <1>b DEF Drop, CloseWorld, RestoreWorld, WorldChannel,
       WorldMessages, SyncAllow, Schedule, CancelDelete, Refuse
<1>12. CASE p \in Requests /\ ChangeWrite(p)
  <2> DEFINE had == (Op(p).to = "group")
             raced == (Others(p) # {})
  <2>1. proc'[p] = [proc[p] EXCEPT !.pc = "role", !.had = had, !.raced = raced]
    BY <1>12 DEF ChangeWrite
  <2> HIDE DEF had, raced
  <2> QED  BY <1>0, <2>1 DEF Process
<1>13. CASE p \in Requests /\ SyncRole(p)
  <2> DEFINE staff == (member[Op(p).user] = "staff")
  <2>1. proc'[p] = [proc[p] EXCEPT !.pc = "list", !.staff = staff]
    BY <1>0, <1>13 DEF SyncRole
  <2> HIDE DEF staff
  <2> QED  BY <1>0, <2>1 DEF Process
<1>14. CASE p \in Requests /\ SyncList(p)
  <2> DEFINE u == Op(p).user
             should == proc[p].staff \/ proc[p].had
             list == IF should THEN allowed \cup {u} ELSE allowed \ {u}
  <2>1. \/ proc' = [proc EXCEPT ![p].pc = "allow", ![p].list = list]
        \/ End(p, "ok")
        \/ proc' = [proc EXCEPT ![p].pc = "done", ![p].answer = "ok", ![p].raced = TRUE]
    BY <1>14 DEF SyncList
  <2> HIDE DEF list
  <2>2. CASE proc' = [proc EXCEPT ![p].pc = "allow", ![p].list = list]
    BY <1>0, <2>2 DEF Process
  <2>3. CASE proc' = [proc EXCEPT ![p].pc = "done", ![p].answer = "ok", ![p].raced = TRUE]
    BY <1>0, <2>3 DEF Process
  <2> HIDE DEF Same
  <2> QED  BY <1>b, <2>1, <2>2, <2>3
<1>15. CASE p \in Workers /\ (ClaimDue(p) \/ SetStatus(p)) /\ ~Fail(p)
  BY <1>0, <1>15 DEF ClaimDue, Take, SetStatus, Goto, Process
<1> HIDE DEF Same
<1> QED
  BY <1>1, <1>2, <1>3, <1>5, <1>6, <1>7, <1>9, <1>10, <1>11, <1>12, <1>13, <1>14,
     <1>15 DEF Acts, Sending, Changing, Keeping

LEMMA Passes ==
  ASSUME ProcTyped, NEW p \in Processes, Acts(p)
  PROVE  /\ ~Die(p) => proc'[p].answer \in {proc[p].answer, "ok", "refused"}
         /\ Die(p) => proc'[p].answer = "crashed" /\ proc'[p].pc = "done"
         /\ ~Recheck(p) => proc'[p].slipped = proc[p].slipped
         /\ proc[p].broke => proc'[p].broke
         /\ Fail(p) => proc'[p].broke
<1>0. proc \in [Processes -> Process] /\ proc[p] \in Process
  BY DEF ProcTyped
<1>1. Die(p) => /\ proc'[p].answer = "crashed" /\ proc'[p].pc = "done"
                /\ proc'[p].slipped = proc[p].slipped /\ proc'[p].broke = proc[p].broke
  BY <1>0 DEF Die, Process
<1>3. Fail(p) => /\ proc'[p].broke /\ proc'[p].answer = "refused" /\ ~Die(p)
                 /\ proc'[p].slipped = proc[p].slipped
  <2> DEFINE pc == IF p \in Workers THEN "mark" ELSE "done"
  <2>1. Fail(p) => proc'[p] = [proc[p] EXCEPT !.pc = pc, !.answer = "refused", !.broke = TRUE]
    BY <1>0 DEF Fail
  <2> HIDE DEF pc
  <2>2. Fail(p) => /\ proc'[p].broke /\ proc'[p].answer = "refused"
                   /\ proc'[p].slipped = proc[p].slipped
    BY <1>0, <2>1 DEF Process
  <2> QED  BY <1>1, <2>2
<1>2. Recheck(p) /\ ~Fail(p) => /\ proc'[p].answer \in {proc[p].answer, "ok"}
                               /\ proc'[p].broke = proc[p].broke
  <2>1. CASE Recheck(p) /\ channel = "gone" /\ ~Fail(p)
    BY <1>0, <2>1 DEF Recheck, Goto, Process
  <2>2. CASE Recheck(p) /\ channel # "gone" /\ ~Fail(p)
    <3>1. proc'[p] = [proc[p] EXCEPT !.slipped = Swept, !.answer = "ok",
                                     !.pc = IF p \in Workers THEN "mark" ELSE "done"]
      BY <1>0, <2>2 DEF Recheck
    <3> QED  BY <1>0, <3>1 DEF Process
  <2> QED  BY <2>1, <2>2
<1> QED
  BY <1>1, <1>2, <1>3, StaysPassing

LEMMA PassingSteps ==
  ASSUME NEW p \in Processes, Acts(p), proc[p].pc \in {"recheck", "withdraw"}
  PROVE  Recheck(p) \/ Withdraw(p) \/ Die(p)
BY DEF Acts, Sending, FindChannel, Access, FindNonce, Save, Changing, FindMessage, May,
     ModerateFind, EditMessage, DeleteMessage, HideMessage, RemoveMessage, Remove, ReactFind,
     Toggle, ToggleOpposite, Keeping, DropFind, Sweep, Drop, CloseWorld, RestoreWorld,
     WorldChannel, WorldMessages, ChangeFind, ChangeWrite, SyncRole, SyncList, SyncAllow,
     Schedule, CancelFind, CancelDelete, ClaimDue, Take, SetStatus, Is

(* A conversation only begins to end with its messages deleted. *)
LEMMA EndingBegins ==
  ASSUME ProcTyped, NEW p \in Processes, Acts(p), Apart(p), Ending'
  PROVE  Ending \/ (p \in Requests /\ Sweep(p))
<1>0. Ending' <=> (\/ channel' = "gone"
                   \/ \E d \in Requests : proc'[d].op.kind = "drop" /\ proc'[d].pc = "drop")
  BY DEF Ending, Swept, Is, Op
<1>1. CASE channel' = "gone" /\ channel # "gone"
  <2>1. p \in Requests /\ Drop(p)
    BY <1>1, PlaceWritten
       DEF place, CloseWorld, RestoreWorld, WorldChannel, ChangeWrite, SyncAllow, Refuse, Keep
  <2> QED  BY <2>1 DEF Drop, Ending, Swept
<1>2. ASSUME NEW d \in Requests, proc'[d].op.kind = "drop", proc'[d].pc = "drop"
      PROVE  Ending \/ (p \in Requests /\ Sweep(p))
  <2>0. d \in Processes /\ proc \in [Processes -> Process]
    BY DEF Processes, ProcTyped
  <2>1. CASE d # p
    <3>1. proc[d].op.kind = "drop" /\ proc[d].pc = "drop"
      BY <1>2, <2>0, <2>1, ApartLeaves
    <3> QED  BY <3>1 DEF Ending, Swept, Is, Op
  <2>2. CASE d = p
    <3>1. Op(p).kind = "drop"
      BY <1>2, <2>0, <2>2, ApartLeaves DEF Op
    <3>2. DropFind(p) \/ Sweep(p) \/ Drop(p) \/ Die(p)
      <4>1. p \notin Workers
        BY <2>2, ChatAssumption
      <4> QED
        BY <3>1, <4>1 DEF Acts, Sending, FindChannel, Access, FindNonce, Save, Recheck, Withdraw,
         Changing, FindMessage, May, ModerateFind, EditMessage, DeleteMessage, HideMessage,
         RemoveMessage, Remove, ReactFind, Toggle, ToggleOpposite, Keeping,
         CloseWorld, RestoreWorld, WorldChannel, WorldMessages, ChangeFind, ChangeWrite,
         SyncRole, SyncList, SyncAllow, Schedule, CancelFind, CancelDelete, Is
    <3>3. ~Die(p)
      BY <1>2, <2>0, <2>2 DEF Die, Process
    <3>4. ~DropFind(p)
      BY <1>2, <2>0, <2>2, ChatAssumption DEF DropFind, Step, Refuse, Goto, End, Process
    <3>5. Drop(p) => Ending
      BY <2>2 DEF Drop, Ending, Swept
    <3> QED  BY <2>2, <3>2, <3>3, <3>4, <3>5
  <2> QED  BY <2>1, <2>2
<1> QED
  BY <1>0, <1>1, <1>2 DEF Ending

(* Only a save and the return of the world make a message readable. *)
LEMMA Readable ==
  ASSUME TypeOK, message[old].exists, NEW p \in Processes, Acts(p), NEW m \in Messages, Read(m)'
  PROVE  \/ Read(m) \/ revived' \/ (m = p /\ Save(p) /\ proc'[p].pc = "recheck")
<1>0. /\ message \in [Messages -> Message] /\ message[m] \in Message /\ message[p] \in Message
      /\ old \in Messages /\ p \in Messages /\ p # old /\ message[old] \in Message
      /\ proc \in [Processes -> Process]
  <2>1. p # old /\ p \in Messages /\ old \in Messages
    BY ChatAssumption DEF Messages
  <2> QED  BY <2>1, TypeParts DEF ContentTyped, ProcTyped
<1>r. Read(m)' <=> message'[m].exists /\ ~message'[m].deleted
  BY DEF Read
<1>1. CASE UNCHANGED <<message, removed, revived>>
  BY <1>1, <1>r DEF Read
<1>2. CASE Save(p)
  <2>1. CASE UNCHANGED message
    BY <1>r, <2>1 DEF Read
  <2>2. CASE message' = [message EXCEPT ![p] = [NoMessage EXCEPT !.exists = TRUE,
                                                             !.text = "written"]]
             /\ Goto(p, "recheck")
    BY <1>0, <1>2, <1>r, <2>2 DEF Read, Goto, Process
  <2> QED  BY <1>2, <2>1, <2>2 DEF Save, Refuse, Keep, content
<1>3. CASE Withdraw(p)
  BY <1>0, <1>3, <1>r DEF Withdraw, Fail, content, Read, Message
<1>4. CASE EditMessage(p) \/ DeleteMessage(p) \/ HideMessage(p) \/ RemoveMessage(p)
  <2>1. CASE m # old
    BY <1>0, <1>4, <1>r, <2>1 DEF EditMessage, DeleteMessage, HideMessage, RemoveMessage,
       Remove, Rewrite, Read
  <2>2. CASE m = old
    <3>1. message'[old].deleted = message[old].deleted \/ message'[old].deleted
      <4>1. EditMessage(p) \/ HideMessage(p) => message'[old].deleted = message[old].deleted
        BY <1>0 DEF EditMessage, HideMessage, Rewrite, Message
      <4>2. DeleteMessage(p) \/ RemoveMessage(p) => message'[old].deleted
        BY <1>0 DEF DeleteMessage, RemoveMessage, Remove, Rewrite, Message
      <4> QED  BY <1>4, <4>1, <4>2
    <3> QED  BY <1>r, <2>2, <3>1 DEF Read
  <2> QED  BY <2>1, <2>2
<1>5. CASE p \in Requests /\ (Sweep(p) \/ WorldMessages(p))
  <2>1. EveryMessage(p) /\ (Op(p).kind = "restore" => revived')
    BY <1>5 DEF Sweep, WorldMessages, Is
  <2>2. CASE message[m].exists
    <3>1. message'[m] = [message[m] EXCEPT !.deleted = (Op(p).kind # "restore"),
                            !.text = IF Op(p).kind = "drop" THEN "none" ELSE @]
      BY <2>1, <2>2 DEF EveryMessage
    <3>2. message'[m].deleted = (Op(p).kind # "restore")
      BY <1>0, <3>1 DEF Message
    <3> QED  BY <1>r, <2>1, <3>2
  <2>3. CASE ~message[m].exists
    BY <1>r, <2>1, <2>3 DEF EveryMessage
  <2> QED  BY <2>2, <2>3
<1> QED
  BY <1>1, <1>2, <1>3, <1>4, <1>5, MessageWritten

LEMMA SweptClean ==
  ASSUME TypeOK, NEW p \in Requests, Sweep(p), NEW m \in Messages
  PROVE  ~Read(m)'
<1>0. message[m] \in Message
  BY TypeParts DEF ContentTyped
<1>r. Read(m)' <=> message'[m].exists /\ ~message'[m].deleted
  BY DEF Read
<1>1. EveryMessage(p) /\ Op(p).kind = "drop"
  BY DEF Sweep, Is
<1>2. CASE message[m].exists
  <2>1. message'[m] = [message[m] EXCEPT !.deleted = TRUE, !.text = "none"]
    BY <1>1, <1>2 DEF EveryMessage
  <2> QED  BY <1>0, <1>r, <2>1 DEF Message
<1>3. CASE ~message[m].exists
  BY <1>r, <1>1, <1>3 DEF EveryMessage
<1> QED
  BY <1>2, <1>3

LEMMA EmptiedStep ==
  ASSUME TypeOK, Emptied, message[old].exists, NEW p \in Processes, Acts(p)
  PROVE  Emptied'
<1>0. /\ ProcTyped /\ Apart(p) /\ proc \in [Processes -> Process] /\ (revived => revived')
  <2>1. ProcTyped /\ allowed \subseteq Users /\ proc \in [Processes -> Process]
    BY TypeParts DEF PlaceTyped, ProcTyped
  <2>2. Apart(p)
    BY <2>1, StepsApart
  <2>3. revived => revived'
    BY MessageWritten DEF Save, Withdraw, EditMessage, DeleteMessage, HideMessage,
       RemoveMessage, Remove, Rewrite, Sweep, WorldMessages, Refuse, Fail, Keep, past
  <2> QED  BY <2>1, <2>2, <2>3
<1>1. ASSUME NEW q \in Processes, proc'[q].answer = "crashed" PROVE proc'[q].pc = "done"
  <2>1. CASE q # p
    BY <1>0, <1>1, <2>1, ApartLeaves DEF Emptied
  <2>2. CASE q = p
    BY <1>0, <1>1, <2>2, Passes DEF Emptied, Apart
  <2> QED  BY <2>1, <2>2
<1>p. \A m \in Processes : Passing(m)' <=> \/ proc'[m].pc \in {"recheck", "withdraw"}
                                           \/ proc'[m].answer = "crashed" \/ proc'[m].broke
                                           \/ proc'[m].slipped
  BY DEF Passing
<1>2. ASSUME Ending', NEW m \in Messages, Read(m)', ~revived' PROVE Passing(m)'
  <2>0. /\ Ending /\ ~(p \in Requests /\ Sweep(p)) /\ ~revived
        /\ Read(m) \/ (m = p /\ Save(p) /\ proc'[p].pc = "recheck")
    BY <1>0, <1>2, EndingBegins, Readable, SweptClean
  <2>1. CASE ~Read(m)
    BY <1>p, <2>0, <2>1
  <2>2. CASE Read(m)
    <3>1. Passing(m) /\ m \in Processes
      BY <2>0, <2>2 DEF Emptied, Passing
    <3>2. CASE m # p
      BY <1>0, <1>p, <3>1, <3>2, ApartLeaves DEF Passing
    <3>3. CASE m = p
      <4>1. CASE Die(p)
        BY <1>p, <3>3, <4>1, Passes, <1>0
      <4>f. CASE Fail(p)
        BY <1>p, <3>3, <4>f, Passes, <1>0
      <4>2. CASE Withdraw(p) /\ ~Fail(p)
        <5>1. message'[p].deleted
          <6>1. message[p] \in Message /\ message \in [Messages -> Message] /\ p \in Messages
            BY TypeParts DEF ContentTyped, Messages
          <6> QED  BY <4>2, <6>1 DEF Withdraw, Message
        <5> QED  BY <1>2, <3>3, <5>1 DEF Read
      <4>3. CASE Recheck(p) /\ ~Fail(p)
        <5>1. CASE channel = "gone"
          BY <1>0, <1>p, <3>3, <4>3, <5>1 DEF Recheck, Goto, Process
        <5>2. CASE channel # "gone"
          <6>1. Swept
            BY <2>0, <5>2 DEF Ending
          <6>2. proc'[p] = [proc[p] EXCEPT !.slipped = Swept, !.answer = "ok",
                                     !.pc = IF p \in Workers THEN "mark" ELSE "done"]
            BY <1>0, <4>3, <5>2 DEF Recheck
          <6>3. proc'[p].slipped = Swept
            BY <1>0, <6>2 DEF Process
          <6> QED  BY <1>p, <3>3, <6>1, <6>3
        <5> QED  BY <5>1, <5>2
      <4>4. CASE ~(Die(p) \/ Withdraw(p) \/ Recheck(p) \/ Fail(p))
        <5>1. proc[p].pc \notin {"recheck", "withdraw"} /\ proc[p].answer # "crashed"
          BY <1>0, <4>4, PassingSteps DEF Emptied, Apart
        <5>2. proc'[p].slipped \/ proc'[p].broke
          BY <1>0, <3>1, <3>3, <4>4, <5>1, Passes DEF Passing
        <5> QED  BY <1>p, <3>3, <5>2
      <4> QED  BY <4>1, <4>f, <4>2, <4>3, <4>4
    <3> QED  BY <3>2, <3>3
  <2> QED  BY <2>1, <2>2
<1>3. Emptied' <=>
        /\ \A q \in Processes : proc'[q].answer = "crashed" => proc'[q].pc = "done"
        /\ Ending' => \A m \in Messages : Read(m)' => revived' \/ Passing(m)'
  BY DEF Emptied, Ending, Swept, Read, Passing, Is, Op
<1> QED
  BY <1>1, <1>2, <1>3

LEMMA EmptiedInit == Init => Emptied
<1> SUFFICES ASSUME Init PROVE Emptied
  OBVIOUS
<1>1. \A p \in Processes : proc[p].answer = "none" /\ proc[p].pc = "start"
  BY DEF Init, Idle
<1>2. ~Ending
  BY <1>1 DEF Init, Ending, Swept, Is, Processes
<1> QED
  BY <1>1, <1>2 DEF Emptied

LEMMA EmptiedNext == TypeOK /\ Removed /\ Emptied /\ [Next]_vars => Emptied'
<1> SUFFICES ASSUME TypeOK, Removed, Emptied, [Next]_vars PROVE Emptied'
  OBVIOUS
<1>1. CASE UNCHANGED <<place, content, past, proc>>
  BY <1>1 DEF place, content, past, Emptied, Ending, Swept, Read, Passing, Is, Op
<1>2. ASSUME NEW p \in Processes, Acts(p) PROVE Emptied'
  BY <1>2, EmptiedStep DEF Removed
<1> QED
  BY <1>1, <1>2, ActsInNext DEF vars, TenMinutes

(***************************************************************************)
(* RC-D3: a message that can be read in a conversation that is gone is one *)
(* that is still being looked at, whose sender died or met an error after  *)
(* it was saved (that of the soft deletion included), that slipped between *)
(* the two halves of deleteChannel, or that came back with the world.      *)
(***************************************************************************)
THEOREM OrphansExplained == Spec => []OrphanExplained
<1>1. Emptied => OrphanExplained
  BY DEF Emptied, Ending, Read, Passing, OrphanExplained
<1> QED
  BY <1>1, TypesInit, TypesNext, RemovedInit, RemovedNext, EmptiedInit, EmptiedNext, PTL DEF Spec

-----------------------------------------------------------------------------
(***************************************************************************)
(* The list follows the membership.                                        *)
(***************************************************************************)
Changes(r, u) == Op(r).kind = "change" /\ Op(r).user = u
Follows(r) == Op(r).kind = "change" /\ proc[r].pc \in Syncing
Excused(u) ==
  \E r \in Requests : Changes(r, u) /\ (proc[r].raced \/ proc[r].answer = "crashed")
Belongs(u) == member[u] \in {"group", "staff"}

(* Two changes on their way at once are both marked; ... *)
Racing ==
  /\ \A r, q \in Requests : Follows(r) /\ Follows(q) /\ r # q => proc[r].raced
  /\ \A r \in Requests : Op(r).kind = "change" /\ proc[r].pc \in {"start", "write"} =>
       ~proc[r].raced
  /\ \A r \in Requests :
       Op(r).kind = "change" /\ proc[r].answer = "crashed" => proc[r].pc = "done"

(* ... one that is not marked goes by the membership as it is; ... *)
Knows ==
  \A r \in Requests : Follows(r) /\ ~proc[r].raced =>
    /\ proc[r].had = (member[Op(r).user] = "group")
    /\ proc[r].pc \in {"list", "allow"} =>
         proc[r].staff = (member[Op(r).user] = "staff")

Right(r, u) ==
  u \in proc[r].list <=> IF u = Op(r).user THEN Belongs(u) ELSE u \in allowed
Wrong(u) == ~(u \in allowed <=> Belongs(u))

(* ... its list is right about its user and as it was about the others; ... *)
Listed ==
  \A r \in Requests, u \in Users :
    Follows(r) /\ proc[r].pc = "allow" /\ ~Excused(u) => Right(r, u)

(* ... and who is wrong on the list of the conversation is on his way. *)
Followed ==
  \A u \in Users : Wrong(u) =>
    Excused(u) \/ \E r \in Requests : Follows(r) /\ Changes(r, u)

(* The invariant: it speaks of the changes on their way, which the         *)
(* property does not.                                                      *)
Synced == Racing /\ Knows /\ Listed /\ Followed

(* What each request that changes a membership may do. *)
LEMMA ChangeSteps ==
  ASSUME NEW p \in Requests, Acts(p), Op(p).kind = "change"
  PROVE  ChangeFind(p) \/ ChangeWrite(p) \/ SyncRole(p) \/ SyncList(p) \/ SyncAllow(p) \/ Die(p)
<1>1. p \notin Workers
  BY ChatAssumption
<1> QED
  BY <1>1 DEF Acts, Sending, FindChannel, Access, FindNonce, Save, Recheck, Withdraw,
     Changing, FindMessage, May, ModerateFind, EditMessage, DeleteMessage, HideMessage,
     RemoveMessage, Remove, ReactFind, Toggle, ToggleOpposite, Keeping, DropFind, Sweep, Drop,
     CloseWorld, RestoreWorld, WorldChannel, WorldMessages, Schedule, CancelFind,
     CancelDelete, Is

(* What p becomes by each of them. *)
LEMMA ChangeResult ==
  ASSUME ProcTyped, NEW p \in Requests, NEW a, a = proc[p], NEW b, b = proc'[p]
  PROVE  /\ ChangeFind(p) => /\ b.pc \in {"write", "done"} /\ b.raced = a.raced
                             /\ b.answer # "crashed" \/ b.answer = a.answer
                             /\ a.pc = "start"
         /\ SyncRole(p) => /\ b.pc = "list" /\ b.raced = a.raced /\ b.had = a.had
                           /\ b.answer = a.answer
                           /\ b.staff = (member[Op(p).user] = "staff")
                           /\ a.pc = "role"
         /\ SyncAllow(p) => /\ b.pc = "done" /\ b.raced = a.raced /\ b.answer = "ok"
                            /\ a.pc = "allow"
         /\ Die(p) => /\ b.pc = "done" /\ b.raced = a.raced /\ b.answer = "crashed"
<1>0. /\ p \in Processes /\ p \notin Workers /\ a \in Process /\ proc \in [Processes -> Process]
  BY ChatAssumption DEF Processes, ProcTyped
<1>b. ASSUME NEW answer, End(p, answer)
      PROVE  b.pc = "done" /\ b.raced = a.raced /\ b.answer = answer
  <2>1. b = [a EXCEPT !.pc = "done", !.answer = answer]
    BY <1>0, <1>b DEF End
  <2> QED  BY <1>0, <2>1 DEF Process
<1>1. ASSUME ChangeFind(p)
      PROVE  /\ b.pc \in {"write", "done"} /\ b.raced = a.raced
             /\ b.answer # "crashed" \/ b.answer = a.answer
             /\ a.pc = "start"
  <2>1. a.pc = "start" /\ (Goto(p, "write") \/ End(p, "refused"))
    BY <1>1 DEF ChangeFind, Step, Refuse, Is
  <2>2. CASE Goto(p, "write")
    <3>1. b = [a EXCEPT !.pc = "write"]
      BY <1>0, <2>2 DEF Goto
    <3> QED  BY <1>0, <2>1, <3>1 DEF Process
  <2>3. CASE End(p, "refused")
    BY <1>b, <2>1, <2>3
  <2> QED  BY <2>1, <2>2, <2>3
<1>2. ASSUME SyncRole(p)
      PROVE  /\ b.pc = "list" /\ b.raced = a.raced /\ b.had = a.had
             /\ b.answer = a.answer
             /\ b.staff = (member[Op(p).user] = "staff")
             /\ a.pc = "role"
  <2> DEFINE staff == (member[Op(p).user] = "staff")
  <2>1. b = [a EXCEPT !.pc = "list", !.staff = staff] /\ a.pc = "role"
    BY <1>0, <1>2 DEF SyncRole, Is
  <2> HIDE DEF staff
  <2>2. /\ b.pc = "list" /\ b.raced = a.raced /\ b.had = a.had
        /\ b.answer = a.answer /\ b.staff = staff
    BY <1>0, <2>1 DEF Process
  <2> QED  BY <2>1, <2>2 DEF staff
<1>3. ASSUME SyncAllow(p)
      PROVE  b.pc = "done" /\ b.raced = a.raced /\ b.answer = "ok" /\ a.pc = "allow"
  BY <1>3, <1>b DEF SyncAllow, Is
<1>4. ASSUME Die(p) PROVE b.pc = "done" /\ b.raced = a.raced /\ b.answer = "crashed"
  <2>1. b = [a EXCEPT !.pc = "done", !.answer = "crashed"]
    BY <1>0, <1>4 DEF Die
  <2> QED  BY <1>0, <2>1 DEF Process
<1> QED
  BY <1>1, <1>2, <1>3, <1>4

LEMMA ListResult ==
  ASSUME ProcTyped, NEW p \in Requests, SyncList(p)
  PROVE  /\ proc[p].pc = "list"
         /\ proc'[p].answer # "crashed" \/ proc'[p].answer = proc[p].answer
         /\ \/ /\ proc'[p].pc = "allow" /\ proc'[p].raced = proc[p].raced
               /\ proc'[p].had = proc[p].had /\ proc'[p].staff = proc[p].staff
               /\ proc'[p].list = IF proc[p].staff \/ proc[p].had
                                  THEN allowed \cup {Op(p).user} ELSE allowed \ {Op(p).user}
            \/ /\ proc'[p].pc = "done" /\ proc'[p].raced = proc[p].raced
               /\ Op(p).user \in allowed <=> proc[p].staff \/ proc[p].had
            \/ proc'[p].pc = "done" /\ proc'[p].raced
<1> DEFINE a == proc[p]
           b == proc'[p]
<1>0. /\ p \in Processes /\ p \notin Workers /\ a \in Process /\ proc \in [Processes -> Process]
  BY ChatAssumption DEF Processes, ProcTyped
<1> DEFINE u == Op(p).user
           should == a.staff \/ a.had
           list == IF should THEN allowed \cup {u} ELSE allowed \ {u}
<1>1. /\ a.pc = "list"
      /\ \/ b = [a EXCEPT !.pc = "allow", !.list = list]
         \/ b = [a EXCEPT !.pc = "done", !.answer = "ok"] /\ ~((u \in allowed) # should)
         \/ b = [a EXCEPT !.pc = "done", !.answer = "ok", !.raced = TRUE]
  BY <1>0 DEF SyncList, Is, End
<1>2. should \in BOOLEAN
  BY <1>0 DEF Process
<1> SUFFICES /\ a.pc = "list" /\ (b.answer # "crashed" \/ b.answer = a.answer)
             /\ \/ /\ b.pc = "allow" /\ b.raced = a.raced /\ b.had = a.had /\ b.staff = a.staff
                   /\ b.list = list
                \/ b.pc = "done" /\ b.raced = a.raced /\ (u \in allowed <=> should)
                \/ b.pc = "done" /\ b.raced
  OBVIOUS
<1> HIDE DEF a, b, list
<1>3. CASE b = [a EXCEPT !.pc = "allow", !.list = list]
  <2>1. /\ b.pc = "allow" /\ b.raced = a.raced /\ b.had = a.had /\ b.staff = a.staff
        /\ b.list = list /\ b.answer = a.answer
    BY <1>0, <1>3 DEF Process
  <2> QED  BY <1>1, <2>1
<1>4. CASE b = [a EXCEPT !.pc = "done", !.answer = "ok"] /\ ~((u \in allowed) # should)
  <2>2. b.pc = "done" /\ b.raced = a.raced /\ b.answer = "ok"
    BY <1>0, <1>4 DEF Process
  <2> QED  BY <1>1, <1>2, <1>4, <2>2
<1>5. CASE b = [a EXCEPT !.pc = "done", !.answer = "ok", !.raced = TRUE]
  <2>2. b.pc = "done" /\ b.raced /\ b.answer = "ok"
    BY <1>0, <1>5 DEF Process
  <2> QED  BY <1>1, <2>2
<1> QED
  BY <1>1, <1>3, <1>4, <1>5

(* What the others keep, and may be marked with. *)
Kept(q) ==
  /\ Op(q)' = Op(q) /\ proc'[q].pc = proc[q].pc /\ proc'[q].answer = proc[q].answer
  /\ proc'[q].list = proc[q].list /\ proc'[q].staff = proc[q].staff
  /\ proc'[q].had = proc[q].had /\ (proc[q].raced => proc'[q].raced)
  /\ proc'[q].raced => (proc[q].raced \/ Follows(q))

LEMMA OthersKept ==
  ASSUME ProcTyped, NEW p \in Processes, Apart(p)
  PROVE  /\ \A q \in Requests : Op(q)' = Op(q)
         /\ \A q \in Requests \ {p} : Op(q).kind = "change" => Kept(q)
<1>1. \A q \in Requests : q \in Processes /\ Op(q)' = proc'[q].op /\ Op(q) = proc[q].op
  BY DEF Processes, Op
<1> QED
  BY <1>1, ApartLeaves DEF Kept, Follows

(* The facts of the next state, spelled out. *)
LEMMA Primed ==
  ASSUME \A q \in Requests : Op(q)' = Op(q)
  PROVE  /\ \A q \in Requests : Follows(q)' <=> Op(q).kind = "change" /\ proc'[q].pc \in Syncing
         /\ \A q \in Requests, u \in Users : Changes(q, u)' <=> Changes(q, u)
         /\ \A u \in Users : Excused(u)' <=> \E r \in Requests :
               Changes(r, u) /\ (proc'[r].raced \/ proc'[r].answer = "crashed")
         /\ \A u \in Users : Belongs(u)' <=> member'[u] \in {"group", "staff"}
         /\ \A r \in Requests, u \in Users : Right(r, u)' <=>
              (u \in proc'[r].list <=> IF u = Op(r).user THEN Belongs(u)' ELSE u \in allowed')
         /\ \A u \in Users : Wrong(u)' <=> ~(u \in allowed' <=> Belongs(u)')
         /\ Racing' <=>
              /\ \A r, q \in Requests : Follows(r)' /\ Follows(q)' /\ r # q => proc'[r].raced
              /\ \A r \in Requests : Op(r).kind = "change" /\ proc'[r].pc \in {"start", "write"} =>
                   ~proc'[r].raced
              /\ \A r \in Requests :
                   Op(r).kind = "change" /\ proc'[r].answer = "crashed" => proc'[r].pc = "done"
         /\ Knows' <=> \A r \in Requests : Follows(r)' /\ ~proc'[r].raced =>
              /\ proc'[r].had = (member'[Op(r).user] = "group")
              /\ proc'[r].pc \in {"list", "allow"} =>
                   proc'[r].staff = (member'[Op(r).user] = "staff")
         /\ Listed' <=> \A r \in Requests, u \in Users :
              Follows(r)' /\ proc'[r].pc = "allow" /\ ~Excused(u)' => Right(r, u)'
         /\ Followed' <=> \A u \in Users : Wrong(u)' =>
              Excused(u)' \/ \E r \in Requests : Follows(r)' /\ Changes(r, u)'
<1>1. \A q \in Requests : Follows(q)' <=> Op(q).kind = "change" /\ proc'[q].pc \in Syncing
  BY DEF Follows
<1>2. \A q \in Requests, u \in Users : Changes(q, u)' <=> Changes(q, u)
  BY DEF Changes
<1>3. \A u \in Users : Excused(u)' <=> \E r \in Requests :
        Changes(r, u) /\ (proc'[r].raced \/ proc'[r].answer = "crashed")
  BY <1>2 DEF Excused
<1>4. \A u \in Users : Belongs(u)' <=> member'[u] \in {"group", "staff"}
  BY DEF Belongs
<1>5. Racing' <=>
        /\ \A r, q \in Requests : Follows(r)' /\ Follows(q)' /\ r # q => proc'[r].raced
        /\ \A r \in Requests : Op(r).kind = "change" /\ proc'[r].pc \in {"start", "write"} =>
             ~proc'[r].raced
        /\ \A r \in Requests :
                   Op(r).kind = "change" /\ proc'[r].answer = "crashed" => proc'[r].pc = "done"
  BY DEF Racing
<1>6. Knows' <=> \A r \in Requests : Follows(r)' /\ ~proc'[r].raced =>
        /\ proc'[r].had = (member'[Op(r).user] = "group")
        /\ proc'[r].pc \in {"list", "allow"} =>
             proc'[r].staff = (member'[Op(r).user] = "staff")
  BY DEF Knows
<1>7. Listed' <=> \A r \in Requests, u \in Users :
        Follows(r)' /\ proc'[r].pc = "allow" /\ ~Excused(u)' => Right(r, u)'
  BY DEF Listed
<1>8. Followed' <=> \A u \in Users : Wrong(u)' =>
        Excused(u)' \/ \E r \in Requests : Follows(r)' /\ Changes(r, u)'
  BY DEF Followed
<1>9. \A r \in Requests, u \in Users : Right(r, u)' <=>
        (u \in proc'[r].list <=> IF u = Op(r).user THEN Belongs(u)' ELSE u \in allowed')
  BY DEF Right
<1>10. \A u \in Users : Wrong(u)' <=> ~(u \in allowed' <=> Belongs(u)')
  BY DEF Wrong
<1> QED
  BY <1>1, <1>2, <1>3, <1>4, <1>5, <1>6, <1>7, <1>8, <1>9, <1>10

(* An excuse is never withdrawn. *)
LEMMA ExcusedStays ==
  ASSUME ProcTyped, Racing, NEW p \in Processes, Acts(p), Apart(p), NEW u \in Users, Excused(u)
  PROVE  Excused(u)'
<1>0. /\ \A q \in Requests : Op(q)' = Op(q)
      /\ \A q \in Requests \ {p} : Op(q).kind = "change" => Kept(q)
  BY OthersKept
<1>1. PICK r \in Requests : Changes(r, u) /\ (proc[r].raced \/ proc[r].answer = "crashed")
  BY DEF Excused
<1>2. proc'[r].raced \/ proc'[r].answer = "crashed"
  <2>1. CASE r # p
    BY <1>0, <1>1, <2>1 DEF Kept, Changes
  <2>2. CASE r = p
    <3>1. Op(p).kind = "change" /\ p \in Requests
      BY <1>1, <2>2 DEF Changes
    <3>2. proc[p].answer # "crashed" /\ proc[p].raced
      BY <1>1, <2>2, <3>1 DEF Racing, Apart
    <3>3. ~ChangeWrite(p)
      BY <3>1, <3>2 DEF Racing, ChangeWrite, Is
    <3>4. CASE SyncList(p)
      <4>1. proc'[p].raced
        BY <3>1, <3>2, <3>4, ListResult
      <4> QED  BY <2>2, <4>1
    <3>5. CASE ChangeFind(p) \/ SyncRole(p) \/ SyncAllow(p) \/ Die(p)
      BY <2>2, <3>1, <3>2, <3>5, ChangeResult
    <3> QED  BY <3>1, <3>3, <3>4, <3>5, ChangeSteps
  <2> QED  BY <2>1, <2>2
<1> QED
  BY <1>0, <1>1, <1>2, Primed

(* A step that leaves the changes of the membership alone. *)
LEMMA AsideStep ==
  ASSUME ProcTyped, Synced, NEW p \in Processes, Acts(p), Apart(p),
         ~(p \in Requests /\ Op(p).kind = "change")
  PROVE  Synced'
<1>0. /\ \A q \in Requests : Op(q)' = Op(q)
      /\ \A q \in Requests : Op(q).kind = "change" => Kept(q)
  BY OthersKept
<1>1. UNCHANGED <<member, allowed>>
  BY PlaceWritten DEF place, Drop, CloseWorld, RestoreWorld, WorldChannel, ChangeWrite,
     SyncAllow, Is, Refuse, Keep
<1>2. \A u \in Users : Excused(u) => Excused(u)'
  BY ExcusedStays DEF Synced
<1>3. \A q \in Requests : Follows(q)' <=> Follows(q)
  BY <1>0, Primed DEF Kept, Follows
<1>4. \A u \in Users : Belongs(u)' <=> Belongs(u)
  BY <1>1 DEF Belongs
<1>5. Racing'
  BY <1>0, <1>3, Primed DEF Synced, Racing, Kept, Follows, Syncing
<1>6. Knows'
  BY <1>0, <1>1, <1>3, Primed DEF Synced, Knows, Kept, Follows
<1>7. Listed'
  <2> SUFFICES ASSUME NEW r \in Requests, NEW u \in Users, Follows(r)', proc'[r].pc = "allow",
                      ~Excused(u)'
               PROVE  Right(r, u)'
    BY <1>0, Primed
  <2>1. Follows(r) /\ proc[r].pc = "allow" /\ ~Excused(u) /\ proc'[r].list = proc[r].list
    BY <1>0, <1>2, <1>3 DEF Kept, Follows
  <2>2. Right(r, u)
    BY <2>1 DEF Synced, Listed
  <2> QED  BY <1>0, <1>1, <1>4, <2>1, <2>2, Primed DEF Right
<1>8. Followed'
  <2> SUFFICES ASSUME NEW u \in Users, Wrong(u)', ~Excused(u)'
               PROVE  \E r \in Requests : Follows(r)' /\ Changes(r, u)'
    BY <1>0, Primed
  <2>0. Wrong(u)
    BY <1>0, <1>1, <1>4, Primed DEF Wrong
  <2>1. PICK r \in Requests : Follows(r) /\ Changes(r, u)
    BY <1>2, <2>0 DEF Synced, Followed
  <2> QED  BY <1>0, <1>3, <2>1, Primed
<1> QED
  BY <1>5, <1>6, <1>7, <1>8 DEF Synced

(* One that is not on its way is found, or stops before. *)
LEMMA BeforeStep ==
  ASSUME ProcTyped, Synced, NEW p \in Requests, Op(p).kind = "change", Apart(p), Acts(p),
         ChangeFind(p) \/ Die(p)
  PROVE  Synced'
<1>0. /\ \A q \in Requests : Op(q)' = Op(q)
      /\ \A q \in Requests \ {p} : Op(q).kind = "change" => Kept(q)
      /\ p \in Processes /\ proc[p].answer # "crashed" /\ ~Follows(p)'
      /\ proc'[p].raced = proc[p].raced
      /\ ChangeFind(p) => /\ ~proc[p].raced /\ ~Follows(p)
                          /\ proc'[p].answer # "crashed"
      /\ Die(p) => proc'[p].pc = "done" /\ proc'[p].answer = "crashed"
  <2>1. p \in Processes /\ proc[p].answer # "crashed"
    BY DEF Processes, Apart, Synced, Racing
  <2>2. /\ \A q \in Requests : Op(q)' = Op(q)
        /\ \A q \in Requests \ {p} : Op(q).kind = "change" => Kept(q)
    BY <2>1, OthersKept
  <2>3. CASE ChangeFind(p)
    <3>1. /\ proc'[p].pc \in {"write", "done"} /\ proc'[p].raced = proc[p].raced
          /\ proc'[p].answer # "crashed" /\ proc[p].pc = "start"
      BY <2>1, <2>3, ChangeResult
    <3> QED  BY <2>1, <2>2, <2>3, <3>1, Primed DEF Synced, Racing, Follows, Syncing, Die
  <2>4. CASE Die(p)
    <3>1. /\ proc'[p].pc = "done" /\ proc'[p].raced = proc[p].raced
          /\ proc'[p].answer = "crashed"
      BY <2>4, ChangeResult
    <3> QED  BY <2>1, <2>2, <2>4, <3>1, Primed DEF Synced, Racing, Follows, Syncing,
                ChangeFind, Die, Is
  <2> QED  BY <2>3, <2>4
<1>1. UNCHANGED <<member, allowed>>
  BY DEF ChangeFind, Die, Step, Refuse, Keep, place
<1>2. \A u \in Users : Excused(u) => Excused(u)'
  BY <1>0, ExcusedStays DEF Synced
<1>3. /\ \A q \in Requests \ {p} : Follows(q)' <=> Follows(q)
      /\ ~Follows(p)'
  BY <1>0, Primed DEF Kept, Follows
<1>4. \A u \in Users : Belongs(u)' <=> Belongs(u)
  BY <1>1 DEF Belongs
<1>5. Racing'
  BY <1>0, <1>3, Primed DEF Synced, Racing, Kept, Follows, Syncing
<1>6. Knows'
  BY <1>0, <1>1, <1>3, Primed DEF Synced, Knows, Kept, Follows
<1>7. Listed'
  <2> SUFFICES ASSUME NEW r \in Requests, NEW u \in Users, Follows(r)', proc'[r].pc = "allow",
                      ~Excused(u)'
               PROVE  Right(r, u)'
    BY <1>0, Primed
  <2>1. /\ r # p /\ Follows(r) /\ proc[r].pc = "allow" /\ ~Excused(u)
        /\ proc'[r].list = proc[r].list
    BY <1>0, <1>2, <1>3 DEF Kept, Follows
  <2>2. Right(r, u)
    BY <2>1 DEF Synced, Listed
  <2> QED  BY <1>0, <1>1, <1>4, <2>1, <2>2, Primed DEF Right
<1>8. Followed'
  <2> SUFFICES ASSUME NEW u \in Users, Wrong(u)', ~Excused(u)'
               PROVE  \E r \in Requests : Follows(r)' /\ Changes(r, u)'
    BY <1>0, Primed
  <2>0. Wrong(u)
    BY <1>0, <1>1, <1>4, Primed DEF Wrong
  <2>1. PICK r \in Requests : Follows(r) /\ Changes(r, u)
    BY <1>2, <2>0 DEF Synced, Followed
  <2>2. r # p
    <3>1. CASE Die(p)
      BY <1>0, <2>1, <3>1, Primed
    <3> QED  BY <1>0, <2>1, <3>1
  <2> QED  BY <1>0, <1>3, <2>1, <2>2, Primed
<1> QED
  BY <1>5, <1>6, <1>7, <1>8 DEF Synced

(* What is known of a step of a request that changes a membership.         *)
LEMMA ChangeKnown ==
  ASSUME ProcTyped, Synced, NEW p \in Requests, Op(p).kind = "change", Apart(p), Acts(p)
  PROVE  /\ \A q \in Requests : Op(q)' = Op(q)
         /\ \A q \in Requests \ {p} : Op(q).kind = "change" => Kept(q)
         /\ \A q \in Requests \ {p} : Follows(q)' <=> Follows(q)
         /\ \A u \in Users : Excused(u) => Excused(u)'
         /\ p \in Processes /\ proc[p].answer # "crashed" /\ Op(p).user \in Users
<1>1. p \in Processes /\ proc[p].answer # "crashed" /\ Op(p).user \in Users
  <2>1. p \in Processes /\ proc[p].answer # "crashed"
    BY DEF Processes, Apart, Synced, Racing
  <2> QED  BY <2>1 DEF ProcTyped, Process, Operation, Op
<1>2. /\ \A q \in Requests : Op(q)' = Op(q)
      /\ \A q \in Requests \ {p} : Op(q).kind = "change" => Kept(q)
  BY <1>1, OthersKept
<1>3. \A q \in Requests \ {p} : Follows(q)' <=> Follows(q)
  BY <1>2, Primed DEF Kept, Follows
<1>4. \A u \in Users : Excused(u) => Excused(u)'
  BY <1>1, ExcusedStays DEF Synced
<1> QED
  BY <1>1, <1>2, <1>3, <1>4

LEMMA RoleStep ==
  ASSUME ProcTyped, Synced, NEW p \in Requests, Op(p).kind = "change", Apart(p), Acts(p),
         SyncRole(p)
  PROVE  Synced'
<1>0. /\ \A q \in Requests : Op(q)' = Op(q)
      /\ \A q \in Requests \ {p} : Op(q).kind = "change" => Kept(q)
      /\ \A q \in Requests \ {p} : Follows(q)' <=> Follows(q)
      /\ \A u \in Users : Excused(u) => Excused(u)'
      /\ p \in Processes /\ proc[p].answer # "crashed" /\ Op(p).user \in Users
  BY ChangeKnown
<1>1. UNCHANGED <<member, allowed>>
  BY DEF SyncRole, Keep, place
<1>2. /\ proc'[p].pc = "list" /\ proc'[p].raced = proc[p].raced /\ proc'[p].had = proc[p].had
      /\ proc'[p].answer = proc[p].answer /\ proc[p].pc = "role"
      /\ proc'[p].staff = (member[Op(p).user] = "staff")
  BY ChangeResult
<1>3. \A q \in Requests : Follows(q)' <=> Follows(q)
  BY <1>0, <1>2, Primed DEF Follows, Syncing
<1>4. \A u \in Users : Belongs(u)' <=> Belongs(u)
  BY <1>1 DEF Belongs
<1>5. Racing'
  BY <1>0, <1>2, <1>3, Primed DEF Synced, Racing, Kept, Follows, Syncing
<1>6. Knows'
  <2> SUFFICES ASSUME NEW r \in Requests, Follows(r)', ~proc'[r].raced
               PROVE  /\ proc'[r].had = (member'[Op(r).user] = "group")
                      /\ proc'[r].pc \in {"list", "allow"} =>
                           proc'[r].staff = (member'[Op(r).user] = "staff")
    BY <1>0, Primed
  <2>1. CASE r # p
    BY <1>0, <1>1, <1>3, <2>1 DEF Synced, Knows, Kept, Follows
  <2>2. CASE r = p
    BY <1>1, <1>2, <1>3, <2>2 DEF Synced, Knows
  <2> QED  BY <2>1, <2>2
<1>7. Listed'
  <2> SUFFICES ASSUME NEW r \in Requests, NEW u \in Users, Follows(r)', proc'[r].pc = "allow",
                      ~Excused(u)'
               PROVE  Right(r, u)'
    BY <1>0, Primed
  <2>1. /\ r # p /\ Follows(r) /\ proc[r].pc = "allow" /\ ~Excused(u)
        /\ proc'[r].list = proc[r].list
    BY <1>0, <1>2, <1>3 DEF Kept, Follows
  <2>2. Right(r, u)
    BY <2>1 DEF Synced, Listed
  <2> QED  BY <1>0, <1>1, <1>4, <2>1, <2>2, Primed DEF Right
<1>8. Followed'
  <2> SUFFICES ASSUME NEW u \in Users, Wrong(u)', ~Excused(u)'
               PROVE  \E r \in Requests : Follows(r)' /\ Changes(r, u)'
    BY <1>0, Primed
  <2>0. Wrong(u)
    BY <1>0, <1>1, <1>4, Primed DEF Wrong
  <2>1. PICK r \in Requests : Follows(r) /\ Changes(r, u)
    BY <1>0, <2>0 DEF Synced, Followed
  <2> QED  BY <1>0, <1>3, <2>1, Primed
<1> QED
  BY <1>5, <1>6, <1>7, <1>8 DEF Synced

(* The user of one that is not excused has the standing it goes by. *)
LEMMA Goes ==
  ASSUME ProcTyped, Synced, NEW p \in Requests, Op(p).kind = "change",
         proc[p].pc = "list", ~Excused(Op(p).user)
  PROVE  proc[p].staff \/ proc[p].had <=> Belongs(Op(p).user)
<1>1. ~proc[p].raced
  BY DEF Excused, Changes
<1> QED
  BY <1>1 DEF Synced, Knows, Follows, Syncing, Belongs

LEMMA ListStep ==
  ASSUME ProcTyped, Synced, NEW p \in Requests, Op(p).kind = "change", Apart(p), Acts(p),
         SyncList(p)
  PROVE  Synced'
<1>0. /\ \A q \in Requests : Op(q)' = Op(q)
      /\ \A q \in Requests \ {p} : Op(q).kind = "change" => Kept(q)
      /\ \A q \in Requests \ {p} : Follows(q)' <=> Follows(q)
      /\ \A u \in Users : Excused(u) => Excused(u)'
      /\ p \in Processes /\ proc[p].answer # "crashed" /\ Op(p).user \in Users
  BY ChangeKnown
<1>1. UNCHANGED <<member, allowed>>
  BY DEF SyncList, Keep, place, End
<1>2. /\ proc[p].pc = "list" /\ Follows(p) /\ proc'[p].answer # "crashed"
      /\ \/ /\ proc'[p].pc = "allow" /\ proc'[p].raced = proc[p].raced
            /\ proc'[p].had = proc[p].had /\ proc'[p].staff = proc[p].staff
            /\ proc'[p].list = IF proc[p].staff \/ proc[p].had
                               THEN allowed \cup {Op(p).user} ELSE allowed \ {Op(p).user}
         \/ /\ proc'[p].pc = "done" /\ proc'[p].raced = proc[p].raced
            /\ Op(p).user \in allowed <=> proc[p].staff \/ proc[p].had
         \/ proc'[p].pc = "done" /\ proc'[p].raced
  BY <1>0, ListResult DEF Follows, Syncing
<1>3. \A q \in Requests : Follows(q)' => Follows(q)
  BY <1>0, <1>2, Primed DEF Follows, Syncing
<1>4. \A u \in Users : Belongs(u)' <=> Belongs(u)
  BY <1>1 DEF Belongs
<1>5. Racing'
  BY <1>0, <1>2, <1>3, Primed DEF Synced, Racing, Kept, Follows, Syncing
<1>6. Knows'
  <2> SUFFICES ASSUME NEW r \in Requests, Follows(r)', ~proc'[r].raced
               PROVE  /\ proc'[r].had = (member'[Op(r).user] = "group")
                      /\ proc'[r].pc \in {"list", "allow"} =>
                           proc'[r].staff = (member'[Op(r).user] = "staff")
    BY <1>0, Primed
  <2>1. CASE r # p
    BY <1>0, <1>1, <1>3, <2>1 DEF Synced, Knows, Kept, Follows
  <2>2. CASE r = p
    <3>1. proc'[p].pc # "done"
      BY <1>0, <2>2, Primed DEF Syncing
    <3>2. ~proc[p].raced /\ proc'[p].had = proc[p].had /\ proc'[p].staff = proc[p].staff
      BY <1>2, <2>2, <3>1
    <3> QED  BY <1>1, <1>2, <2>2, <3>2 DEF Synced, Knows
  <2> QED  BY <2>1, <2>2
<1>7. Listed'
  <2> SUFFICES ASSUME NEW r \in Requests, NEW u \in Users, Follows(r)', proc'[r].pc = "allow",
                      ~Excused(u)'
               PROVE  Right(r, u)'
    BY <1>0, Primed
  <2>1. CASE r # p
    <3>1. /\ Follows(r) /\ proc[r].pc = "allow" /\ ~Excused(u)
          /\ proc'[r].list = proc[r].list
      BY <1>0, <1>3, <2>1 DEF Kept, Follows
    <3>2. Right(r, u)
      BY <3>1 DEF Synced, Listed
    <3> QED  BY <1>0, <1>1, <1>4, <3>1, <3>2, Primed DEF Right
  <2>2. CASE r = p
    <3>1. proc'[p].list = IF proc[p].staff \/ proc[p].had
                          THEN allowed \cup {Op(p).user} ELSE allowed \ {Op(p).user}
      BY <1>2, <2>2
    <3>2. CASE u = Op(p).user
      <4>1. proc[p].staff \/ proc[p].had <=> Belongs(u)
        BY <1>0, <1>2, <3>2, Goes
      <4> QED  BY <1>0, <1>4, <2>2, <3>1, <3>2, <4>1, Primed
    <3>3. CASE u # Op(p).user
      BY <1>0, <1>1, <2>2, <3>1, <3>3, Primed
    <3> QED  BY <3>2, <3>3
  <2> QED  BY <2>1, <2>2
<1>8. Followed'
  <2> SUFFICES ASSUME NEW u \in Users, Wrong(u)', ~Excused(u)'
               PROVE  \E r \in Requests : Follows(r)' /\ Changes(r, u)'
    BY <1>0, Primed
  <2>0. Wrong(u)
    BY <1>0, <1>1, <1>4, Primed DEF Wrong
  <2>1. PICK r \in Requests : Follows(r) /\ Changes(r, u)
    BY <1>0, <2>0 DEF Synced, Followed
  <2>2. CASE r # p
    BY <1>0, <2>1, <2>2, Primed
  <2>3. CASE r = p
    <3>1. u = Op(p).user /\ ~proc'[p].raced
      BY <1>0, <2>1, <2>3, Primed DEF Changes
    <3>2. proc[p].staff \/ proc[p].had <=> Belongs(u)
      BY <1>0, <1>2, <3>1, Goes
    <3>3. proc'[p].pc = "allow"
      BY <1>2, <2>0, <3>1, <3>2 DEF Wrong
    <3> QED  BY <1>0, <2>1, <2>3, <3>3, Primed DEF Syncing
  <2> QED  BY <2>2, <2>3
<1> QED
  BY <1>5, <1>6, <1>7, <1>8 DEF Synced

LEMMA AllowStep ==
  ASSUME ProcTyped, Synced, NEW p \in Requests, Op(p).kind = "change", Apart(p), Acts(p),
         SyncAllow(p)
  PROVE  Synced'
<1>0. /\ \A q \in Requests : Op(q)' = Op(q)
      /\ \A q \in Requests \ {p} : Op(q).kind = "change" => Kept(q)
      /\ \A q \in Requests \ {p} : Follows(q)' <=> Follows(q)
      /\ \A u \in Users : Excused(u) => Excused(u)'
      /\ p \in Processes /\ proc[p].answer # "crashed" /\ Op(p).user \in Users
  BY ChangeKnown
<1>1. member' = member /\ allowed' = proc[p].list
  BY DEF SyncAllow
<1>2. /\ proc'[p].pc = "done" /\ proc'[p].raced = proc[p].raced /\ proc'[p].answer = "ok"
      /\ proc[p].pc = "allow" /\ Follows(p) /\ ~Follows(p)'
  <2>1. /\ proc'[p].pc = "done" /\ proc'[p].raced = proc[p].raced /\ proc'[p].answer = "ok"
        /\ proc[p].pc = "allow"
    BY ChangeResult
  <2> QED  BY <1>0, <2>1, Primed DEF Follows, Syncing
<1>4. \A u \in Users : Belongs(u)' <=> Belongs(u)
  BY <1>1 DEF Belongs
<1>5. Racing'
  BY <1>0, <1>2, Primed DEF Synced, Racing, Kept, Follows, Syncing
<1>6. Knows'
  <2> SUFFICES ASSUME NEW r \in Requests, Follows(r)', ~proc'[r].raced
               PROVE  /\ proc'[r].had = (member'[Op(r).user] = "group")
                      /\ proc'[r].pc \in {"list", "allow"} =>
                           proc'[r].staff = (member'[Op(r).user] = "staff")
    BY <1>0, Primed
  <2>1. r # p /\ Follows(r) /\ Kept(r)
    BY <1>0, <1>2 DEF Follows
  <2> QED  BY <1>1, <2>1 DEF Synced, Knows, Kept
<1>p. ASSUME NEW u \in Users, ~Excused(u)
      PROVE  u \in allowed' <=> IF u = Op(p).user THEN Belongs(u) ELSE u \in allowed
  <2>1. Right(p, u)
    BY <1>2, <1>p DEF Synced, Listed
  <2> QED  BY <1>1, <2>1 DEF Right
<1>7. Listed'
  <2> SUFFICES ASSUME NEW r \in Requests, NEW u \in Users, Follows(r)', proc'[r].pc = "allow",
                      ~Excused(u)'
               PROVE  Right(r, u)'
    BY <1>0, Primed
  <2>1. /\ r # p /\ Follows(r) /\ proc[r].pc = "allow" /\ ~Excused(u)
        /\ proc'[r].list = proc[r].list
    BY <1>0, <1>2 DEF Kept, Follows
  <2>2. Right(r, u)
    BY <2>1 DEF Synced, Listed
  <2>3. proc[p].raced /\ u # Op(p).user
    <3>1. proc[p].raced
      BY <1>2, <2>1 DEF Synced, Racing
    <3> QED  BY <1>2, <2>1, <3>1 DEF Excused, Changes, Follows
  <2>4. u \in allowed' <=> u \in allowed
    BY <1>p, <2>1, <2>3
  <2> QED  BY <1>0, <1>4, <2>1, <2>2, <2>4, Primed DEF Right
<1>8. Followed'
  <2> SUFFICES ASSUME NEW u \in Users, Wrong(u)', ~Excused(u)'
               PROVE  \E r \in Requests : Follows(r)' /\ Changes(r, u)'
    BY <1>0, Primed
  <2>0. ~Excused(u) /\ ~(u \in allowed' <=> Belongs(u))
    BY <1>0, <1>4, Primed
  <2>1. u # Op(p).user /\ Wrong(u)
    BY <1>p, <2>0 DEF Wrong
  <2>2. PICK r \in Requests : Follows(r) /\ Changes(r, u)
    BY <2>0, <2>1 DEF Synced, Followed
  <2>3. r # p
    BY <2>1, <2>2 DEF Changes
  <2> QED  BY <1>0, <2>2, <2>3, Primed
<1> QED
  BY <1>5, <1>6, <1>7, <1>8 DEF Synced

LEMMA WriteStep ==
  ASSUME ProcTyped, Synced, NEW p \in Requests, Op(p).kind = "change", Apart(p), Acts(p),
         ChangeWrite(p), member \in [Users -> Standings]
  PROVE  Synced'
<1>0. /\ \A q \in Requests : Op(q)' = Op(q)
      /\ \A q \in Requests \ {p} : Op(q).kind = "change" => Kept(q)
      /\ \A q \in Requests \ {p} : Follows(q)' <=> Follows(q)
      /\ \A u \in Users : Excused(u) => Excused(u)'
      /\ p \in Processes /\ proc[p].answer # "crashed" /\ Op(p).user \in Users
  BY ChangeKnown
<1>1. allowed' = allowed /\ member' = [member EXCEPT ![Op(p).user] = Op(p).to]
  BY DEF ChangeWrite
<1>2. /\ proc'[p].pc = "role" /\ proc'[p].had = (Op(p).to = "group")
      /\ proc'[p].raced = (Others(p) # {}) /\ proc'[p].answer = proc[p].answer
      /\ \A q \in Others(p) : proc'[q] = [proc[q] EXCEPT !.raced = TRUE]
      /\ proc[p].pc = "write" /\ ~Follows(p) /\ Follows(p)'
  <2>1. /\ proc'[p].pc = "role" /\ proc'[p].had = (Op(p).to = "group")
        /\ proc'[p].raced = (Others(p) # {}) /\ proc'[p].answer = proc[p].answer
        /\ \A q \in Others(p) : proc'[q] = [proc[q] EXCEPT !.raced = TRUE]
    BY ChangeWriteApart
  <2>2. proc[p].pc = "write"
    BY DEF ChangeWrite, Is
  <2> QED  BY <1>0, <2>1, <2>2, Primed DEF Follows, Syncing
<1>3. ASSUME NEW q \in Requests \ {p}, Follows(q)
      PROVE  proc'[q].raced /\ proc'[p].raced
  <2>1. q \in Others(p) /\ proc[q] \in Process
    BY <1>3 DEF Others, Follows, ProcTyped, Processes
  <2>2. proc'[q].raced
    BY <1>2, <2>1 DEF Process
  <2> QED  BY <1>2, <2>1, <2>2
<1>5. Racing'
  <2>1. ASSUME NEW r \in Requests, NEW q \in Requests, Follows(r)', Follows(q)', r # q
        PROVE  proc'[r].raced
    BY <1>0, <1>3, <2>1
  <2>2. ASSUME NEW r \in Requests, Op(r).kind = "change", proc'[r].pc \in {"start", "write"}
        PROVE  ~proc'[r].raced
    <3>1. r # p /\ Kept(r)
      BY <1>0, <1>2, <2>2
    <3> QED  BY <2>2, <3>1 DEF Synced, Racing, Kept, Follows, Syncing
  <2>3. ASSUME NEW r \in Requests, Op(r).kind = "change", proc'[r].answer = "crashed"
        PROVE  proc'[r].pc = "done"
    BY <1>0, <1>2, <2>3 DEF Synced, Racing, Kept
  <2> QED  BY <1>0, <2>1, <2>2, <2>3, Primed
<1>6. Knows'
  <2> SUFFICES ASSUME NEW r \in Requests, Follows(r)', ~proc'[r].raced
               PROVE  /\ proc'[r].had = (member'[Op(r).user] = "group")
                      /\ proc'[r].pc \in {"list", "allow"} =>
                           proc'[r].staff = (member'[Op(r).user] = "staff")
    BY <1>0, Primed
  <2>1. r = p
    BY <1>0, <1>3
  <2>2. member'[Op(p).user] = Op(p).to
    BY <1>0, <1>1
  <2> QED  BY <1>2, <2>1, <2>2
<1>m. \A u \in Users \ {Op(p).user} : Belongs(u)' <=> Belongs(u)
  BY <1>0, <1>1, Primed DEF Belongs
<1>7. Listed'
  <2> SUFFICES ASSUME NEW r \in Requests, NEW u \in Users, Follows(r)', proc'[r].pc = "allow",
                      ~Excused(u)'
               PROVE  Right(r, u)'
    BY <1>0, Primed
  <2>1. /\ r # p /\ Follows(r) /\ proc[r].pc = "allow" /\ ~Excused(u)
        /\ proc'[r].list = proc[r].list
    BY <1>0, <1>2 DEF Kept, Follows
  <2>2. Right(r, u)
    BY <2>1 DEF Synced, Listed
  <2>3. u # Op(r).user /\ u # Op(p).user
    <3>1. proc'[p].raced /\ proc'[r].raced
      BY <1>3, <2>1
    <3> QED  BY <1>0, <2>1, <3>1, Primed DEF Changes, Follows
  <2> QED  BY <1>0, <1>1, <2>1, <2>2, <2>3, Primed DEF Right
<1>8. Followed'
  <2> SUFFICES ASSUME NEW u \in Users, Wrong(u)', ~Excused(u)'
               PROVE  \E r \in Requests : Follows(r)' /\ Changes(r, u)'
    BY <1>0, Primed
  <2>1. CASE u = Op(p).user
    BY <1>0, <1>2, <2>1, Primed DEF Changes
  <2>2. CASE u # Op(p).user
    <3>1. Wrong(u) /\ ~Excused(u)
      BY <1>0, <1>1, <1>m, <2>2, Primed DEF Wrong
    <3>2. PICK r \in Requests : Follows(r) /\ Changes(r, u)
      BY <3>1 DEF Synced, Followed
    <3>3. r # p
      BY <1>2, <3>2
    <3> QED  BY <1>0, <3>2, <3>3, Primed
  <2> QED  BY <2>1, <2>2
<1> QED
  BY <1>5, <1>6, <1>7, <1>8 DEF Synced

LEMMA SyncedInit == Init => Synced
<1> SUFFICES ASSUME Init PROVE Synced
  OBVIOUS
<1>1. \A r \in Requests : /\ proc[r].answer = "none" /\ proc[r].pc = "start"
                          /\ proc[r].raced = FALSE
  BY DEF Init, Idle, Processes
<1>2. \A r \in Requests : ~Follows(r)
  BY <1>1 DEF Follows, Syncing
<1>3. \A u \in Users : ~Wrong(u)
  BY DEF Init, Wrong, Belongs
<1> QED
  BY <1>1, <1>2, <1>3 DEF Synced, Racing, Knows, Listed, Followed

LEMMA SyncedNext == TypeOK /\ Synced /\ [Next]_vars => Synced'
<1> SUFFICES ASSUME TypeOK, Synced, [Next]_vars PROVE Synced'
  OBVIOUS
<1>0. ProcTyped /\ allowed \subseteq Users /\ member \in [Users -> Standings]
  BY TypeParts DEF PlaceTyped
<1>1. CASE UNCHANGED <<place, proc>>
  <2>1. UNCHANGED <<member, allowed, proc>>
    BY <1>1 DEF place
  <2> QED  BY <2>1 DEF Synced, Racing, Knows, Listed, Followed, Right, Wrong, Follows, Changes,
                   Excused, Belongs, Op
<1>2. ASSUME NEW p \in Processes, Acts(p) PROVE Synced'
  <2>1. Apart(p)
    BY <1>0, <1>2, StepsApart
  <2>2. CASE ~(p \in Requests /\ Op(p).kind = "change")
    BY <1>0, <1>2, <2>1, <2>2, AsideStep
  <2>3. CASE p \in Requests /\ Op(p).kind = "change"
    BY <1>0, <1>2, <2>1, <2>3, ChangeSteps, BeforeStep, RoleStep, ListStep, AllowStep, WriteStep
  <2> QED  BY <2>2, <2>3
<1> QED
  BY <1>1, <1>2, ActsInNext DEF vars, TenMinutes

(***************************************************************************)
(* syncLinkedChannelMembers: when no change is on its way, the list has    *)
(* exactly the company and the staff, but for a user whose change was      *)
(* overlapped, was cut off by a death, or met a deleted conversation.      *)
(***************************************************************************)
THEOREM AccessFollowed == Spec => []AccessExplained
<1>1. Synced => AccessExplained
  <2> SUFFICES ASSUME Synced, Quiet, NEW u \in Users,
                      (u \in allowed) # (member[u] \in {"group", "staff"})
               PROVE  \E r \in Requests : /\ Op(r).kind = "change" /\ Op(r).user = u
                                          /\ proc[r].raced \/ proc[r].answer = "crashed"
    BY DEF AccessExplained
  <2>1. Wrong(u)
    BY DEF Wrong, Belongs
  <2>2. Excused(u)
    BY <2>1 DEF Synced, Followed, Quiet, Follows
  <2> QED  BY <2>2 DEF Excused, Changes
<1> QED
  BY <1>1, TypesInit, TypesNext, SyncedInit, SyncedNext, PTL DEF Spec

=============================================================================
