-------------------------- MODULE MapOperationsProofs --------------------------
(***************************************************************************)
(* The log of a scene, for any number of users, requests and operations:   *)
(* every number of the counter belongs to one request, only what is in the *)
(* log has been broadcast, and every answer says what became of the        *)
(* operation.  What an operation does to the scene plays no part in this,  *)
(* so Update, InverseOp and Normalized stay unexpanded.                    *)
(*                                                                         *)
(* Then of the scene itself: it stays one of its type, and every operation *)
(* is taken back by the inverse stored with it, kind by kind, but for what *)
(* Lossy names.  What the lists of a scene keep (Kept, Without, Find) is   *)
(* shown by climbing the sequence, for lists of any length.  The hits on a *)
(* token add up: a sum over a set is the same in every order, and clamping *)
(* after each hit is clamping the sum.  Last, the log replays: a record    *)
(* that tells all its update did does the same to the same scene, and a    *)
(* fold over the writes is the sequence of scenes that there were.         *)
(***************************************************************************)
EXTENDS MapOperations, SequenceTheorems, NaturalsInduction, WellFoundedInduction,
        FiniteSetTheorems, TLAPS

LocalFields == {"op", "pc", "snap", "payload", "inverse", "seq", "target",
           "untold", "answer"}
RecordFields == {"seq", "payload", "inverse", "by", "undone"}

(* Before a request has a number (or without one), and from the append on. *)
Early == {"start", "load", "write", "allocate", "settle"}
Late == {"emit", "mark", "markOwn"}

Shape ==
  /\ lastSeq \in Nat
  /\ DOMAIN req = Requests /\ \A r \in Requests : DOMAIN req[r] = LocalFields
  /\ DOMAIN log = Requests /\ \A r \in Requests : DOMAIN log[r] = RecordFields

(* A request's number, its place and its record agree. *)
NumberOK(q, entry) ==
  /\ q.seq \in Nat /\ entry.seq \in Nat
  /\ q.pc \in Early \cup Late \cup {"append", "done"}
  /\ entry.seq # 0 => entry.seq = q.seq /\ entry.payload = q.payload
  /\ q.pc \in Early => q.seq = 0
  /\ q.pc = "append" => q.seq # 0 /\ entry.seq = 0
  /\ q.pc \in Late => entry.seq # 0
  /\ q.pc = "done" /\ q.seq # 0 /\ entry.seq = 0 => q.answer = "unlogged"
  /\ q.answer = "unlogged" => q.pc = "done"

Numbers == \A r \in Requests : NumberOK(req[r], log[r])

(* The counter has given every number up to its value to one request. *)
Given ==
  /\ \A n \in 1..lastSeq : \E r \in Requests : req[r].seq = n
  /\ \A r \in Requests : req[r].seq <= lastSeq
  /\ \A q, r \in Requests : req[q].seq = req[r].seq /\ req[q].seq # 0 => q = r

(* The inductive invariant. *)
LogConsistent == Shape /\ Numbers /\ Given /\ BroadcastIsDurable

-----------------------------------------------------------------------------
LEMMA LogInit == Init => LogConsistent
<1> SUFFICES ASSUME Init PROVE LogConsistent
  OBVIOUS
<1>1. \A r \in Requests : /\ DOMAIN req[r] = LocalFields /\ req[r].seq = 0
                          /\ req[r].pc = "start" /\ req[r].answer = "none"
  BY DEF Init, LocalFields
<1>2. \A r \in Requests : DOMAIN log[r] = RecordFields /\ log[r].seq = 0
  BY DEF Init, RecordFields
<1>3. lastSeq = 0 /\ events = {} /\ DOMAIN req = Requests /\ DOMAIN log = Requests
  BY DEF Init
<1>4. Numbers
  BY <1>1, <1>2 DEF Numbers, NumberOK, Early, Late
<1> QED
  BY <1>1, <1>2, <1>3, <1>4 DEF LogConsistent, Shape, Given, BroadcastIsDurable

(* A step of r that leaves counter, log and broadcasts alone. *)
Quiet(r) ==
  /\ UNCHANGED <<lastSeq, log, events>>
  /\ DOMAIN req' = Requests /\ DOMAIN req'[r] = LocalFields
  /\ \A q \in Requests \ {r} : req'[q] = req[q]
  /\ req[r].pc \in Early /\ req'[r].pc \in Early \cup {"done"}
  /\ req'[r].seq = req[r].seq
  /\ req'[r].answer = "unlogged" => req[r].answer = "unlogged"

LEMMA QuietSteps ==
  ASSUME Shape, NEW r \in Requests,
         \/ LoadRefused(r) \/ Load(r) \/ WriteMissed(r) \/ WriteNoop(r)
         \/ WriteFailed(r) \/ WriteNothing(r) \/ Write(r) \/ AllocateGone(r)
         \/ UndoRefused(r) \/ UndoFind(r) \/ DeleteScene(r)
  PROVE  Quiet(r)
<1>1. ASSUME NEW answer, Finish(r, answer), answer # "unlogged", req[r].pc \in Early,
             UNCHANGED <<lastSeq, log, events>>
      PROVE  Quiet(r)
  BY <1>1 DEF Quiet, Shape, Finish, LocalFields
<1>2. Verdict(r) # "unlogged" /\ UndoVerdict(r) # "unlogged"
  BY DEF Verdict, UndoVerdict
<1>3. Loading(r) => req[r].pc \in Early
  BY DEF Loading, Early
<1>4. CASE LoadRefused(r)
  BY <1>1, <1>2, <1>3, <1>4 DEF LoadRefused
<1>5. CASE Load(r)
  BY <1>3, <1>5 DEF Load, Quiet, Shape, LocalFields, Early
<1>6. CASE WriteMissed(r)
  BY <1>1, <1>6 DEF WriteMissed, Early
<1>7. CASE WriteFailed(r)
  BY <1>1, <1>7 DEF WriteFailed, Early
<1>8. CASE WriteNothing(r)
  BY <1>8 DEF WriteNothing, Quiet, Shape, LocalFields, Early
<1>9. CASE Write(r)
  BY <1>9 DEF Write, Quiet, Shape, LocalFields, Early
<1>10. CASE AllocateGone(r)
  BY <1>1, <1>10 DEF AllocateGone, Early
<1>11. CASE UndoRefused(r)
  BY <1>1, <1>2, <1>11 DEF UndoRefused, Early
<1>12. CASE UndoFind(r)
  <2>1. PICK q \in Undoable(User(r)) :
          req' = [req EXCEPT ![r].pc = "load", ![r].target = q,
                             ![r].payload = log[q].inverse]
    BY <1>12 DEF UndoFind
  <2>2. req[r].pc = "start" /\ UNCHANGED <<lastSeq, log, events>>
    BY <1>12 DEF UndoFind
  <2> QED
    BY <2>1, <2>2 DEF Quiet, Shape, LocalFields, Early
<1>13. CASE DeleteScene(r)
  BY <1>1, <1>13 DEF DeleteScene, Early
<1>14. CASE WriteNoop(r)
  <2>1. CASE Op(r).kind = "undo"
    BY <1>14, <2>1 DEF WriteNoop, Quiet, Shape, LocalFields, Early
  <2>2. CASE Op(r).kind # "undo"
    BY <1>1, <1>14, <2>2 DEF WriteNoop, Early
  <2> QED
    BY <2>1, <2>2
<1> QED
  BY <1>14, <1>4, <1>5, <1>6, <1>7, <1>8, <1>9, <1>10, <1>11, <1>12, <1>13

LEMMA QuietKeeps ==
  ASSUME LogConsistent, NEW r \in Requests, Quiet(r)
  PROVE  LogConsistent'
<1> USE DEF LogConsistent, Shape, Quiet
<1>1. Shape'
  OBVIOUS
<1>2. Numbers'
  BY DEF Numbers, NumberOK, Early, Late
<1>3. Given'
  BY DEF Given
<1>4. BroadcastIsDurable'
  BY DEF BroadcastIsDurable, Logged
<1> QED
  BY <1>1, <1>2, <1>3, <1>4

-----------------------------------------------------------------------------
LEMMA AllocateKeeps ==
  ASSUME LogConsistent, NEW r \in Requests, Allocate(r)
  PROVE  LogConsistent'
<1> USE DEF LogConsistent, Shape
<1>1. /\ req'[r].seq = lastSeq + 1 /\ req'[r].pc = "append"
      /\ req'[r].answer = req[r].answer /\ req'[r].payload = req[r].payload
      /\ \A q \in Requests \ {r} : req'[q] = req[q]
      /\ lastSeq' = lastSeq + 1 /\ UNCHANGED <<log, events>>
      /\ req[r].pc = "allocate"
  BY DEF Allocate, LocalFields
<1>2. Shape'
  BY DEF Allocate, LocalFields
<1>3. req[r].seq = 0 /\ log[r].seq = 0 /\ req[r].answer # "unlogged"
  BY <1>1 DEF Numbers, NumberOK, Early
<1>4. Numbers'
  BY <1>1, <1>3 DEF Numbers, NumberOK, Early, Late
<1>5. Given'
  <2>1. \A n \in 1..lastSeq' : \E q \in Requests : req'[q].seq = n
    <3> SUFFICES ASSUME NEW n \in 1..lastSeq' PROVE \E q \in Requests : req'[q].seq = n
      OBVIOUS
    <3>1. CASE n = lastSeq + 1
      BY <1>1, <3>1
    <3>2. CASE n # lastSeq + 1
      <4>1. n \in 1..lastSeq
        BY <1>1, <3>2
      <4>2. PICK q \in Requests : req[q].seq = n
        BY <4>1 DEF Given
      <4>3. q # r
        BY <1>3, <4>1, <4>2
      <4> QED
        BY <1>1, <4>2, <4>3
    <3> QED
      BY <3>1, <3>2
  <2>2. \A q \in Requests : req[q].seq \in Nat /\ req[q].seq <= lastSeq
    BY DEF Given, Numbers, NumberOK
  <2> QED
    BY <1>1, <2>1, <2>2 DEF Given
<1>6. BroadcastIsDurable'
  BY <1>1 DEF BroadcastIsDurable, Logged
<1> QED
  BY <1>2, <1>4, <1>5, <1>6

(* The number a request is about to log is in no record: the unique index *)
(* never refuses it.                                                       *)
LEMMA NumberFree ==
  ASSUME LogConsistent, NEW r \in Requests, req[r].pc = "append"
  PROVE  ~SeqTaken(req[r].seq) /\ req[r].seq # 0 /\ log[r].seq = 0
BY DEF LogConsistent, Numbers, NumberOK, Given, SeqTaken

LEMMA AppendKeeps ==
  ASSUME LogConsistent, NEW r \in Requests, AppendRecord(r)
  PROVE  LogConsistent'
<1> USE DEF LogConsistent, Shape
<1>1. ~SeqTaken(req[r].seq) /\ req[r].seq # 0 /\ log[r].seq = 0
  BY NumberFree DEF AppendRecord
<1>2. /\ log'[r].seq = req[r].seq /\ log'[r].payload = req[r].payload
      /\ \A q \in Requests \ {r} : log'[q] = log[q] /\ req'[q] = req[q]
      /\ req'[r].pc = "emit" /\ req'[r].seq = req[r].seq
      /\ req'[r].answer = req[r].answer /\ req'[r].payload = req[r].payload
      /\ UNCHANGED <<lastSeq, events>> /\ req[r].pc = "append"
  BY <1>1 DEF AppendRecord, LocalFields, RecordFields
<1>3. Shape'
  BY <1>1 DEF AppendRecord, LocalFields, RecordFields
<1>4. Numbers'
  BY <1>1, <1>2 DEF Numbers, NumberOK, Early, Late
<1>5. Given'
  BY <1>2 DEF Given
<1>6. BroadcastIsDurable'
  BY <1>1, <1>2 DEF BroadcastIsDurable, Logged
<1> QED
  BY <1>3, <1>4, <1>5, <1>6

LEMMA EmitKeeps ==
  ASSUME LogConsistent, NEW r \in Requests, Emit(r)
  PROVE  LogConsistent'
<1> USE DEF LogConsistent, Shape
<1>1. /\ \A q \in Requests \ {r} : req'[q] = req[q]
      /\ req'[r].pc \in {"mark", "done"} /\ req'[r].seq = req[r].seq
      /\ req'[r].payload = req[r].payload
      /\ req'[r].answer \in {req[r].answer, "ok"}
      /\ UNCHANGED <<lastSeq, log>> /\ req[r].pc = "emit"
  BY DEF Emit, Finish, LocalFields
<1>2. Shape'
  BY DEF Emit, Finish, LocalFields
<1>3. /\ log[r].seq # 0 /\ log[r].seq \in Nat /\ log[r].seq = req[r].seq
      /\ log[r].payload = req[r].payload
  BY <1>1 DEF Numbers, NumberOK, Late
<1>4. Numbers'
  BY <1>1, <1>3 DEF Numbers, NumberOK, Early, Late
<1>5. Given'
  BY <1>1 DEF Given
<1>6. BroadcastIsDurable'
  <2> SUFFICES ASSUME NEW e \in events'
               PROVE  \E q \in Requests :
                        log[q].seq > 0 /\ e = [seq |-> log[q].seq, payload |-> log[q].payload]
    BY <1>1 DEF BroadcastIsDurable, Logged
  <2>1. CASE e \in events
    BY <2>1 DEF BroadcastIsDurable, Logged
  <2>2. CASE e = [seq |-> req[r].seq, payload |-> req[r].payload]
    BY <1>3, <2>2
  <2> QED
    BY <2>1, <2>2 DEF Emit
<1> QED
  BY <1>2, <1>4, <1>5, <1>6

(* Marking a record changes nothing but its mark. *)
LEMMA MarkKeeps ==
  ASSUME LogConsistent, NEW r \in Requests, MarkTarget(r) \/ MarkOwn(r) \/ MarkNoop(r)
  PROVE  LogConsistent'
<1> USE DEF LogConsistent, Shape
<1>1. /\ \A q \in Requests \ {r} : req'[q] = req[q]
      /\ \/ req[r].pc \in Late /\ req'[r].pc \in Late \cup {"done"}
         \/ req[r].pc = "settle" /\ req'[r].pc = "done" /\ req[r].seq = 0
      /\ req'[r].seq = req[r].seq /\ req'[r].payload = req[r].payload
      /\ req'[r].answer \in {req[r].answer, "ok", "noop"}
      /\ UNCHANGED <<lastSeq, events>>
  BY DEF MarkTarget, MarkOwn, MarkNoop, Finish, LocalFields, Late,
         Numbers, NumberOK, Early
<1>2. \A q \in Requests : /\ log'[q].seq = log[q].seq
                          /\ log'[q].payload = log[q].payload
  BY DEF MarkTarget, MarkOwn, MarkNoop, RecordFields
<1>3. Shape'
  BY DEF MarkTarget, MarkOwn, MarkNoop, Finish, LocalFields, RecordFields
<1>4. Numbers'
  BY <1>1, <1>2 DEF Numbers, NumberOK, Early, Late
<1>5. Given'
  BY <1>1 DEF Given
<1>6. BroadcastIsDurable'
  BY <1>1, <1>2 DEF BroadcastIsDurable, Logged
<1> QED
  BY <1>3, <1>4, <1>5, <1>6

LEMMA CrashKeeps ==
  ASSUME LogConsistent, NEW r \in Requests, Fail(r) \/ Crash(r)
  PROVE  LogConsistent'
<1> USE DEF LogConsistent, Shape
<1>1. /\ \A q \in Requests \ {r} : req'[q] = req[q]
      /\ req'[r].pc = "done" /\ req'[r].answer = CutShort(r)
      /\ req'[r].seq = req[r].seq /\ req'[r].payload = req[r].payload
      /\ UNCHANGED <<lastSeq, log, events>>
      /\ req[r].pc \in Commands \cup {"emit"}
  BY DEF Fail, Crash, Finish, LocalFields
<1>2. Shape'
  BY DEF Fail, Crash, Finish, LocalFields
<1>3. Numbers'
  <2>1. req'[r].seq # 0 /\ log[r].seq = 0 => req'[r].answer = "unlogged"
    BY <1>1 DEF Numbers, NumberOK, Early, Late, Commands, CutShort
  <2>2. NumberOK(req'[r], log'[r])
    BY <1>1, <2>1 DEF Numbers, NumberOK, Early, Late
  <2> QED
    BY <1>1, <2>2 DEF Numbers
<1>4. Given'
  BY <1>1 DEF Given
<1>5. BroadcastIsDurable'
  BY <1>1 DEF BroadcastIsDurable, Logged
<1> QED
  BY <1>2, <1>3, <1>4, <1>5

LEMMA LogNext == LogConsistent /\ [Next]_vars => LogConsistent'
<1> SUFFICES ASSUME LogConsistent, [Next]_vars PROVE LogConsistent'
  OBVIOUS
<1>1. CASE UNCHANGED vars
  BY <1>1 DEF vars, LogConsistent, Shape, Numbers, NumberOK, Given,
              BroadcastIsDurable, Logged
<1>2. ASSUME NEW r \in Requests, Step(r) PROVE LogConsistent'
  <2>1. Shape
    BY DEF LogConsistent
  <2>2. CASE Allocate(r)
    BY <2>2, AllocateKeeps
  <2>3. CASE AppendRecord(r)
    BY <2>3, AppendKeeps
  <2>4. CASE Emit(r)
    BY <2>4, EmitKeeps
  <2>5. CASE MarkTarget(r) \/ MarkOwn(r) \/ MarkNoop(r)
    BY <2>5, MarkKeeps
  <2>6. CASE Fail(r) \/ Crash(r)
    BY <2>6, CrashKeeps
  <2>7. CASE \/ LoadRefused(r) \/ Load(r) \/ WriteMissed(r) \/ WriteNoop(r)
             \/ WriteFailed(r)
             \/ WriteNothing(r) \/ Write(r) \/ AllocateGone(r)
             \/ UndoRefused(r) \/ UndoFind(r) \/ DeleteScene(r)
    BY <2>1, <2>7, QuietSteps, QuietKeeps
  <2> QED
    BY <1>2, <2>2, <2>3, <2>4, <2>5, <2>6, <2>7 DEF Step
<1> QED
  BY <1>1, <1>2 DEF Next

-----------------------------------------------------------------------------
LEMMA ConsistentGapless == LogConsistent => SeqGapless
<1> SUFFICES ASSUME LogConsistent PROVE SeqGapless
  OBVIOUS
<1> USE DEF LogConsistent, Numbers, NumberOK, Given
<1>1. ASSUME NEW n \in 1..lastSeq
      PROVE  \E r \in Requests : Holds(r, n) /\ \A q \in Requests \ {r} : ~Holds(q, n)
  <2>1. n # 0
    BY DEF Shape
  <2>2. PICK r \in Requests : req[r].seq = n
    BY <1>1
  <2>3. Holds(r, n)
    BY <2>1, <2>2 DEF Holds, Early, Late
  <2>4. ASSUME NEW q \in Requests \ {r} PROVE ~Holds(q, n)
    BY <2>1, <2>2, <2>4 DEF Holds
  <2> QED
    BY <2>3, <2>4
<1>2. ASSUME NEW r \in Requests PROVE log[r].seq <= lastSeq
  BY DEF Shape
<1> QED
  BY <1>1, <1>2 DEF SeqGapless

(***************************************************************************)
(* Every number the counter has given out belongs to exactly one request,  *)
(* which has logged it, is about to, or failed or died before it could; no *)
(* record is beyond the counter.                                           *)
(***************************************************************************)
THEOREM LogGapless == Spec => []SeqGapless
<1>1. LogConsistent => SeqGapless
  BY ConsistentGapless
<1> QED
  BY LogInit, LogNext, <1>1, PTL DEF Spec

(* Whatever has been broadcast is in the log, with the number it was sent. *)
THEOREM BroadcastDurable == Spec => []BroadcastIsDurable
<1>1. LogConsistent => BroadcastIsDurable
  BY DEF LogConsistent
<1> QED
  BY LogInit, LogNext, <1>1, PTL DEF Spec

-----------------------------------------------------------------------------
(***************************************************************************)
(* What an answer says of the log, the broadcasts and the scene.           *)
(***************************************************************************)
(* Where a request is that has been through its update command, and of     *)
(* these, where one is that will answer "ok" or be cut short.              *)
Written == {"allocate", "append", "emit", "mark", "markOwn"}

(* A step of r at most; a record once marked stays marked, what was        *)
(* broadcast and written stays so, and a deleted scene stays deleted.      *)
Onward(r) ==
  /\ \A q \in Requests \ {r} : req'[q] = req[q]
  /\ req'[r].op = req[r].op
  /\ events \subseteq events'
  /\ \A q \in Requests : /\ log'[q].seq = log[q].seq \/ (q = r /\ req[r].pc = "append")
                         /\ log[q].undone => log'[q].undone
  /\ scene = NoScene => scene' = NoScene
  /\ writes' \in {writes, Append(writes, r)}

(* What holds of a request on its way to an answer.  A refused update of   *)
(* an undo only marks its target (settle).                                 *)
OnItsWay(r) ==
  /\ req[r].pc # "done" => req[r].answer = "none"
  /\ r \in Range(writes) => req[r].pc \in Written \cup {"done"}
  /\ req[r].pc \in Written => r \in Range(writes) \/ scene = NoScene
  /\ req[r].pc \in {"mark", "markOwn"} => \E e \in events : e.seq = log[r].seq
  /\ Op(r).kind = "undo" /\ req[r].pc \notin {"start", "done"} => req[r].target \in Requests
  /\ req[r].pc = "markOwn" => Op(r).kind = "undo" /\ log[req[r].target].undone
  /\ req[r].pc \in {"mark", "markOwn", "load", "settle"} => Op(r).kind = "undo"

Cut == {"unlogged", "unsent", "unmarked"}

Truthful(r) ==
  /\ req[r].answer = "ok" /\ Op(r).kind # "delete" =>
       /\ Logged(r) /\ \E e \in events : e.seq = log[r].seq
       /\ r \in Range(writes) \/ scene = NoScene
  /\ req[r].answer = "ok" /\ Op(r).kind = "undo" =>
       /\ log[r].undone /\ req[r].target \in Requests /\ log[req[r].target].undone
  /\ req[r].answer = "unlogged" =>
       ~Logged(r) /\ (r \in Range(writes) \/ scene = NoScene)
  /\ req[r].answer = "unsent" =>
       Logged(r) /\ (r \in Range(writes) \/ scene = NoScene)
  /\ req[r].answer = "unmarked" =>
       /\ Op(r).kind = "undo"
       /\ Logged(r) => /\ \E e \in events : e.seq = log[r].seq
                       /\ r \in Range(writes) \/ scene = NoScene
       /\ ~Logged(r) => r \notin Range(writes)
  /\ req[r].answer \notin {"none", "ok"} \cup Cut =>
       ~Logged(r) /\ (r \in Range(writes) => scene = NoScene)

(* The inductive invariant. *)
Answered == writes \in Seq(Requests) /\ \A r \in Requests : OnItsWay(r) /\ Truthful(r)

LEMMA AnsweredInit == Init => Answered
<1> SUFFICES ASSUME Init PROVE Answered
  OBVIOUS
<1>1. \A r \in Requests : req[r].pc = "start" /\ req[r].answer = "none"
  BY DEF Init
<1>2. writes = <<>> /\ Range(writes) = {}
  BY DEF Init, Range
<1> QED
  BY <1>1, <1>2 DEF Answered, OnItsWay, Truthful, Written

LEMMA RangeAppend ==
  ASSUME NEW S, NEW s \in Seq(S), NEW e \in S
  PROVE  Range(Append(s, e)) = Range(s) \cup {e} /\ Append(s, e) \in Seq(S)
<1> DEFINE t == Append(s, e)
<1>1. /\ t \in Seq(S) /\ DOMAIN t = 1..(Len(s) + 1) /\ DOMAIN s = 1..Len(s) /\ Len(s) \in Nat
      /\ t[Len(s) + 1] = e /\ \A i \in 1..Len(s) : t[i] = s[i]
  BY AppendProperties
<1> HIDE DEF t
<1>2. ASSUME NEW x \in Range(t)  PROVE x \in Range(s) \cup {e}
  <2>1. PICK i \in 1..(Len(s) + 1) : x = t[i]
    BY <1>1 DEF Range
  <2>2. CASE i = Len(s) + 1
    BY <1>1, <2>1, <2>2
  <2>3. CASE i \in 1..Len(s)
    BY <1>1, <2>1, <2>3 DEF Range
  <2> QED  BY <1>1, <2>2, <2>3
<1>3. Range(s) \subseteq Range(t)
  BY <1>1 DEF Range
<1>4. e \in Range(t)
  <2>1. Len(s) + 1 \in DOMAIN t
    BY <1>1
  <2> QED  BY <1>1, <2>1 DEF Range
<1> QED  BY <1>1, <1>2, <1>3, <1>4 DEF t

(* What a step of r does to writes, as seen from any request. *)
LEMMA WritesAhead ==
  ASSUME Answered, NEW r \in Requests, Onward(r)
  PROVE  /\ writes' \in Seq(Requests)
         /\ \A q \in Requests \ {r} : (q \in Range(writes))' <=> q \in Range(writes)
<1>1. CASE writes' = writes
  BY <1>1 DEF Answered
<1>2. CASE writes' = Append(writes, r)
  <2>1. /\ Range(Append(writes, r)) = Range(writes) \cup {r}
        /\ Append(writes, r) \in Seq(Requests)
    BY RangeAppend DEF Answered
  <2> QED
    BY <1>2, <2>1
<1> QED
  BY <1>1, <1>2 DEF Onward

LEMMA OthersAnswered ==
  ASSUME Answered, NEW r \in Requests, Onward(r), NEW q \in Requests \ {r}
  PROVE  OnItsWay(q)' /\ Truthful(q)'
<1>1. OnItsWay(q) /\ Truthful(q)
  BY DEF Answered
<1>2. (q \in Range(writes))' <=> q \in Range(writes)
  BY WritesAhead
<1>3. /\ req'[q] = req[q] /\ log'[q].seq = log[q].seq /\ events \subseteq events'
      /\ \A o \in Requests : log[o].undone => log'[o].undone
      /\ scene = NoScene => scene' = NoScene
  BY DEF Onward
<1>4. req[q].answer = "ok" /\ Op(q).kind = "undo" => req[q].target \in Requests
  BY <1>1 DEF Truthful
<1>5. req[q].pc = "markOwn" => req[q].target \in Requests
  BY <1>1 DEF OnItsWay
<1>6. OnItsWay(q)'
  BY <1>1, <1>2, <1>3, <1>5 DEF OnItsWay, Op
<1>7. Truthful(q)'
  BY <1>1, <1>2, <1>3, <1>4 DEF Truthful, Logged, Op
<1> QED
  BY <1>6, <1>7

Own(r) == Onward(r) /\ OnItsWay(r)' /\ Truthful(r)'

LEMMA OwnKeeps ==
  ASSUME Answered, NEW r \in Requests, Own(r)
  PROVE  Answered'
<1>1. writes' \in Seq(Requests)
  BY WritesAhead DEF Own
<1>2. ASSUME NEW q \in Requests PROVE OnItsWay(q)' /\ Truthful(q)'
  BY OthersAnswered DEF Own
<1> QED
  BY <1>1, <1>2 DEF Answered

(* A refusal, before anything was logged and, unless the scene is gone,    *)
(* before anything was written.                                            *)
LEMMA RefusalOwn ==
  ASSUME LogConsistent, Answered, NEW r \in Requests, NEW answer,
         Finish(r, answer), UNCHANGED <<scene, log, events, writes>>,
         answer \in Answers \ ({"none", "ok"} \cup Cut), req[r].pc \in Early,
         req[r].pc = "allocate" => scene = NoScene
  PROVE  Own(r)
<1>1. /\ \A q \in Requests \ {r} : req'[q] = req[q]
      /\ req'[r].op = req[r].op /\ req'[r].pc = "done" /\ req'[r].answer = answer
      /\ req'[r].target = req[r].target
  BY DEF Finish, LogConsistent, Shape, LocalFields
<1>2. OnItsWay(r) /\ Truthful(r) /\ ~Logged(r)
  BY DEF Answered, LogConsistent, Numbers, NumberOK, Logged, Early
<1>3. Onward(r)
  BY <1>1 DEF Onward
<1>4. r \in Range(writes) => scene = NoScene
  BY <1>2 DEF OnItsWay, Written, Early
<1>5. OnItsWay(r)'
  BY <1>1 DEF OnItsWay, Written
<1>6. Truthful(r)'
  BY <1>1, <1>2, <1>4 DEF Truthful, Logged, Op, Cut
<1> QED
  BY <1>3, <1>5, <1>6 DEF Own

(* A request is cut short: where it was says what it leaves. *)
LEMMA CrashOwn ==
  ASSUME LogConsistent, Answered, NEW r \in Requests, Fail(r) \/ Crash(r)
  PROVE  Own(r)
<1>1. /\ \A q \in Requests \ {r} : req'[q] = req[q]
      /\ req'[r].op = req[r].op /\ req'[r].pc = "done" /\ req'[r].answer = CutShort(r)
      /\ req'[r].target = req[r].target
      /\ UNCHANGED <<scene, log, events, writes>>
      /\ req[r].pc \in Commands \cup {"emit"}
  BY DEF Fail, Crash, Finish, LogConsistent, Shape, LocalFields
<1>2. OnItsWay(r) /\ NumberOK(req[r], log[r])
  BY DEF Answered, LogConsistent, Numbers
<1>3. Onward(r)
  BY <1>1 DEF Onward
<1>4. OnItsWay(r)'
  BY <1>1 DEF OnItsWay, Written
<1>5. Truthful(r)'
  <2>1. CASE req[r].pc \in {"allocate", "append"}
    <3>1. req'[r].answer = "unlogged"
      BY <1>1, <2>1 DEF CutShort
    <3>2. ~Logged(r) /\ (r \in Range(writes) \/ scene = NoScene)
      BY <1>2, <2>1 DEF OnItsWay, NumberOK, Early, Logged, Written
    <3> QED
      BY <1>1, <3>1, <3>2 DEF Truthful, Logged, Cut
  <2>2. CASE req[r].pc = "emit"
    <3>1. req'[r].answer = "unsent"
      BY <1>1, <2>2 DEF CutShort
    <3>2. Logged(r) /\ (r \in Range(writes) \/ scene = NoScene)
      BY <1>2, <2>2 DEF OnItsWay, NumberOK, Late, Logged, Written
    <3> QED
      BY <1>1, <3>1, <3>2 DEF Truthful, Logged, Cut
  <2>3. CASE req[r].pc \in {"mark", "markOwn", "settle"}
    <3>1. req'[r].answer = "unmarked"
      BY <1>1, <2>3 DEF CutShort
    <3>2. Op(r).kind = "undo"
      BY <1>2, <2>3 DEF OnItsWay
    <3>3. Logged(r) => /\ \E e \in events : e.seq = log[r].seq
                       /\ r \in Range(writes) \/ scene = NoScene
      BY <1>2, <2>3 DEF OnItsWay, NumberOK, Early, Logged, Written
    <3>4. ~Logged(r) => r \notin Range(writes)
      BY <1>2, <2>3 DEF OnItsWay, NumberOK, Late, Logged, Written
    <3> QED
      BY <1>1, <3>1, <3>2, <3>3, <3>4 DEF Truthful, Logged, Op, Cut
  <2> QED
    BY <1>1, <2>1, <2>2, <2>3 DEF Commands
<1> QED
  BY <1>3, <1>4, <1>5 DEF Own

(* The steps that go on without an answer. *)
LEMMA LoadOwn ==
  ASSUME LogConsistent, Answered, NEW r \in Requests, Load(r) \/ UndoFind(r)
  PROVE  Own(r)
<1>1. OnItsWay(r) /\ Truthful(r)
  BY DEF Answered
<1>2. /\ req[r].pc \in {"start", "load"} /\ UNCHANGED <<scene, log, events, writes>>
      /\ req[r].pc = "start" => Op(r).kind \in {"apply", "undo"}
  BY DEF Load, Loading, UndoFind
<1>3. /\ \A q \in Requests \ {r} : req'[q] = req[q]
      /\ req'[r].op = req[r].op /\ req'[r].answer = req[r].answer
      /\ req'[r].pc \in {"write", "load"}
      /\ req'[r].pc = "load" => Op(r).kind = "undo" /\ req[r].pc = "start"
      /\ Op(r).kind = "undo" => req'[r].target \in Requests
  <2>1. CASE Load(r)
    <3>1. Op(r).kind = "undo" => req[r].target \in Requests
      BY <1>1, <2>1 DEF OnItsWay, Load, Loading
    <3> QED
      BY <2>1, <3>1 DEF Load, LogConsistent, Shape, LocalFields
  <2>2. CASE UndoFind(r)
    <3>1. PICK q \in Undoable(User(r)) :
            req' = [req EXCEPT ![r].pc = "load", ![r].target = q,
                               ![r].payload = log[q].inverse]
      BY <2>2 DEF UndoFind
    <3>2. q \in Requests
      BY DEF Undoable
    <3>3. req[r].pc = "start" /\ Op(r).kind = "undo"
      BY <2>2 DEF UndoFind
    <3> QED
      BY <3>1, <3>2, <3>3 DEF LogConsistent, Shape, LocalFields
  <2> QED
    BY <2>1, <2>2
<1>4. req[r].answer = "none" /\ r \notin Range(writes)
  BY <1>1, <1>2 DEF OnItsWay, Written
<1>5. Onward(r)
  BY <1>2, <1>3 DEF Onward
<1>6. OnItsWay(r)'
  BY <1>2, <1>3, <1>4 DEF OnItsWay, Written, Op
<1>7. Truthful(r)'
  BY <1>3, <1>4 DEF Truthful
<1> QED
  BY <1>5, <1>6, <1>7 DEF Own

LEMMA WriteOwn ==
  ASSUME LogConsistent, Answered, NEW r \in Requests,
         Write(r) \/ WriteNothing(r) \/ (WriteNoop(r) /\ Op(r).kind = "undo")
  PROVE  Own(r)
<1>1. OnItsWay(r) /\ Truthful(r)
  BY DEF Answered
<1>2. /\ req[r].pc = "write" /\ UNCHANGED <<log, events>>
      /\ req[r].answer = "none" /\ r \notin Range(writes)
  BY <1>1 DEF Write, WriteNothing, WriteNoop, OnItsWay, Written
<1>3. /\ \A q \in Requests \ {r} : req'[q] = req[q]
      /\ req'[r].op = req[r].op /\ req'[r].answer = req[r].answer
      /\ req'[r].target = req[r].target
      /\ req'[r].pc \in {"allocate", "settle"}
      /\ req'[r].pc = "settle" => Op(r).kind = "undo"
  BY DEF Write, WriteNothing, WriteNoop, LogConsistent, Shape, LocalFields
<1>4. CASE Write(r)
  <2>1. scene # NoScene /\ writes' = Append(writes, r)
    BY <1>4 DEF Write
  <2>2. Onward(r)
    BY <1>2, <1>3, <2>1 DEF Onward
  <2>3. r \in Range(writes')
    BY <2>1, RangeAppend DEF Answered
  <2>4. req'[r].pc = "allocate"
    BY <1>4 DEF Write, LogConsistent, Shape, LocalFields
  <2>5. OnItsWay(r)'
    BY <1>1, <1>2, <1>3, <2>3, <2>4 DEF OnItsWay, Written, Op
  <2>6. Truthful(r)'
    BY <1>2, <1>3 DEF Truthful
  <2> QED
    BY <2>2, <2>5, <2>6 DEF Own
<1>5. CASE ~Write(r)
  <2>1. UNCHANGED <<scene, writes>>
    BY <1>5 DEF WriteNothing, WriteNoop
  <2>2. req'[r].pc = "allocate" => scene = NoScene
    BY <1>5 DEF WriteNothing, WriteNoop, LogConsistent, Shape, LocalFields
  <2>3. Onward(r)
    BY <1>2, <1>3, <2>1 DEF Onward
  <2>4. OnItsWay(r)'
    BY <1>1, <1>2, <1>3, <2>1, <2>2 DEF OnItsWay, Written, Op
  <2>5. Truthful(r)'
    BY <1>2, <1>3 DEF Truthful
  <2> QED
    BY <2>3, <2>4, <2>5 DEF Own
<1> QED
  BY <1>4, <1>5

(* The number, the record and the broadcast. *)
LEMMA LogOwn ==
  ASSUME LogConsistent, Answered, NEW r \in Requests,
         Allocate(r) \/ AppendRecord(r) \/ Emit(r)
  PROVE  Own(r)
<1>1. OnItsWay(r) /\ Truthful(r)
  BY DEF Answered
<1>2. /\ req[r].pc \in {"allocate", "append", "emit"} /\ UNCHANGED <<scene, writes>>
      /\ req[r].answer = "none" /\ (r \in Range(writes) \/ scene = NoScene)
  BY <1>1 DEF Allocate, AppendRecord, Emit, OnItsWay, Written
<1>3. CASE Allocate(r)
  <2>1. /\ \A q \in Requests \ {r} : req'[q] = req[q]
        /\ req'[r].op = req[r].op /\ req'[r].answer = req[r].answer
        /\ req'[r].target = req[r].target /\ req'[r].pc = "append"
        /\ UNCHANGED <<log, events>>
    BY <1>3 DEF Allocate, LogConsistent, Shape, LocalFields
  <2>2. Onward(r)
    BY <1>2, <2>1 DEF Onward
  <2>3. OnItsWay(r)' /\ Truthful(r)'
    BY <1>1, <1>2, <2>1 DEF OnItsWay, Truthful, Written, Op
  <2> QED
    BY <2>2, <2>3 DEF Own
<1>4. CASE AppendRecord(r)
  <2>1. ~SeqTaken(req[r].seq)
    BY <1>4, NumberFree DEF AppendRecord
  <2>2. /\ \A q \in Requests \ {r} : req'[q] = req[q] /\ log'[q] = log[q]
        /\ req'[r].op = req[r].op /\ req'[r].answer = req[r].answer
        /\ req'[r].target = req[r].target /\ req'[r].pc = "emit"
        /\ log'[r].undone = log[r].undone /\ UNCHANGED events /\ req[r].pc = "append"
    BY <1>4, <2>1 DEF AppendRecord, LogConsistent, Shape, LocalFields, RecordFields
  <2>3. Onward(r)
    BY <1>2, <2>2 DEF Onward
  <2>4. OnItsWay(r)' /\ Truthful(r)'
    BY <1>1, <1>2, <2>2 DEF OnItsWay, Truthful, Written, Op
  <2> QED
    BY <2>3, <2>4 DEF Own
<1>5. CASE Emit(r)
  <2>1. /\ \A q \in Requests \ {r} : req'[q] = req[q]
        /\ req'[r].op = req[r].op /\ req'[r].target = req[r].target
        /\ \/ req'[r].pc = "mark" /\ req'[r].answer = "none" /\ Op(r).kind = "undo"
           \/ req'[r].pc = "done" /\ req'[r].answer = "ok" /\ Op(r).kind # "undo"
        /\ UNCHANGED log /\ req[r].pc = "emit"
        /\ events' = events \cup {[seq |-> req[r].seq, payload |-> req[r].payload]}
    BY <1>2, <1>5 DEF Emit, Finish, LogConsistent, Shape, LocalFields
  <2>2. Logged(r) /\ log[r].seq = req[r].seq
    BY <2>1 DEF LogConsistent, Numbers, NumberOK, Late, Logged
  <2>3. \E e \in events' : e.seq = log'[r].seq
    <3>1. [seq |-> req[r].seq, payload |-> req[r].payload] \in events'
      BY <2>1
    <3>2. [seq |-> req[r].seq, payload |-> req[r].payload].seq = log'[r].seq
      BY <2>1, <2>2
    <3> QED
      BY <3>1, <3>2
  <2>4. Onward(r)
    BY <1>2, <2>1 DEF Onward
  <2>5. OnItsWay(r)'
    BY <1>1, <1>2, <2>1, <2>3 DEF OnItsWay, Written, Op
  <2>6. Truthful(r)'
    BY <1>1, <1>2, <2>1, <2>2, <2>3 DEF Truthful, Logged, Op
  <2> QED
    BY <2>4, <2>5, <2>6 DEF Own
<1> QED
  BY <1>3, <1>4, <1>5

(* The marks of an undo. *)
LEMMA MarkOwnKept ==
  ASSUME LogConsistent, Answered, NEW r \in Requests,
         MarkTarget(r) \/ MarkOwn(r) \/ MarkNoop(r)
  PROVE  Own(r)
<1>1. OnItsWay(r) /\ Truthful(r)
  BY DEF Answered
<1>2. /\ req[r].pc \in {"mark", "markOwn", "settle"} /\ UNCHANGED <<scene, writes, events>>
      /\ req[r].answer = "none" /\ Op(r).kind = "undo" /\ req[r].target \in Requests
  BY <1>1 DEF MarkTarget, MarkOwn, MarkNoop, OnItsWay, Written
<1>3. \A q \in Requests : /\ log'[q].seq = log[q].seq
                          /\ log[q].undone => log'[q].undone
  BY DEF MarkTarget, MarkOwn, MarkNoop, LogConsistent, Shape, RecordFields
<1>4. /\ \A q \in Requests \ {r} : req'[q] = req[q]
      /\ req'[r].op = req[r].op /\ req'[r].target = req[r].target
  BY DEF MarkTarget, MarkOwn, MarkNoop, Finish, LogConsistent, Shape, LocalFields
<1>5. Onward(r)
  BY <1>2, <1>3, <1>4 DEF Onward
<1>6. CASE MarkTarget(r)
  <2>1. req[r].pc = "mark" /\ req'[r].pc = "markOwn" /\ req'[r].answer = "none"
    BY <1>2, <1>6 DEF MarkTarget, LogConsistent, Shape, LocalFields
  <2>2. log'[req[r].target].undone
    BY <1>2, <1>6 DEF MarkTarget, LogConsistent, Shape, RecordFields
  <2>3. OnItsWay(r)' /\ Truthful(r)'
    BY <1>1, <1>2, <1>3, <1>4, <2>1, <2>2 DEF OnItsWay, Truthful, Written, Op
  <2> QED
    BY <1>5, <2>3 DEF Own
<1>7. CASE MarkOwn(r)
  <2>1. req[r].pc = "markOwn" /\ req'[r].pc = "done" /\ req'[r].answer = "ok"
    BY <1>7 DEF MarkOwn, Finish, LogConsistent, Shape, LocalFields
  <2>2. log'[r].undone /\ log'[req[r].target].undone
    <3>1. log'[r].undone
      BY <1>7 DEF MarkOwn, LogConsistent, Shape, RecordFields
    <3>2. log[req[r].target].undone
      BY <1>1, <2>1 DEF OnItsWay
    <3> QED
      BY <1>2, <1>3, <3>1, <3>2
  <2>3. Logged(r)
    BY <2>1 DEF LogConsistent, Numbers, NumberOK, Late, Logged
  <2>4. OnItsWay(r)'
    BY <1>1, <2>1 DEF OnItsWay, Written
  <2>5. Truthful(r)'
    <3>1. /\ r \in Range(writes) \/ scene = NoScene
          /\ \E e \in events : e.seq = log[r].seq
      BY <1>1, <2>1 DEF OnItsWay, Written
    <3> QED
      BY <1>2, <1>3, <1>4, <2>1, <2>2, <2>3, <3>1 DEF Truthful, Logged, Op
  <2> QED
    BY <1>5, <2>4, <2>5 DEF Own
<1>8. CASE MarkNoop(r)
  <2>1. req[r].pc = "settle" /\ req'[r].pc = "done" /\ req'[r].answer = "noop"
    BY <1>8 DEF MarkNoop, Finish, LogConsistent, Shape, LocalFields
  <2>2. ~Logged(r) /\ r \notin Range(writes)
    BY <1>1, <2>1 DEF LogConsistent, Numbers, NumberOK, Early, Logged, OnItsWay, Written
  <2>3. OnItsWay(r)' /\ Truthful(r)'
    BY <1>2, <1>3, <2>1, <2>2 DEF OnItsWay, Truthful, Written, Logged
  <2> QED
    BY <1>5, <2>3 DEF Own
<1> QED
  BY <1>6, <1>7, <1>8

LEMMA DeleteOwn ==
  ASSUME LogConsistent, Answered, NEW r \in Requests, DeleteScene(r)
  PROVE  Own(r)
<1>1. OnItsWay(r) /\ Truthful(r)
  BY DEF Answered
<1>2. CASE scene # NoScene /\ User(r) \in Staff
  <2>1. /\ \A q \in Requests \ {r} : req'[q] = req[q]
        /\ req'[r].op = req[r].op /\ req'[r].pc = "done" /\ req'[r].answer = "ok"
        /\ scene' = NoScene /\ UNCHANGED <<log, events, writes>> /\ Op(r).kind = "delete"
    BY <1>2 DEF DeleteScene, Finish, LogConsistent, Shape, LocalFields
  <2> QED
    BY <2>1 DEF Own, Onward, OnItsWay, Truthful, Written, Op
<1>3. CASE ~(scene # NoScene /\ User(r) \in Staff)
  BY <1>3, RefusalOwn DEF DeleteScene, Answers, Early, Cut
<1> QED
  BY <1>2, <1>3

LEMMA RefusedSteps ==
  ASSUME LogConsistent, Answered, NEW r \in Requests,
         \/ LoadRefused(r) \/ WriteMissed(r) \/ (WriteNoop(r) /\ Op(r).kind # "undo")
         \/ WriteFailed(r) \/ AllocateGone(r) \/ UndoRefused(r)
  PROVE  Own(r)
<1>1. /\ Verdict(r) # "ok" => Verdict(r) \in {"refused", "not_found", "forbidden"}
      /\ UndoVerdict(r) # "ok" =>
           UndoVerdict(r) \in {"not_found", "forbidden", "nothing_to_undo"}
  BY DEF Verdict, UndoVerdict
<1>2. CASE LoadRefused(r)
  BY <1>1, <1>2, RefusalOwn DEF LoadRefused, Loading, Answers, Early, Cut
<1>3. CASE WriteMissed(r)
  BY <1>3, RefusalOwn DEF WriteMissed, Answers, Early, Cut
<1>4. CASE WriteNoop(r) /\ Op(r).kind # "undo"
  BY <1>4, RefusalOwn DEF WriteNoop, Answers, Early, Cut
<1>5. CASE WriteFailed(r)
  BY <1>5, RefusalOwn DEF WriteFailed, Answers, Early, Cut
<1>6. CASE AllocateGone(r)
  BY <1>6, RefusalOwn DEF AllocateGone, Answers, Early, Cut
<1>7. CASE UndoRefused(r)
  BY <1>1, <1>7, RefusalOwn DEF UndoRefused, Answers, Early, Cut
<1> QED
  BY <1>2, <1>3, <1>4, <1>5, <1>6, <1>7

LEMMA AnsweredNext == LogConsistent /\ Answered /\ [Next]_vars => Answered'
<1> SUFFICES ASSUME LogConsistent, Answered, [Next]_vars PROVE Answered'
  OBVIOUS
<1>1. CASE UNCHANGED vars
  BY <1>1 DEF vars, Answered, OnItsWay, Truthful, Written, Logged, Op
<1>2. ASSUME NEW r \in Requests, Step(r) PROVE Answered'
  <2>1. Own(r)
    BY <1>2, RefusedSteps, LoadOwn, WriteOwn, LogOwn, MarkOwnKept, DeleteOwn, CrashOwn
       DEF Step
  <2> QED
    BY <2>1, OwnKeeps
<1> QED
  BY <1>1, <1>2 DEF Next

(***************************************************************************)
(* apply, undoLast: "ok" was written (or the scene is gone), logged and    *)
(* broadcast, and an undo has marked both records; a refusal has left no   *)
(* record, and no write but to a scene that was deleted since; a request   *)
(* cut short after its write by an error or a death has left the change,   *)
(* without a record, unsent or, an undo, unmarked.                         *)
(***************************************************************************)
THEOREM AnswersTruthful == Spec => []AnswerTruthful
<1>1. Answered => AnswerTruthful
  BY DEF Answered, Truthful, AnswerTruthful, Changed, Sent, Cut
<1>2. Spec => [](LogConsistent /\ Answered)
  BY LogInit, LogNext, AnsweredInit, AnsweredNext, PTL DEF Spec
<1> QED
  BY <1>1, <1>2, PTL


-----------------------------------------------------------------------------
(* Induction over a set of naturals, which needs no operator.              *)
LEMMA Climb ==
  ASSUME NEW n \in Nat, NEW G, 0 \in G, \A k \in 0..n : k # n /\ k \in G => k + 1 \in G
  PROVE  0..n \subseteq G
<1> DEFINE T == {k \in 0..n : k \notin G}
<1> DEFINE Less == {p \in Nat \X Nat : p[1] < p[2]}
<1> SUFFICES ASSUME T # {}  PROVE FALSE
  OBVIOUS
<1>1. IsWellFoundedOn(Less, Nat)
  BY NatLessThanWellFounded DEF OpToRel
<1>2. PICK m \in T : \A k \in T : ~ (<<k, m>> \in Less)
  <2>1. T \subseteq Nat
    OBVIOUS
  <2> HIDE DEF Less, T
  <2> QED  BY <1>1, <2>1, WFMin
<1>3. m # 0 /\ m - 1 \in 0..n /\ m - 1 # n /\ m - 1 \in Nat /\ m - 1 < m
  OBVIOUS
<1>4. ASSUME m - 1 \in T  PROVE FALSE
  <2>1. <<m - 1, m>> \in Less
    BY <1>3
  <2> HIDE DEF Less, T
  <2> QED  BY <1>2, <1>4, <2>1
<1>5. m - 1 \in G
  BY <1>3, <1>4
<1>6. m - 1 + 1 \in G /\ m - 1 + 1 = m
  BY <1>3, <1>5
<1> QED  BY <1>6

LEMMA LeastOf ==
  ASSUME NEW I \in SUBSET Nat, I # {}
  PROVE  Min(I) \in I /\ \A i \in I : Min(I) <= i
<1> DEFINE Less == {p \in Nat \X Nat : p[1] < p[2]}
<1>1. IsWellFoundedOn(Less, Nat)
  BY NatLessThanWellFounded DEF OpToRel
<1>2. PICK m \in I : \A k \in I : ~ (<<k, m>> \in Less)
  <2> HIDE DEF Less
  <2> QED  BY <1>1, WFMin
<1>3. ASSUME NEW k \in I  PROVE m <= k
  <2>1. ~ (k < m) /\ k \in Nat /\ m \in Nat
    BY <1>2
  <2> QED  BY <2>1
<1> QED  BY <1>3 DEF Min

-----------------------------------------------------------------------------
(* The sequence that has been kept of the first n elements of a list.      *)
Keeps(list, S, f, k) ==
  f = [n \in 0..k |-> IF n = 0 THEN <<>>
                      ELSE IF list[n] \in S THEN Append(f[n - 1], list[n]) ELSE f[n - 1]]

LEMMA KeptRecursion ==
  ASSUME NEW list, NEW S, Len(list) \in Nat
  PROVE  \E f : Keeps(list, S, f, Len(list)) /\ Kept(list, S) = f[Len(list)]
<1> DEFINE N == Len(list)
           G == {k \in 0..N : \E f : Keeps(list, S, f, k)}
<1>1. 0 \in G
  <2>1. Keeps(list, S, [n \in 0..0 |-> <<>>], 0)
    BY DEF Keeps
  <2> QED  BY <2>1
<1>2. ASSUME NEW k \in 0..N, k # N, k \in G  PROVE k + 1 \in G
  <2>1. PICK f : Keeps(list, S, f, k)
    BY <1>2
  <2> DEFINE last == IF list[k + 1] \in S THEN Append(f[k], list[k + 1]) ELSE f[k]
             g == [n \in 0..(k + 1) |-> IF n = k + 1 THEN last ELSE f[n]]
  <2>2. \A n \in 0..k : f[n] = IF n = 0 THEN <<>>
                               ELSE IF list[n] \in S THEN Append(f[n - 1], list[n]) ELSE f[n - 1]
    BY <2>1 DEF Keeps
  <2>3. \A n \in 0..(k + 1) : g[n] = IF n = 0 THEN <<>>
                               ELSE IF list[n] \in S THEN Append(g[n - 1], list[n]) ELSE g[n - 1]
    BY <2>2
  <2>4. Keeps(list, S, g, k + 1)
    BY <2>3 DEF Keeps
  <2>5. k + 1 \in 0..N
    BY <1>2
  <2> QED  BY <2>4, <2>5
<1>3. N \in G
  <2> HIDE DEF G, N
  <2>1. N \in Nat /\ N \in 0..N
    BY DEF N
  <2>2. \A k \in 0..N : k # N /\ k \in G => k + 1 \in G
    BY <1>2
  <2>3. 0..N \subseteq G
    BY <1>1, <2>1, <2>2, Climb
  <2> QED  BY <2>1, <2>3
<1>4. PICK f : Keeps(list, S, f, N)
  BY <1>3
<1> DEFINE kept == CHOOSE g : g = [n \in 0..N |-> IF n = 0 THEN <<>>
                      ELSE IF list[n] \in S THEN Append(g[n - 1], list[n]) ELSE g[n - 1]]
<1>5. Kept(list, S) = kept[N]
  BY DEF Kept
<1>6. f = [n \in 0..N |-> IF n = 0 THEN <<>>
                      ELSE IF list[n] \in S THEN Append(f[n - 1], list[n]) ELSE f[n - 1]]
  BY <1>4 DEF Keeps
<1>7. Keeps(list, S, kept, N)
  BY <1>6 DEF Keeps
<1> HIDE DEF kept
<1> QED  BY <1>5, <1>7

(* What inductions on the kept sequence start from, and how they go on. *)
LEMMA KeepsNothing ==
  ASSUME NEW list, NEW S, NEW N \in Nat, NEW f, Keeps(list, S, f, N)
  PROVE  f[0] = <<>>
<1>1. 0 \in 0..N
  OBVIOUS
<1> QED  BY <1>1 DEF Keeps

LEMMA KeepsSteps ==
  ASSUME NEW list, NEW S, NEW N \in Nat, NEW f, Keeps(list, S, f, N)
  PROVE  \A n \in 0..N : n # N => f[n + 1] = IF list[n + 1] \in S THEN Append(f[n], list[n + 1])
                                             ELSE f[n]
<1>1. \A n \in 0..N : f[n] = IF n = 0 THEN <<>>
                             ELSE IF list[n] \in S THEN Append(f[n - 1], list[n]) ELSE f[n - 1]
  BY DEF Keeps
<1>2. ASSUME NEW n \in 0..N, n # N
      PROVE f[n + 1] = IF list[n + 1] \in S THEN Append(f[n], list[n + 1]) ELSE f[n]
  <2>1. n + 1 \in 0..N /\ n + 1 # 0 /\ (n + 1) - 1 = n
    BY <1>2
  <2> QED  BY <1>1, <2>1
<1> QED  BY <1>2

LEMMA KeptFacts ==
  ASSUME NEW T, NEW list \in Seq(T), NEW S
  PROVE  /\ Kept(list, S) \in Seq(T)
         /\ Range(Kept(list, S)) = Range(list) \cap S
<1> DEFINE N == Len(list)
<1>1. N \in Nat
  OBVIOUS
<1>2. PICK f : Keeps(list, S, f, N) /\ Kept(list, S) = f[N]
  BY <1>1, KeptRecursion
<1> DEFINE First(n) == {list[i] : i \in 1..n}
           G == {n \in 0..N : f[n] \in Seq(T) /\ Range(f[n]) = First(n) \cap S}
<1>3. 0 \in G
  <2>0. f[0] = <<>>
    BY <1>1, <1>2, KeepsNothing
  <2>1. f[0] = <<>> /\ 0 \in 0..N
    BY <1>1, <2>0
  <2>2. <<>> \in Seq(T) /\ Range(<<>>) = {} /\ First(0) = {}
    BY DEF Range
  <2> QED  BY <2>1, <2>2
<1>4. ASSUME NEW n \in 0..N, n # N, n \in G  PROVE n + 1 \in G
  <2>1. f[n + 1] = IF list[n + 1] \in S THEN Append(f[n], list[n + 1]) ELSE f[n]
    BY <1>1, <1>2, <1>4, KeepsSteps
  <2>2. list[n + 1] \in T /\ n + 1 \in 0..N
    BY <1>4
  <2>3. First(n + 1) = First(n) \cup {list[n + 1]}
    BY <1>4
  <2>4. f[n + 1] \in Seq(T)
    BY <1>4, <2>1, <2>2
  <2>5. Range(f[n + 1]) = First(n + 1) \cap S
    <3>1. CASE list[n + 1] \in S
      <4>1. Range(Append(f[n], list[n + 1])) = Range(f[n]) \cup {list[n + 1]}
        BY <1>4, <2>2, RangeAppend
      <4> QED  BY <1>4, <2>1, <2>3, <3>1, <4>1
    <3>2. CASE list[n + 1] \notin S
      BY <1>4, <2>1, <2>3, <3>2
    <3> QED  BY <3>1, <3>2
  <2> QED  BY <2>2, <2>4, <2>5
<1>5. N \in G
  <2> HIDE DEF G, N
  <2>1. \A n \in 0..N : n # N /\ n \in G => n + 1 \in G
    BY <1>4
  <2>2. 0..N \subseteq G
    BY <1>1, <1>3, <2>1, Climb
  <2>3. N \in 0..N
    BY <1>1
  <2> QED  BY <2>2, <2>3
<1>6. First(N) = Range(list)
  BY DEF Range
<1> QED  BY <1>2, <1>5, <1>6

(* What comes before the elements that are dropped stays as it is.         *)
LEMMA KeptPrefix ==
  ASSUME NEW T, NEW list \in Seq(T), NEW S, NEW m \in 0..Len(list),
         \A i \in 1..m : list[i] \in S, \A i \in (m + 1)..Len(list) : list[i] \notin S
  PROVE  Len(Kept(list, S)) = m /\ \A i \in 1..m : Kept(list, S)[i] = list[i]
<1> DEFINE N == Len(list)
<1>1. N \in Nat
  OBVIOUS
<1>2. PICK f : Keeps(list, S, f, N) /\ Kept(list, S) = f[N]
  BY <1>1, KeptRecursion
<1> DEFINE Least(n) == IF n <= m THEN n ELSE m
           G == {n \in 0..N : /\ f[n] \in Seq(T) /\ Len(f[n]) = Least(n)
                              /\ \A i \in 1..Least(n) : f[n][i] = list[i]}
<1>3. 0 \in G
  <2>0. f[0] = <<>>
    BY <1>1, <1>2, KeepsNothing
  <2>1. f[0] = <<>> /\ 0 \in 0..N
    BY <1>1, <2>0
  <2>2. Least(0) = 0 /\ <<>> \in Seq(T) /\ Len(<<>>) = 0
    OBVIOUS
  <2>3. \A i \in 1..Least(0) : f[0][i] = list[i]
    BY <2>2
  <2> HIDE DEF Least
  <2> QED  BY <2>1, <2>2, <2>3
<1>4. ASSUME NEW n \in 0..N, n # N, n \in G  PROVE n + 1 \in G
  <2>1. f[n + 1] = IF list[n + 1] \in S THEN Append(f[n], list[n + 1]) ELSE f[n]
    BY <1>1, <1>2, <1>4, KeepsSteps
  <2>2. list[n + 1] \in T /\ n + 1 \in 0..N
    BY <1>4
  <2>3. CASE n < m
    <3>1. list[n + 1] \in S /\ Least(n) = n /\ Least(n + 1) = n + 1
      BY <2>3
    <3>2. f[n + 1] = Append(f[n], list[n + 1])
      BY <2>1, <3>1
    <3>3. Len(f[n + 1]) = n + 1 /\ \A i \in 1..(n + 1) : f[n + 1][i] = list[i]
      BY <1>4, <2>2, <3>1, <3>2, AppendProperties
    <3>4. f[n + 1] \in Seq(T)
      BY <1>4, <2>2, <3>2
    <3> QED  BY <2>2, <3>1, <3>3, <3>4
  <2>4. CASE ~(n < m)
    <3>1. n + 1 \in (m + 1)..N /\ Least(n) = m /\ Least(n + 1) = m
      BY <1>4, <2>4
    <3>2. f[n + 1] = f[n]
      BY <2>1, <3>1
    <3> QED  BY <1>4, <2>2, <3>1, <3>2
  <2> QED  BY <2>3, <2>4
<1>5. N \in G
  <2> HIDE DEF G, N
  <2>1. \A n \in 0..N : n # N /\ n \in G => n + 1 \in G
    BY <1>4
  <2>2. 0..N \subseteq G
    BY <1>1, <1>3, <2>1, Climb
  <2>3. N \in 0..N
    BY <1>1
  <2> QED  BY <2>2, <2>3
<1>6. Least(N) = m
  OBVIOUS
<1> QED  BY <1>2, <1>5, <1>6

LEMMA KeptInjective ==
  ASSUME NEW T, NEW list \in Seq(T), IsInjective(list), NEW S
  PROVE  IsInjective(Kept(list, S))
<1> DEFINE N == Len(list)
<1>1. N \in Nat
  OBVIOUS
<1>2. PICK f : Keeps(list, S, f, N) /\ Kept(list, S) = f[N]
  BY <1>1, KeptRecursion
<1> DEFINE G == {n \in 0..N : /\ f[n] \in Seq(T) /\ IsInjective(f[n])
                              /\ \A i \in DOMAIN f[n] : \E j \in 1..n : f[n][i] = list[j]}
<1>3. 0 \in G
  <2>0. f[0] = <<>>
    BY <1>1, <1>2, KeepsNothing
  <2>1. f[0] = <<>> /\ 0 \in 0..N
    BY <1>1, <2>0
  <2>2. <<>> \in Seq(T) /\ DOMAIN <<>> = {}
    OBVIOUS
  <2> QED  BY <2>1, <2>2 DEF IsInjective
<1>4. ASSUME NEW n \in 0..N, n # N, n \in G  PROVE n + 1 \in G
  <2>1. f[n + 1] = IF list[n + 1] \in S THEN Append(f[n], list[n + 1]) ELSE f[n]
    BY <1>1, <1>2, <1>4, KeepsSteps
  <2>2. list[n + 1] \in T /\ n + 1 \in 0..N /\ n + 1 \in DOMAIN list
    BY <1>4
  <2>3. CASE list[n + 1] \in S
    <3> DEFINE g == Append(f[n], list[n + 1])
    <3>1. f[n] \in Seq(T) /\ g \in Seq(T) /\ Len(g) = Len(f[n]) + 1
      BY <1>4, <2>2, AppendProperties
    <3>2. DOMAIN g = 1..(Len(f[n]) + 1) /\ DOMAIN f[n] = 1..Len(f[n]) /\ Len(f[n]) \in Nat
      BY <3>1
    <3>3. \A i \in DOMAIN f[n] : g[i] = f[n][i]
      BY <2>2, <3>1, <3>2
    <3>4. g[Len(f[n]) + 1] = list[n + 1]
      BY <2>2, <3>1
    <3>5. ASSUME NEW i \in DOMAIN f[n]  PROVE g[i] # list[n + 1]
      <4>1. PICK j \in 1..n : f[n][i] = list[j]
        BY <1>4
      <4>2. j \in DOMAIN list /\ j # n + 1
        BY <1>4
      <4> QED  BY <2>2, <3>3, <4>1, <4>2 DEF IsInjective
    <3>6. IsInjective(g)
      <4> HIDE DEF g
      <4> SUFFICES ASSUME NEW i \in DOMAIN g, NEW j \in DOMAIN g, g[i] = g[j]  PROVE i = j
        BY DEF IsInjective
      <4>1. CASE i \in DOMAIN f[n] /\ j \in DOMAIN f[n]
        BY <1>4, <3>3, <4>1 DEF IsInjective
      <4>2. CASE i \in DOMAIN f[n] /\ j \notin DOMAIN f[n]
        BY <3>2, <3>4, <3>5, <4>2
      <4>3. CASE i \notin DOMAIN f[n] /\ j \in DOMAIN f[n]
        BY <3>2, <3>4, <3>5, <4>3
      <4>4. CASE i \notin DOMAIN f[n] /\ j \notin DOMAIN f[n]
        BY <3>2, <4>4
      <4> QED  BY <4>1, <4>2, <4>3, <4>4
    <3>7. \A i \in DOMAIN g : \E j \in 1..(n + 1) : g[i] = list[j]
      <4> HIDE DEF g
      <4> SUFFICES ASSUME NEW i \in DOMAIN g  PROVE \E j \in 1..(n + 1) : g[i] = list[j]
        OBVIOUS
      <4>1. CASE i \in DOMAIN f[n]
        BY <1>4, <3>3, <4>1
      <4>2. CASE i \notin DOMAIN f[n]
        BY <3>2, <3>4, <4>2
      <4> QED  BY <4>1, <4>2
    <3>8. f[n + 1] = g
      BY <2>1, <2>3
    <3> HIDE DEF g
    <3> QED  BY <2>2, <3>1, <3>6, <3>7, <3>8
  <2>4. CASE list[n + 1] \notin S
    BY <1>4, <2>1, <2>2, <2>4
  <2> QED  BY <2>3, <2>4
<1>5. N \in G
  <2> HIDE DEF G, N
  <2>1. \A n \in 0..N : n # N /\ n \in G => n + 1 \in G
    BY <1>4
  <2>2. 0..N \subseteq G
    BY <1>1, <1>3, <2>1, Climb
  <2>3. N \in 0..N
    BY <1>1
  <2> QED  BY <2>2, <2>3
<1> QED  BY <1>2, <1>5

(* Two lists without repetitions that have the same elements are alike.    *)
LEMMA InjectiveAlike ==
  ASSUME NEW T, NEW a \in Seq(T), NEW b \in Seq(T), IsInjective(a), IsInjective(b),
         Range(a) = Range(b)
  PROVE  Alike(a, b)
<1>1. ASSUME NEW c \in Seq(T), IsInjective(c)
      PROVE  Cardinality(Range(c)) = Len(c)
  <2>1. c \in Bijection(1..Len(c), Range(c))
    <3>1. c \in [1..Len(c) -> Range(c)] /\ DOMAIN c = 1..Len(c)
      BY DEF Range
    <3> QED  BY <1>1, <3>1 DEF Bijection, Injection, Surjection, IsInjective, Range
  <2> QED  BY <2>1, FS_CountingElements DEF ExistsBijection
<1>2. Len(a) = Cardinality(Range(a)) /\ Len(b) = Cardinality(Range(b))
  BY <1>1
<1> QED  BY <1>2 DEF Alike

-----------------------------------------------------------------------------
(* The first element with an id. *)
LEMMA FindFacts ==
  ASSUME NEW T, NEW list \in Seq(T), NEW id
  PROVE  /\ Find(list, id) \in 0..Len(list)
         /\ Find(list, id) = 0 => \A i \in DOMAIN list : list[i].id # id
         /\ Find(list, id) # 0 => Find(list, id) \in DOMAIN list /\ list[Find(list, id)].id = id
<1> DEFINE I == {i \in 1..Len(list) : list[i].id = id}
<1>1. Find(list, id) = IF I # {} THEN Min(I) ELSE 0
  BY DEF Find, SelectInSeq
<1>2. Len(list) \in Nat /\ DOMAIN list = 1..Len(list)
  OBVIOUS
<1>3. CASE I = {}
  BY <1>1, <1>2, <1>3
<1>4. CASE I # {}
  <2>1. I \in SUBSET Nat
    BY <1>2
  <2>2. Min(I) \in I
    <3> HIDE DEF I
    <3> QED  BY <1>4, <2>1, LeastOf
  <2>3. Find(list, id) = Min(I)
    BY <1>1, <1>4
  <2>4. Find(list, id) \in I
    BY <2>2, <2>3
  <2>5. Find(list, id) \in 1..Len(list) /\ list[Find(list, id)].id = id
    BY <2>4
  <2> QED  BY <1>2, <2>5
<1> QED  BY <1>3, <1>4

(* It depends on the ids alone. *)
LEMMA FindSame ==
  ASSUME NEW a, NEW b, Len(a) = Len(b), \A i \in 1..Len(a) : a[i].id = b[i].id, NEW id
  PROVE  Find(a, id) = Find(b, id)
<1> DEFINE I == {i \in 1..Len(a) : a[i].id = id}
           J == {i \in 1..Len(b) : b[i].id = id}
<1>1. I = J
  OBVIOUS
<1>2. /\ Find(a, id) = IF I # {} THEN Min(I) ELSE 0
      /\ Find(b, id) = IF J # {} THEN Min(J) ELSE 0
  BY DEF Find, SelectInSeq
<1> HIDE DEF I, J
<1> QED  BY <1>1, <1>2

LEMMA DistinctInjective ==
  ASSUME NEW list, Distinct(list)
  PROVE  IsInjective(list)
BY DEF Distinct, IsInjective

LEMMA WithoutFacts ==
  ASSUME NEW T, NEW list \in Seq(T), NEW id
  PROVE  /\ Without(list, id) \in Seq(T)
         /\ Range(Without(list, id)) = {e \in Range(list) : e.id # id}
         /\ IsInjective(list) => IsInjective(Without(list, id))
BY KeptFacts, KeptInjective DEF Without

(* What was appended is taken away again. *)
LEMMA WithoutLast ==
  ASSUME NEW T, NEW list \in Seq(T), NEW e \in T, Distinct(Append(list, e))
  PROVE  Without(Append(list, e), e.id) = list
<1> DEFINE l == Append(list, e)
           n == Len(list)
           S == {x \in Range(l) : x.id # e.id}
           k == Kept(l, S)
<1>1. /\ n \in Nat /\ l \in Seq(T) /\ Len(l) = n + 1 /\ DOMAIN l = 1..(n + 1)
      /\ l[n + 1] = e /\ \A i \in 1..n : l[i] = list[i]
  BY AppendProperties
<1>2. \A i \in 1..n : l[i] \in S
  <2> SUFFICES ASSUME NEW i \in 1..n  PROVE l[i] \in S
    OBVIOUS
  <2>1. i \in DOMAIN l /\ n + 1 \in DOMAIN l /\ i # n + 1
    BY <1>1
  <2>2. l[i].id # l[n + 1].id
    BY <2>1 DEF Distinct
  <2> HIDE DEF l
  <2> QED  BY <1>1, <2>1, <2>2 DEF Range
<1>3. \A i \in (n + 1)..Len(l) : l[i] \notin S
  <2> HIDE DEF l
  <2> QED  BY <1>1
<1>4. n \in 0..Len(l)
  BY <1>1
<1>5. Len(k) = n /\ \A i \in 1..n : k[i] = l[i]
  <2> HIDE DEF l, n, S
  <2> QED  BY <1>1, <1>2, <1>3, <1>4, KeptPrefix
<1>6. k \in Seq(T)
  BY <1>1, KeptFacts
<1>7. Without(l, e.id) = k
  BY DEF Without
<1>8. k = list
  <2>1. Len(k) = Len(list) /\ \A i \in 1..Len(list) : k[i] = list[i]
    BY <1>1, <1>5
  <2> HIDE DEF k
  <2> QED  BY <1>6, <2>1, SeqEqual
<1> QED  BY <1>7, <1>8

(* What was taken away comes back, if at the end. *)
LEMMA BackAtTheEnd ==
  ASSUME NEW T, NEW list \in Seq(T), Distinct(list), NEW id, Find(list, id) # 0
  PROVE  /\ list[Find(list, id)] \in T
         /\ Append(Without(list, id), list[Find(list, id)]) \in Seq(T)
         /\ Alike(Append(Without(list, id), list[Find(list, id)]), list)
<1> DEFINE e == list[Find(list, id)]
           w == Without(list, id)
           n == Len(w)
           l == Append(w, e)
<1>1. Find(list, id) \in DOMAIN list /\ e.id = id
  BY FindFacts
<1>2. e \in T /\ e \in Range(list)
  BY <1>1 DEF Range
<1>3. /\ w \in Seq(T) /\ Range(w) = {x \in Range(list) : x.id # id}
      /\ IsInjective(list) /\ IsInjective(w)
  BY WithoutFacts, DistinctInjective
<1> HIDE DEF w, e
<1>4. /\ n \in Nat /\ l \in Seq(T) /\ Len(l) = n + 1 /\ DOMAIN l = 1..(n + 1)
      /\ l[n + 1] = e /\ \A i \in 1..n : l[i] = w[i] /\ w[i] \in Range(w)
  BY <1>2, <1>3, AppendProperties DEF Range
<1>5. Range(l) = Range(list)
  <2>1. Range(l) = Range(w) \cup {e}
    BY <1>2, <1>3, RangeAppend
  <2>2. ASSUME NEW x \in Range(list), x.id = id  PROVE x = e
    BY <1>1, <2>2 DEF Range, Distinct, e
  <2> QED  BY <1>2, <1>3, <2>1, <2>2
<1> HIDE DEF l
<1>6. IsInjective(l)
  <2> SUFFICES ASSUME NEW i \in DOMAIN l, NEW j \in DOMAIN l, l[i] = l[j]  PROVE i = j
    BY DEF IsInjective
  <2>1. e \notin Range(w)
    BY <1>1, <1>3
  <2>2. CASE i \in 1..n /\ j \in 1..n
    <3>1. DOMAIN w = 1..n
      BY <1>3
    <3> QED  BY <1>3, <1>4, <2>2, <3>1 DEF IsInjective
  <2>3. CASE i = n + 1 \/ j = n + 1
    BY <1>4, <2>1, <2>3
  <2> QED  BY <1>4, <2>2, <2>3
<1>7. Alike(l, list)
  BY <1>3, <1>4, <1>5, <1>6, InjectiveAlike
<1> QED  BY <1>2, <1>4, <1>7 DEF l, w, e

(* The player characters stay, the rest is replaced, and comes back.       *)
LEMMA PcsFacts ==
  ASSUME NEW T, NEW a \in Seq(T)
  PROVE  /\ Pcs(a) \in Seq(T) /\ Range(Pcs(a)) = {t \in Range(a) : ~t.npc}
         /\ Npcs(a) \in Seq(T) /\ Range(Npcs(a)) = {t \in Range(a) : t.npc}
         /\ IsInjective(a) => IsInjective(Pcs(a)) /\ IsInjective(Npcs(a))
BY KeptFacts, KeptInjective DEF Pcs, Npcs

LEMMA RangeConcat ==
  ASSUME NEW T, NEW a \in Seq(T), NEW b \in Seq(T)
  PROVE  Range(a \o b) = Range(a) \cup Range(b)
<1> DEFINE l == a \o b
<1>1. /\ DOMAIN a = 1..Len(a) /\ DOMAIN b = 1..Len(b) /\ Len(a) \in Nat /\ Len(b) \in Nat
      /\ DOMAIN l = 1..(Len(a) + Len(b)) /\ \A i \in 1..Len(a) : l[i] = a[i]
      /\ \A i \in DOMAIN l : i \notin 1..Len(a) => i - Len(a) \in 1..Len(b) /\ l[i] = b[i - Len(a)]
  BY ConcatProperties
<1>2. \A i \in 1..Len(b) : Len(a) + i \in DOMAIN l /\ l[Len(a) + i] = b[i]
  BY <1>1
<1> HIDE DEF l
<1>3. \A x \in Range(l) : x \in Range(a) \cup Range(b)
  BY <1>1 DEF Range
<1>4. \A x \in Range(a) : x \in Range(l)
  BY <1>1 DEF Range
<1>5. \A x \in Range(b) : x \in Range(l)
  BY <1>1, <1>2 DEF Range
<1> QED  BY <1>3, <1>4, <1>5 DEF l

LEMMA KeptFirst ==
  ASSUME NEW T, NEW a \in Seq(T), NEW b \in Seq(T), NEW S,
         Range(a) \subseteq S, Range(b) \cap S = {}
  PROVE  Kept(a \o b, S) = a
<1> DEFINE l == a \o b
           n == Len(a)
           k == Kept(l, S)
<1>1. /\ n \in Nat /\ Len(b) \in Nat /\ l \in Seq(T) /\ Len(l) = n + Len(b)
      /\ \A i \in 1..n : l[i] = a[i] /\ a[i] \in Range(a)
  BY DEF Range
<1>2. \A i \in (n + 1)..Len(l) : l[i] = b[i - n] /\ i - n \in 1..Len(b)
  BY <1>1, ConcatProperties
<1>3. \A i \in (n + 1)..Len(l) : l[i] \notin S
  <2>1. \A j \in 1..Len(b) : b[j] \in Range(b)
    BY DEF Range
  <2> QED  BY <1>2, <2>1
<1>4. \A i \in 1..n : l[i] \in S
  BY <1>1
<1>5. n \in 0..Len(l)
  BY <1>1
<1>6. Len(k) = n /\ \A i \in 1..n : k[i] = l[i]
  <2> HIDE DEF l, n
  <2> QED  BY <1>1, <1>3, <1>4, <1>5, KeptPrefix
<1>7. k \in Seq(T)
  BY <1>1, KeptFacts
<1>8. Len(k) = Len(a) /\ \A i \in 1..Len(a) : k[i] = a[i]
  BY <1>1, <1>6
<1> HIDE DEF k
<1>9. k = a
  BY <1>7, <1>8, SeqEqual
<1> QED  BY <1>9 DEF k

LEMMA ReplacedBack ==
  ASSUME NEW T, NEW a \in Seq(T), NEW b \in Seq(T), IsInjective(a)
  PROVE  LET c == Pcs(a) \o Npcs(b)  d == Pcs(c) \o Npcs(Npcs(a))
         IN  c \in Seq(T) /\ d \in Seq(T) /\ Alike(d, a)
<1> DEFINE c == Pcs(a) \o Npcs(b)
           d == Pcs(c) \o Npcs(Npcs(a))
<1>1. /\ Pcs(a) \in Seq(T) /\ Range(Pcs(a)) = {t \in Range(a) : ~t.npc} /\ IsInjective(Pcs(a))
      /\ Npcs(a) \in Seq(T) /\ Range(Npcs(a)) = {t \in Range(a) : t.npc} /\ IsInjective(Npcs(a))
      /\ Npcs(b) \in Seq(T) /\ Range(Npcs(b)) = {t \in Range(b) : t.npc}
  BY PcsFacts
<1>2. /\ Npcs(Npcs(a)) \in Seq(T) /\ IsInjective(Npcs(Npcs(a)))
      /\ Range(Npcs(Npcs(a))) = {t \in Range(a) : t.npc}
  BY <1>1, PcsFacts
<1>3. c \in Seq(T)
  BY <1>1
<1>4. Pcs(c) = Pcs(a)
  <2> DEFINE S == {t \in Range(c) : ~t.npc}
  <2>1. Range(c) = Range(Pcs(a)) \cup Range(Npcs(b))
    BY <1>1, RangeConcat
  <2>2. Range(Pcs(a)) \subseteq S /\ Range(Npcs(b)) \cap S = {}
    BY <1>1, <2>1
  <2>3. Kept(c, S) = Pcs(a)
    <3> HIDE DEF S
    <3> QED  BY <1>1, <2>2, KeptFirst
  <2> QED  BY <2>3 DEF Pcs
<1> DEFINE p == Pcs(a)
           q == Npcs(Npcs(a))
<1>5. d = p \o q
  BY <1>4
<1> HIDE DEF c, d, p, q
<1>6. /\ p \in Seq(T) /\ q \in Seq(T) /\ IsInjective(p) /\ IsInjective(q)
      /\ Range(p) \cap Range(q) = {} /\ Range(p) \cup Range(q) = Range(a)
  BY <1>1, <1>2 DEF p, q
<1>7. d \in Seq(T) /\ Range(d) = Range(a)
  <2>1. p \o q \in Seq(T)
    BY <1>6
  <2>2. Range(p \o q) = Range(p) \cup Range(q)
    BY <1>6, RangeConcat
  <2> QED  BY <1>5, <1>6, <2>1, <2>2
<1>8. IsInjective(d)
  <2> SUFFICES ASSUME NEW i \in DOMAIN d, NEW j \in DOMAIN d, d[i] = d[j]  PROVE i = j
    BY DEF IsInjective
  <2>1. /\ DOMAIN p = 1..Len(p) /\ DOMAIN q = 1..Len(q) /\ Len(p) \in Nat /\ Len(q) \in Nat
        /\ DOMAIN d = 1..(Len(p) + Len(q))
    BY <1>5, <1>6
  <2>2. \A k \in 1..Len(p) : d[k] = p[k] /\ p[k] \in Range(p)
    <3>1. \A k \in 1..Len(p) : (p \o q)[k] = p[k]
      BY <1>6, <2>1, ConcatProperties
    <3> QED  BY <1>5, <2>1, <3>1 DEF Range
  <2>3. \A k \in DOMAIN d : k \notin 1..Len(p) =>
           k - Len(p) \in 1..Len(q) /\ d[k] = q[k - Len(p)] /\ q[k - Len(p)] \in Range(q)
    BY <1>5, <1>6, <2>1, ConcatProperties DEF Range
  <2>4. CASE i \in 1..Len(p) /\ j \in 1..Len(p)
    BY <1>6, <2>1, <2>2, <2>4 DEF IsInjective
  <2>5. CASE i \in 1..Len(p) /\ j \notin 1..Len(p)
    BY <1>6, <2>2, <2>3, <2>5
  <2>6. CASE i \notin 1..Len(p) /\ j \in 1..Len(p)
    BY <1>6, <2>2, <2>3, <2>6
  <2>7. CASE i \notin 1..Len(p) /\ j \notin 1..Len(p)
    <3>1. i - Len(p) = j - Len(p)
      BY <1>6, <2>1, <2>3, <2>7 DEF IsInjective
    <3> QED  BY <2>1, <3>1
  <2> QED  BY <2>4, <2>5, <2>6, <2>7
<1>9. Alike(d, a)
  BY <1>7, <1>8, InjectiveAlike
<1> QED  BY <1>3, <1>7, <1>9 DEF c, d

-----------------------------------------------------------------------------
(* The payload of each kind. *)
LEMMA TokenPayloads ==
  ASSUME NEW p \in Payload
  PROVE  /\ p.kind = "token.add" => p \in [kind: {"token.add"}, token: Token]
         /\ p.kind = "token.move" => p \in [kind: {"token.move"}, id: TokenIds, at: Cells]
         /\ p.kind = "token.remove" => p \in [kind: {"token.remove"}, id: TokenIds]
         /\ p.kind = "token.delta" => p \in [kind: {"token.delta"}, id: TokenIds, delta: Int]
         /\ p.kind = "token.hp" => p \in [kind: {"token.hp"}, id: TokenIds, hp: Int]
         /\ p.kind = "tokens.clear" => p \in [kind: {"tokens.clear"}]
         /\ p.kind = "tokens.replace" =>
              p \in [kind: {"tokens.replace"}, tokens: Seq(Token), combat: Combat \cup {NoCombat}]
         /\ p.kind = "tokens.replace-npc" => p \in [kind: {"tokens.replace-npc"}, tokens: Seq(Token)]
BY DEF Payload

LEMMA CombatPayloads ==
  ASSUME NEW p \in Payload
  PROVE  /\ p.kind = "combat.start" => p \in [kind: {"combat.start"}, order: Order]
         /\ p.kind = "combat.turn" => p \in [kind: {"combat.turn"}, id: TokenIds, round: Nat]
         /\ p.kind = "combat.end" => p \in [kind: {"combat.end"}]
         /\ p.kind = "combat.reorder" => p \in [kind: {"combat.reorder"}, order: Order]
         /\ p.kind = "combat.effect.add" =>
              p \in [kind: {"combat.effect.add"}, given: BOOLEAN, effect: EndOfTurnEffect]
         /\ p.kind = "combat.effect.remove" => p \in [kind: {"combat.effect.remove"}, id: Names]
BY DEF Payload

LEMMA ListPayloads ==
  ASSUME NEW p \in Payload
  PROVE  /\ p.kind = "add" => p \in [kind: {"add"}, list: Edited, element: Element]
         /\ p.kind = "update" =>
              p \in [kind: {"update"}, list: Edited \ {"drawings"}, id: Names, value: Values]
         /\ p.kind = "remove" => p \in [kind: {"remove"}, list: Edited, id: Names]
         /\ p.kind = "replace" => p \in [kind: {"replace"}, list: Lists, elements: Seq(Element)]
BY DEF Payload

LEMMA FieldPayloads ==
  ASSUME NEW p \in Payload
  PROVE  /\ p.kind \in {"allow", "disallow"} =>
              p \in [kind: {"allow", "disallow"}, list: Whitelists, id: Names]
         /\ p.kind = "scene.state" => p \in [kind: {"scene.state"}, locked: BOOLEAN]
         /\ p.kind = "scene.playerState" =>
              p \in [kind: {"scene.playerState"}, user: Users, value: Override]
         /\ p.kind = "set" => p \in [kind: {"set"}, field: Fields, value: Values]
         /\ p.kind = "fog.set" =>
              p \in [kind: {"fog.set"}, fog: [enabled: BOOLEAN, revealed: SUBSET Cells]]
         /\ p.kind = "fog.brush" =>
              p \in [kind: {"fog.brush"}, reveal: BOOLEAN, hexes: SUBSET Cells]
         /\ p.kind \in {"scene.activate", "scene.deactivate"} =>
              p \in [kind: {"scene.activate", "scene.deactivate"}]
         /\ p.kind = "dice.roll" =>
              p \in [kind: {"dice.roll"}, by: Users, token: TokenIds \cup {Nothing}]
BY DEF Payload

LEMMA PayloadNames ==
  ASSUME NEW p \in Payload
  PROVE  p.kind \in TokenKinds \cup CombatKinds \cup ListKinds \cup
           {"allow", "disallow", "scene.state", "scene.playerState", "set", "fog.set",
            "fog.brush", "scene.activate", "scene.deactivate", "dice.roll"}
BY DEF Payload, TokenKinds, CombatKinds, ListKinds

(* What the kinds of each group do and how they go back. *)
LEMMA Groups ==
  ASSUME NEW now, NEW s, NEW p
  PROVE  /\ p.kind \in TokenKinds => /\ Update(now, s, p) = UpdateTokens(now, s, p)
                                     /\ InverseOp(s, p) = InverseOfToken(s, p)
         /\ p.kind \in CombatKinds => /\ Update(now, s, p) = UpdateCombat(now, s, p)
                                      /\ InverseOp(s, p) = InverseOfCombat(s, p)
         /\ p.kind \in ListKinds => /\ Update(now, s, p) = UpdateList(now, p)
                                    /\ InverseOp(s, p) = InverseOfList(s, p)
         /\ p.kind \in {"allow", "disallow"} => /\ Update(now, s, p) = UpdateWhitelist(now, p)
                                                /\ InverseOp(s, p) = InverseOfWhitelist(s, p)
         /\ p.kind \in {"scene.state", "scene.playerState", "set", "fog.set", "fog.brush",
                        "scene.activate", "scene.deactivate", "dice.roll"} =>
              /\ Update(now, s, p) = UpdateField(now, s, p)
              /\ InverseOp(s, p) = InverseOfField(s, p)
BY DEF Update, InverseOp, TokenKinds, CombatKinds, ListKinds

LEMMA SceneWith ==
  ASSUME NEW s \in Scene
  PROVE  /\ \A x \in Seq(Token) : [s EXCEPT !.tokens = x] \in Scene
         /\ \A x \in Combat \cup {NoCombat} : [s EXCEPT !.combat = x] \in Scene
BY DEF Scene

LEMMA SceneWithBoth ==
  ASSUME NEW s \in Scene, NEW x \in Seq(Token), NEW c \in Combat \cup {NoCombat}
  PROVE  [s EXCEPT !.tokens = x, !.combat = c] \in Scene
BY DEF Scene

LEMMA SceneWithList ==
  ASSUME NEW s \in Scene, NEW l \in Lists, NEW x \in Seq(Element)
  PROVE  [s EXCEPT !.lists[l] = x] \in Scene
BY DEF Scene

LEMMA SceneWithListAndTokens ==
  ASSUME NEW s \in Scene, NEW l \in Lists, NEW x \in Seq(Element), NEW t \in Seq(Token)
  PROVE  [s EXCEPT !.lists[l] = x, !.tokens = t] \in Scene
BY DEF Scene

LEMMA FoundTyped ==
  ASSUME NEW s \in Scene
  PROVE  /\ s.tokens \in Seq(Token)
         /\ \A id : On(s, id) => /\ Find(s.tokens, id) \in DOMAIN s.tokens
                                 /\ TokenOf(s, id) \in Token /\ TokenOf(s, id).id = id
         /\ \A l \in Lists : s.lists[l] \in Seq(Element)
         /\ \A l \in Lists : \A id : In(s, l, id) =>
              /\ Find(s.lists[l], id) \in DOMAIN s.lists[l]
              /\ ElementOf(s, l, id) \in Element /\ ElementOf(s, l, id).id = id
<1>1. s.tokens \in Seq(Token) /\ \A l \in Lists : s.lists[l] \in Seq(Element)
  BY DEF Scene
<1>2. ASSUME NEW id, On(s, id)
      PROVE  /\ Find(s.tokens, id) \in DOMAIN s.tokens
             /\ TokenOf(s, id) \in Token /\ TokenOf(s, id).id = id
  <2>1. Find(s.tokens, id) # 0
    BY <1>2, <1>1, FindFacts DEF On
  <2>2. Find(s.tokens, id) \in DOMAIN s.tokens /\ TokenOf(s, id).id = id
    BY <1>1, <2>1, FindFacts DEF TokenOf
  <2> QED  BY <1>1, <2>2 DEF TokenOf
<1>3. ASSUME NEW l \in Lists, NEW id, In(s, l, id)
      PROVE  /\ Find(s.lists[l], id) \in DOMAIN s.lists[l]
             /\ ElementOf(s, l, id) \in Element /\ ElementOf(s, l, id).id = id
  <2>1. Find(s.lists[l], id) # 0
    BY <1>3, <1>1, FindFacts DEF In
  <2>2. Find(s.lists[l], id) \in DOMAIN s.lists[l] /\ ElementOf(s, l, id).id = id
    BY <1>1, <2>1, FindFacts DEF ElementOf
  <2> QED  BY <1>1, <2>2 DEF ElementOf
<1> QED  BY <1>1, <1>2, <1>3

LEMMA ClampRange ==
  ASSUME NEW hp \in Int
  PROVE  Clamp(hp) \in 0..MaxHp /\ (hp \in 0..MaxHp => Clamp(hp) = hp)
BY MapAssumption DEF Clamp

-----------------------------------------------------------------------------
LEMMA TokenTypes ==
  ASSUME NEW now \in Scene, NEW s \in Scene, NEW p \in Payload, p.kind \in TokenKinds
  PROVE  /\ InverseOp(s, p) \in Payload \cup {NoPayload}
         /\ Matches(now, p) => Update(now, s, p) \in Scene
<1> DEFINE U == UpdateTokens(now, s, p)
           I == InverseOfToken(s, p)
<1>1. Update(now, s, p) = U /\ InverseOp(s, p) = I
  BY Groups
<1>2. CASE p.kind = "token.add"
  <2>1. p \in [kind: {"token.add"}, token: Token]
    BY <1>2, TokenPayloads
  <2>2. I = [kind |-> "token.remove", id |-> p.token.id]
    BY <1>2 DEF InverseOfToken
  <2>3. I \in Payload
    BY <2>1, <2>2 DEF Payload, Token
  <2>4. U = [now EXCEPT !.tokens = Append(@, p.token)]
    BY <1>2 DEF UpdateTokens
  <2>5. Append(now.tokens, p.token) \in Seq(Token)
    BY <2>1, FoundTyped
  <2>6. U \in Scene
    BY <2>4, <2>5, SceneWith
  <2> HIDE DEF U, I
  <2> QED  BY <1>1, <2>3, <2>6
<1>3. CASE p.kind = "token.move"
  <2>1. p \in [kind: {"token.move"}, id: TokenIds, at: Cells]
    BY <1>3, TokenPayloads
  <2>2. I = IF On(s, p.id) THEN [p EXCEPT !.at = TokenOf(s, p.id).at] ELSE NoPayload
    BY <1>3 DEF InverseOfToken
  <2>3. I \in Payload \cup {NoPayload}
    <3>1. On(s, p.id) => TokenOf(s, p.id).at \in Cells
      BY FoundTyped DEF Token
    <3>2. On(s, p.id) => I \in [kind: {"token.move"}, id: TokenIds, at: Cells]
      BY <2>1, <2>2, <3>1
    <3> QED  BY <2>2, <3>2 DEF Payload
  <2>4. ASSUME Matches(now, p)  PROVE U \in Scene
    <3> DEFINE i == Find(now.tokens, p.id)
    <3>1. U = [now EXCEPT !.tokens = [now.tokens EXCEPT ![i].at = p.at]]
      BY <1>3 DEF UpdateTokens, Scene
    <3>2. i \in DOMAIN now.tokens
      BY <1>3, <2>4, FoundTyped DEF Matches, Positional
    <3>3. [now.tokens EXCEPT ![i].at = p.at] \in Seq(Token)
      <4>1. now.tokens \in Seq(Token) /\ now.tokens[i] \in Token
        BY <3>2, FoundTyped
      <4>2. [now.tokens[i] EXCEPT !.at = p.at] \in Token
        BY <2>1, <4>1 DEF Token
      <4> HIDE DEF i
      <4> QED  BY <3>2, <4>1, <4>2, ExceptSeq
    <3> QED  BY <3>1, <3>3, SceneWith
  <2> QED  BY <1>1, <2>3, <2>4
<1>4. CASE p.kind = "token.remove"
  <2>1. p \in [kind: {"token.remove"}, id: TokenIds]
    BY <1>4, TokenPayloads
  <2>2. I = IF On(s, p.id) THEN [kind |-> "token.add", token |-> TokenOf(s, p.id)] ELSE NoPayload
    BY <1>4 DEF InverseOfToken
  <2>3. I \in Payload \cup {NoPayload}
    BY <2>2, FoundTyped DEF Payload
  <2>4. U = [now EXCEPT !.tokens = Without(now.tokens, p.id)]
    BY <1>4 DEF UpdateTokens
  <2>5. Without(now.tokens, p.id) \in Seq(Token)
    BY FoundTyped, WithoutFacts
  <2>6. U \in Scene
    BY <2>4, <2>5, SceneWith
  <2> HIDE DEF U, I
  <2> QED  BY <1>1, <2>3, <2>6
<1>5. CASE p.kind \in {"token.hp", "token.delta"}
  <2>1. /\ p.kind = "token.hp" => p \in [kind: {"token.hp"}, id: TokenIds, hp: Int]
        /\ p.kind = "token.delta" => p \in [kind: {"token.delta"}, id: TokenIds, delta: Int]
    BY TokenPayloads
  <2>2. I = IF On(s, p.id) THEN [kind |-> "token.hp", id |-> TokenOf(s, p.id).id,
                                 hp |-> TokenOf(s, p.id).hp] ELSE NoPayload
    BY <1>5 DEF InverseOfToken
  <2>3. I \in Payload \cup {NoPayload}
    <3>1. On(s, p.id) => TokenOf(s, p.id).id \in TokenIds /\ TokenOf(s, p.id).hp \in Int
      BY FoundTyped DEF Token
    <3>2. On(s, p.id) => I \in [kind: {"token.hp"}, id: TokenIds, hp: Int]
      BY <2>2, <3>1
    <3> QED  BY <2>2, <3>2 DEF Payload
  <2>4. ASSUME Matches(now, p), p.kind = "token.hp"  PROVE U \in Scene
    <3> DEFINE i == Find(now.tokens, p.id)
               h == IF On(s, p.id) \/ p.hp < 0 THEN Clamp(p.hp) ELSE p.hp
    <3>1. U = [now EXCEPT !.tokens = [now.tokens EXCEPT ![i].hp = h]]
      BY <2>4 DEF UpdateTokens, WithHp
    <3>2. i \in DOMAIN now.tokens
      BY <2>4, FoundTyped DEF Matches, Positional
    <3>3. h \in Nat
      BY <2>1, <2>4, ClampRange
    <3>4. [now.tokens EXCEPT ![i].hp = h] \in Seq(Token)
      <4> HIDE DEF h
      <4>1. now.tokens \in Seq(Token) /\ now.tokens[i] \in Token
        BY <3>2, FoundTyped
      <4>2. [now.tokens[i] EXCEPT !.hp = h] \in Token
        BY <3>3, <4>1 DEF Token
      <4> HIDE DEF i
      <4> QED  BY <3>2, <4>1, <4>2, ExceptSeq
    <3> QED  BY <3>1, <3>4, SceneWith
  <2>5. ASSUME p.kind = "token.delta"  PROVE U \in Scene
    <3>1. U = [now EXCEPT !.tokens = Hit(now.tokens, s, p)]
      BY <2>5 DEF UpdateTokens
    <3>2. ASSUME NEW i \in 1..Len(now.tokens)
          PROVE  Hit(now.tokens, s, p)[i] \in Token
      <4>1. now.tokens[i] \in Token /\ i \in DOMAIN now.tokens
        BY FoundTyped, ElementOfSeq
      <4>2. Clamp(now.tokens[i].hp + p.delta) \in Nat
        BY <2>1, <2>5, <4>1, ClampRange DEF Token
      <4> QED  BY <4>1, <4>2 DEF Hit, Token
    <3>3. Hit(now.tokens, s, p) \in [1..Len(now.tokens) -> Token]
      <4>1. DOMAIN now.tokens = 1..Len(now.tokens)
        BY FoundTyped
      <4> QED  BY <3>2, <4>1 DEF Hit
    <3>4. Hit(now.tokens, s, p) \in Seq(Token)
      BY <3>3, FoundTyped, IsASeq
    <3> QED  BY <3>1, <3>4, SceneWith
  <2> QED  BY <1>1, <1>5, <2>3, <2>4, <2>5
<1>6. CASE p.kind \in {"tokens.clear", "tokens.replace"}
  <2>1. p.kind = "tokens.replace" =>
          p \in [kind: {"tokens.replace"}, tokens: Seq(Token), combat: Combat \cup {NoCombat}]
    BY TokenPayloads
  <2>2. I = [kind |-> "tokens.replace", tokens |-> s.tokens, combat |-> s.combat]
    BY <1>6 DEF InverseOfToken, ReplaceBack
  <2>3. s.tokens \in Seq(Token) /\ s.combat \in Combat \cup {NoCombat}
    BY DEF Scene
  <2>4. I \in Payload
    BY <2>2, <2>3 DEF Payload
  <2>5. p.kind = "tokens.clear" => U = [now EXCEPT !.tokens = <<>>, !.combat = NoCombat]
    BY DEF UpdateTokens
  <2>6. p.kind = "tokens.replace" => U = [now EXCEPT !.tokens = p.tokens, !.combat = p.combat]
    BY DEF UpdateTokens
  <2>7. <<>> \in Seq(Token) /\ NoCombat \in Combat \cup {NoCombat}
    OBVIOUS
  <2>8. U \in Scene
    <3> HIDE DEF U
    <3>1. CASE p.kind = "tokens.clear"
      <4>1. [now EXCEPT !.tokens = <<>>, !.combat = NoCombat] \in Scene
        BY <2>7, SceneWithBoth
      <4> QED  BY <2>5, <3>1, <4>1
    <3>2. CASE p.kind = "tokens.replace"
      <4>1. p.tokens \in Seq(Token) /\ p.combat \in Combat \cup {NoCombat}
        BY <2>1, <3>2
      <4>2. [now EXCEPT !.tokens = p.tokens, !.combat = p.combat] \in Scene
        BY <4>1, SceneWithBoth
      <4> QED  BY <2>6, <3>2, <4>2
    <3> QED  BY <1>6, <3>1, <3>2
  <2> HIDE DEF U, I
  <2> QED  BY <1>1, <2>4, <2>8
<1>7. CASE p.kind = "tokens.replace-npc"
  <2>1. p \in [kind: {"tokens.replace-npc"}, tokens: Seq(Token)]
    BY <1>7, TokenPayloads
  <2>2. I = [p EXCEPT !.tokens = Npcs(s.tokens)]
    BY <1>7 DEF InverseOfToken
  <2>3. Npcs(s.tokens) \in Seq(Token) /\ Pcs(s.tokens) \in Seq(Token) /\ Npcs(p.tokens) \in Seq(Token)
    BY <2>1, FoundTyped, PcsFacts
  <2>4. I \in [kind: {"tokens.replace-npc"}, tokens: Seq(Token)]
    BY <2>1, <2>2, <2>3
  <2>5. U = [now EXCEPT !.tokens = Pcs(s.tokens) \o Npcs(p.tokens)]
    BY <1>7 DEF UpdateTokens
  <2>6. Pcs(s.tokens) \o Npcs(p.tokens) \in Seq(Token)
    BY <2>3
  <2>7. I \in Payload
    BY <2>4 DEF Payload
  <2>8. U \in Scene
    BY <2>5, <2>6, SceneWith
  <2> HIDE DEF U, I
  <2> QED  BY <1>1, <2>7, <2>8
<1> QED  BY <1>2, <1>3, <1>4, <1>5, <1>6, <1>7 DEF TokenKinds

-----------------------------------------------------------------------------
LEMMA CombatTypes ==
  ASSUME NEW now \in Scene, NEW s \in Scene, NEW p \in Payload, p.kind \in CombatKinds
  PROVE  /\ InverseOp(s, p) \in Payload \cup {NoPayload}
         /\ Precondition(s, p) /\ Applicable(now, p) => Update(now, s, p) \in Scene
<1> DEFINE U == UpdateCombat(now, s, p)
           I == InverseOfCombat(s, p)
<1>1. Update(now, s, p) = U /\ InverseOp(s, p) = I
  BY Groups
<1>c. /\ now.combat \in Combat \cup {NoCombat} /\ s.combat \in Combat \cup {NoCombat}
      /\ \A c \in Combat : c \in [round: Nat, current: TokenIds, order: Order,
                                  effects: Seq(EndOfTurnEffect)]
  BY DEF Scene, Combat
<1>2. CASE p.kind = "combat.start"
  <2>1. p \in [kind: {"combat.start"}, order: Order]
    BY <1>2, CombatPayloads
  <2>2. I = [kind |-> "combat.end"]
    BY <1>2 DEF InverseOfCombat
  <2>3. I \in Payload
    BY <2>2 DEF Payload
  <2>4. U = [now EXCEPT !.combat = NewCombat(p.order)]
    BY <1>2 DEF UpdateCombat
  <2>5. NewCombat(p.order) \in Combat
    <3>1. p.order \in Order
      BY <2>1
    <3>2. p.order[1] \in TokenIds
      <4>1. p.order \in Seq(TokenIds) /\ Len(p.order) # 0
        BY <3>1 DEF Order
      <4> QED  BY <4>1
    <3>3. <<>> \in Seq(EndOfTurnEffect)
      OBVIOUS
    <3> QED  BY <3>1, <3>2, <3>3 DEF NewCombat, Combat
  <2>6. U \in Scene
    BY <2>4, <2>5, SceneWith
  <2> HIDE DEF U, I
  <2> QED  BY <1>1, <2>3, <2>6
<1>3. CASE p.kind = "combat.turn"
  <2>1. p \in [kind: {"combat.turn"}, id: TokenIds, round: Nat]
    BY <1>3, CombatPayloads
  <2> DEFINE back == [p EXCEPT !.id = s.combat.current, !.round = 0]
  <2>2. I = IF s.combat = NoCombat THEN NoPayload ELSE back
    BY <1>3 DEF InverseOfCombat
  <2>3. I \in Payload \cup {NoPayload}
    <3>1. s.combat # NoCombat => s.combat.current \in TokenIds
      BY <1>c
    <3>2. s.combat # NoCombat => back \in [kind: {"combat.turn"}, id: TokenIds, round: Nat]
      BY <2>1, <3>1
    <3> HIDE DEF back, I
    <3> QED  BY <2>2, <3>2 DEF Payload
  <2>4. ASSUME Precondition(s, p), Applicable(now, p)  PROVE U \in Scene
    <3> DEFINE c == [now.combat EXCEPT !.current = p.id,
                                       !.round = IF p.round = 0 THEN s.combat.round ELSE p.round]
    <3>1. s.combat # NoCombat /\ now.combat # NoCombat
      BY <1>3, <2>4 DEF Precondition, Applicable
    <3>2. U = [now EXCEPT !.combat = c]
      BY <1>3 DEF UpdateCombat, Scene
    <3>3. s.combat.round \in Nat
      BY <1>c, <3>1
    <3>4. c \in Combat
      BY <1>c, <2>1, <3>1, <3>3 DEF Combat
    <3> HIDE DEF c
    <3> QED  BY <3>2, <3>4, SceneWith
  <2> HIDE DEF U, I
  <2> QED  BY <1>1, <2>3, <2>4
<1>4. CASE p.kind = "combat.end"
  <2>1. I = IF s.combat = NoCombat THEN NoPayload
            ELSE [kind |-> "combat.start", order |-> s.combat.order]
    BY <1>4 DEF InverseOfCombat
  <2>2. I \in Payload \cup {NoPayload}
    <3>1. s.combat # NoCombat => s.combat.order \in Order
      BY <1>c
    <3>2. s.combat # NoCombat => I \in [kind: {"combat.start"}, order: Order]
      BY <2>1, <3>1
    <3> QED  BY <2>1, <3>2 DEF Payload
  <2>3. U = [now EXCEPT !.combat = NoCombat]
    BY <1>4 DEF UpdateCombat
  <2>4. U \in Scene
    BY <2>3, SceneWith
  <2> HIDE DEF U, I
  <2> QED  BY <1>1, <2>2, <2>4
<1>5. CASE p.kind = "combat.reorder"
  <2>1. p \in [kind: {"combat.reorder"}, order: Order]
    BY <1>5, CombatPayloads
  <2>2. I = IF s.combat = NoCombat THEN NoPayload ELSE [p EXCEPT !.order = s.combat.order]
    BY <1>5 DEF InverseOfCombat
  <2>3. I \in Payload \cup {NoPayload}
    <3>1. s.combat # NoCombat => s.combat.order \in Order
      BY <1>c
    <3>2. s.combat # NoCombat => I \in [kind: {"combat.reorder"}, order: Order]
      BY <2>1, <2>2, <3>1
    <3> QED  BY <2>2, <3>2 DEF Payload
  <2>4. ASSUME Applicable(now, p)  PROVE U \in Scene
    <3> DEFINE c == [now.combat EXCEPT !.order = p.order]
    <3>1. now.combat # NoCombat
      BY <1>5, <2>4 DEF Applicable
    <3>2. U = [now EXCEPT !.combat = c]
      BY <1>5 DEF UpdateCombat, Scene
    <3>3. c \in Combat
      BY <1>c, <2>1, <3>1 DEF Combat
    <3> QED  BY <3>2, <3>3, SceneWith
  <2> HIDE DEF U, I
  <2> QED  BY <1>1, <2>3, <2>4
<1>6. CASE p.kind = "combat.effect.add"
  <2>1. p \in [kind: {"combat.effect.add"}, given: BOOLEAN, effect: EndOfTurnEffect]
    BY <1>6, CombatPayloads
  <2>2. I = IF p.effect.id = Nothing THEN NoPayload
            ELSE [kind |-> "combat.effect.remove", id |-> p.effect.id]
    BY <1>6 DEF InverseOfCombat
  <2>3. I \in Payload \cup {NoPayload}
    <3>1. p.effect.id # Nothing => p.effect.id \in Names
      BY <2>1 DEF EndOfTurnEffect
    <3> QED  BY <2>2, <3>1 DEF Payload
  <2>4. ASSUME Applicable(now, p)  PROVE U \in Scene
    <3> DEFINE c == [now.combat EXCEPT !.effects = Append(now.combat.effects, p.effect)]
    <3>1. now.combat # NoCombat
      BY <1>6, <2>4 DEF Applicable
    <3>2. U = [now EXCEPT !.combat = c]
      BY <1>6 DEF UpdateCombat, Scene
    <3>3. Append(now.combat.effects, p.effect) \in Seq(EndOfTurnEffect)
      BY <1>c, <2>1, <3>1
    <3>4. c \in Combat
      BY <1>c, <3>1, <3>3 DEF Combat
    <3> QED  BY <3>2, <3>4, SceneWith
  <2> HIDE DEF U, I
  <2> QED  BY <1>1, <2>3, <2>4
<1>7. CASE p.kind = "combat.effect.remove"
  <2>1. p \in [kind: {"combat.effect.remove"}, id: Names]
    BY <1>7, CombatPayloads
  <2> DEFINE i == Find(s.combat.effects, p.id)
  <2>2. I = IF s.combat = NoCombat THEN NoPayload
            ELSE IF i = 0 THEN NoPayload
            ELSE [kind |-> "combat.effect.add", given |-> s.combat.effects[i].named,
                  effect |-> s.combat.effects[i]]
    BY <1>7 DEF InverseOfCombat
  <2>3. I \in Payload \cup {NoPayload}
    <3>1. CASE s.combat # NoCombat /\ i # 0
      <4>1. s.combat.effects \in Seq(EndOfTurnEffect)
        BY <1>c, <3>1
      <4>2. i \in DOMAIN s.combat.effects
        BY <3>1, <4>1, FindFacts
      <4>3. s.combat.effects[i] \in EndOfTurnEffect
        <5> HIDE DEF i
        <5> QED  BY <4>1, <4>2
      <4>4. s.combat.effects[i].named \in BOOLEAN
        BY <4>3 DEF EndOfTurnEffect
      <4>5. I \in [kind: {"combat.effect.add"}, given: BOOLEAN, effect: EndOfTurnEffect]
        <5> HIDE DEF i
        <5> QED  BY <2>2, <3>1, <4>3, <4>4
      <4> HIDE DEF I
      <4> QED  BY <4>5 DEF Payload
    <3>2. CASE ~(s.combat # NoCombat /\ i # 0)
      BY <2>2, <3>2
    <3> QED  BY <3>1, <3>2
  <2>4. U \in Scene
    <3> DEFINE c == [now.combat EXCEPT !.effects = Without(now.combat.effects, p.id)]
    <3>1. U = IF now.combat = NoCombat THEN now ELSE [now EXCEPT !.combat = c]
      BY <1>7 DEF UpdateCombat, Scene
    <3>2. ASSUME now.combat # NoCombat  PROVE c \in Combat
      <4>1. Without(now.combat.effects, p.id) \in Seq(EndOfTurnEffect)
        BY <1>c, <3>2, WithoutFacts
      <4> QED  BY <1>c, <3>2, <4>1 DEF Combat
    <3> QED  BY <3>1, <3>2, SceneWith
  <2> HIDE DEF U, I
  <2> QED  BY <1>1, <2>3, <2>4
<1> QED  BY <1>2, <1>3, <1>4, <1>5, <1>6, <1>7 DEF CombatKinds

-----------------------------------------------------------------------------
LEMMA ListTypes ==
  ASSUME NEW now \in Scene, NEW s \in Scene, NEW p \in Payload, p.kind \in ListKinds
  PROVE  /\ InverseOp(s, p) \in Payload \cup {NoPayload}
         /\ Matches(now, p) => Update(now, s, p) \in Scene
<1> DEFINE U == UpdateList(now, p)
           I == InverseOfList(s, p)
<1>1. Update(now, s, p) = U /\ InverseOp(s, p) = I
  BY Groups
<1>l. Edited \subseteq Lists
  BY DEF Lists
<1>2. CASE p.kind = "add"
  <2>1. p \in [kind: {"add"}, list: Edited, element: Element]
    BY <1>2, ListPayloads
  <2>2. I = [kind |-> "remove", list |-> p.list, id |-> p.element.id]
    BY <1>2 DEF InverseOfList
  <2>3. I \in Payload
    BY <2>1, <2>2 DEF Payload, Element
  <2>4. U = [now EXCEPT !.lists[p.list] = Append(now.lists[p.list], p.element)]
    BY <1>2, <1>l, <2>1 DEF UpdateList, Scene
  <2>5. Append(now.lists[p.list], p.element) \in Seq(Element)
    BY <1>l, <2>1, FoundTyped
  <2>6. U \in Scene
    <3>1. p.list \in Lists
      BY <1>l, <2>1
    <3>2. [now EXCEPT !.lists[p.list] = Append(now.lists[p.list], p.element)] \in Scene
      BY <2>5, <3>1, SceneWithList
    <3> QED  BY <2>4, <3>2
  <2> HIDE DEF U, I
  <2> QED  BY <1>1, <2>3, <2>6
<1>3. CASE p.kind = "update"
  <2>1. p \in [kind: {"update"}, list: Edited \ {"drawings"}, id: Names, value: Values]
    BY <1>3, ListPayloads
  <2>2. I = IF In(s, p.list, p.id) THEN [p EXCEPT !.value = ElementOf(s, p.list, p.id).value]
                                   ELSE NoPayload
    BY <1>3 DEF InverseOfList
  <2>3. I \in Payload \cup {NoPayload}
    <3>1. In(s, p.list, p.id) => ElementOf(s, p.list, p.id).value \in Values
      BY <1>l, <2>1, FoundTyped DEF Element
    <3>2. In(s, p.list, p.id) =>
            I \in [kind: {"update"}, list: Edited \ {"drawings"}, id: Names, value: Values]
      BY <2>1, <2>2, <3>1
    <3> HIDE DEF I
    <3> QED  BY <2>2, <3>2 DEF Payload
  <2>4. ASSUME Matches(now, p)  PROVE U \in Scene
    <3> DEFINE l == now.lists[p.list]
               i == Find(l, p.id)
               new == [l EXCEPT ![i] = [l[i] EXCEPT !.value = p.value]]
    <3>1. U = [now EXCEPT !.lists[p.list] = new]
      BY <1>3, <1>l, <2>1 DEF UpdateList, Scene
    <3>2. i \in DOMAIN l /\ l \in Seq(Element)
      BY <1>3, <1>l, <2>1, <2>4, FoundTyped DEF Matches, Positional
    <3>3. l[i] \in Element
      <4> HIDE DEF l, i
      <4> QED  BY <3>2
    <3>4. [l[i] EXCEPT !.value = p.value] \in Element
      BY <2>1, <3>3 DEF Element
    <3>5. new \in Seq(Element)
      <4> HIDE DEF l, i
      <4> QED  BY <3>2, <3>4, ExceptSeq
    <3> HIDE DEF new
    <3>6. p.list \in Lists
      BY <1>l, <2>1
    <3>7. [now EXCEPT !.lists[p.list] = new] \in Scene
      BY <3>5, <3>6, SceneWithList
    <3> QED  BY <3>1, <3>7
  <2> HIDE DEF U, I
  <2> QED  BY <1>1, <2>3, <2>4
<1>4. CASE p.kind = "remove"
  <2>1. p \in [kind: {"remove"}, list: Edited, id: Names]
    BY <1>4, ListPayloads
  <2>2. I = IF In(s, p.list, p.id)
            THEN [kind |-> "add", list |-> p.list, element |-> ElementOf(s, p.list, p.id)]
            ELSE NoPayload
    BY <1>4 DEF InverseOfList
  <2>3. I \in Payload \cup {NoPayload}
    <3>1. In(s, p.list, p.id) => ElementOf(s, p.list, p.id) \in Element
      BY <1>l, <2>1, FoundTyped
    <3>2. In(s, p.list, p.id) => I \in [kind: {"add"}, list: Edited, element: Element]
      BY <2>1, <2>2, <3>1
    <3> HIDE DEF I
    <3> QED  BY <2>2, <3>2 DEF Payload
  <2>4. U = [now EXCEPT !.lists[p.list] = Without(now.lists[p.list], p.id),
                        !.tokens = WithoutInstances(now.tokens, p)]
    BY <1>4, <1>l, <2>1 DEF UpdateList, Scene
  <2>5. Without(now.lists[p.list], p.id) \in Seq(Element)
    BY <1>l, <2>1, FoundTyped, WithoutFacts
  <2>6. WithoutInstances(now.tokens, p) \in Seq(Token)
    BY FoundTyped, KeptFacts DEF WithoutInstances
  <2>7. U \in Scene
    <3>1. p.list \in Lists
      BY <1>l, <2>1
    <3>2. [now EXCEPT !.lists[p.list] = Without(now.lists[p.list], p.id),
                      !.tokens = WithoutInstances(now.tokens, p)] \in Scene
      BY <2>5, <2>6, <3>1, SceneWithListAndTokens
    <3> QED  BY <2>4, <3>2
  <2> HIDE DEF U, I
  <2> QED  BY <1>1, <2>3, <2>7
<1>5. CASE p.kind = "replace"
  <2>1. p \in [kind: {"replace"}, list: Lists, elements: Seq(Element)]
    BY <1>5, ListPayloads
  <2>2. I = [p EXCEPT !.elements = s.lists[p.list]]
    BY <1>5 DEF InverseOfList
  <2>3. I \in [kind: {"replace"}, list: Lists, elements: Seq(Element)]
    BY <2>1, <2>2, FoundTyped
  <2>4. U = [now EXCEPT !.lists[p.list] = p.elements]
    BY <1>5 DEF UpdateList
  <2>5. U \in Scene
    <3>1. p.list \in Lists /\ p.elements \in Seq(Element)
      BY <2>1
    <3>2. [now EXCEPT !.lists[p.list] = p.elements] \in Scene
      BY <3>1, SceneWithList
    <3> QED  BY <2>4, <3>2
  <2> HIDE DEF U, I
  <2>6. I \in Payload
    BY <2>3 DEF Payload
  <2> QED  BY <1>1, <2>5, <2>6
<1> QED  BY <1>2, <1>3, <1>4, <1>5 DEF ListKinds

-----------------------------------------------------------------------------
LEMMA FieldTypes ==
  ASSUME NEW now \in Scene, NEW s \in Scene, NEW p \in Payload,
         p.kind \notin TokenKinds \cup CombatKinds \cup ListKinds
  PROVE  /\ InverseOp(s, p) \in Payload \cup {NoPayload}
         /\ Update(now, s, p) \in Scene
<1> DEFINE U == UpdateField(now, s, p)
           I == InverseOfField(s, p)
<1>1. p.kind \notin {"allow", "disallow"} => Update(now, s, p) = U /\ InverseOp(s, p) = I
  BY PayloadNames, Groups
<1>2. CASE p.kind \in {"allow", "disallow"}
  <2>1. p \in [kind: {"allow", "disallow"}, list: Whitelists, id: Names]
    BY <1>2, FieldPayloads
  <2>2. InverseOp(s, p) = InverseOfWhitelist(s, p) /\ Update(now, s, p) = UpdateWhitelist(now, p)
    BY <1>2, Groups
  <2>3. InverseOfWhitelist(s, p) \in {NoPayload, [p EXCEPT !.kind = "allow"], [p EXCEPT !.kind = "disallow"]}
    BY <1>2 DEF InverseOfWhitelist
  <2>4. [p EXCEPT !.kind = "allow"] \in Payload /\ [p EXCEPT !.kind = "disallow"] \in Payload
    <3>1. /\ [p EXCEPT !.kind = "allow"] = [kind |-> "allow", list |-> p.list, id |-> p.id]
          /\ [p EXCEPT !.kind = "disallow"] = [kind |-> "disallow", list |-> p.list, id |-> p.id]
      BY <2>1
    <3>2. p.list \in Whitelists /\ p.id \in Names
      BY <2>1
    <3>3. \A k \in {"allow", "disallow"}, l \in Whitelists, n \in Names :
            [kind |-> k, list |-> l, id |-> n] \in [kind: {"allow", "disallow"}, list: Whitelists, id: Names]
      OBVIOUS
    <3>4. \A q \in [kind: {"allow", "disallow"}, list: Whitelists, id: Names] : q \in Payload
      BY Zenon DEF Payload
    <3> QED  BY <3>1, <3>2, <3>3, <3>4
  <2>5. UpdateWhitelist(now, p) \in Scene
    BY <2>1 DEF UpdateWhitelist, Scene
  <2> QED  BY <2>2, <2>3, <2>4, <2>5
<1>3. CASE p.kind = "scene.state"
  <2>1. p \in [kind: {"scene.state"}, locked: BOOLEAN]
    BY <1>3, FieldPayloads
  <2>2. I = [p EXCEPT !.locked = s.locked] /\ U = [now EXCEPT !.locked = p.locked]
    BY <1>3 DEF InverseOfField, UpdateField
  <2>3. I \in [kind: {"scene.state"}, locked: BOOLEAN] /\ U \in Scene
    BY <2>1, <2>2 DEF Scene
  <2> HIDE DEF U, I
  <2> QED  BY <1>1, <1>3, <2>3 DEF Payload
<1>4. CASE p.kind = "scene.playerState"
  <2>1. p \in [kind: {"scene.playerState"}, user: Users, value: Override]
    BY <1>4, FieldPayloads
  <2>2. /\ I = [p EXCEPT !.value = s.overrides[p.user]]
        /\ U = [now EXCEPT !.overrides = [s.overrides EXCEPT ![p.user] = p.value]]
    BY <1>4 DEF InverseOfField, UpdateField
  <2>o. p.user \in Users /\ s.overrides \in [Users -> Override]
    BY <2>1 DEF Scene
  <2>p. s.overrides[p.user] \in Override
    BY <2>o
  <2>a. [p EXCEPT !.value = s.overrides[p.user]] \in [kind: {"scene.playerState"}, user: Users, value: Override]
    BY <2>1, <2>p
  <2>b. [s.overrides EXCEPT ![p.user] = p.value] \in [Users -> Override]
    BY <2>1 DEF Scene
  <2>3. /\ I \in [kind: {"scene.playerState"}, user: Users, value: Override]
        /\ U \in Scene
    BY <2>2, <2>a, <2>b DEF Scene
  <2> HIDE DEF U, I
  <2> QED  BY <1>1, <1>4, <2>3 DEF Payload
<1>5. CASE p.kind = "set"
  <2>1. p \in [kind: {"set"}, field: Fields, value: Values]
    BY <1>5, FieldPayloads
  <2>2. /\ I = IF p.field = "image" THEN NoPayload ELSE [p EXCEPT !.value = s.fields[p.field]]
        /\ U = [now EXCEPT !.fields[p.field] = p.value]
    BY <1>5 DEF InverseOfField, UpdateField
  <2>a. s.fields[p.field] \in Values /\ now.fields \in [Fields -> Values]
    BY <2>1 DEF Scene
  <2>b. [p EXCEPT !.value = s.fields[p.field]] \in [kind: {"set"}, field: Fields, value: Values]
    BY <2>1, <2>a
  <2>c. [now.fields EXCEPT ![p.field] = p.value] \in [Fields -> Values]
    BY <2>1, <2>a
  <2>d. U = [now EXCEPT !.fields = [now.fields EXCEPT ![p.field] = p.value]]
    BY <2>2 DEF Scene
  <2>e. U \in Scene
    BY <2>c, <2>d DEF Scene
  <2>3. /\ I = NoPayload \/ I \in [kind: {"set"}, field: Fields, value: Values]
        /\ U \in Scene
    BY <2>2, <2>b, <2>e
  <2> HIDE DEF U, I
  <2> QED  BY <1>1, <1>5, <2>3 DEF Payload
<1>6. CASE p.kind = "fog.set"
  <2>1. p \in [kind: {"fog.set"}, fog: [enabled: BOOLEAN, revealed: SUBSET Cells]]
    BY <1>6, FieldPayloads
  <2>2. I = [p EXCEPT !.fog = s.fog] /\ U = [now EXCEPT !.fog = p.fog]
    BY <1>6 DEF InverseOfField, UpdateField
  <2>3. /\ I \in [kind: {"fog.set"}, fog: [enabled: BOOLEAN, revealed: SUBSET Cells]]
        /\ U \in Scene
    BY <2>1, <2>2 DEF Scene
  <2> HIDE DEF U, I
  <2> QED  BY <1>1, <1>6, <2>3 DEF Payload
<1>7. CASE p.kind = "fog.brush"
  <2>1. p \in [kind: {"fog.brush"}, reveal: BOOLEAN, hexes: SUBSET Cells]
    BY <1>7, FieldPayloads
  <2>2. /\ I = [p EXCEPT !.reveal = ~p.reveal]
        /\ U = [now EXCEPT !.fog.revealed = Brushed(@, p)]
    BY <1>7 DEF InverseOfField, UpdateField
  <2>3. I \in [kind: {"fog.brush"}, reveal: BOOLEAN, hexes: SUBSET Cells]
    BY <2>1, <2>2
  <2>4. Brushed(now.fog.revealed, p) \in SUBSET Cells
    BY <2>1 DEF Brushed, Scene
  <2>5. U \in Scene
    BY <2>1, <2>2, <2>4 DEF Scene
  <2> HIDE DEF U, I
  <2> QED  BY <1>1, <1>7, <2>3, <2>5 DEF Payload
<1>8. CASE p.kind \in {"scene.activate", "scene.deactivate"}
  <2>1. /\ I \in {[kind |-> "scene.activate"], [kind |-> "scene.deactivate"]}
        /\ U = [now EXCEPT !.active = (p.kind = "scene.activate")]
    BY <1>8 DEF InverseOfField, UpdateField
  <2>a. I \in Payload
    BY <2>1 DEF Payload
  <2>2. I \in Payload /\ U \in Scene
    BY <2>1, <2>a DEF Scene
  <2> HIDE DEF U, I
  <2> QED  BY <1>1, <1>8, <2>2
<1>9. CASE p.kind = "dice.roll"
  <2>1. p \in [kind: {"dice.roll"}, by: Users, token: TokenIds \cup {Nothing}]
    BY <1>9, FieldPayloads
  <2>2. I = NoPayload /\ U = [now EXCEPT !.dice = Rolled(now.dice, p)]
    BY <1>9 DEF InverseOfField, UpdateField
  <2>3. Rolled(now.dice, p) \in Seq(Users)
    <3> DEFINE rolls == Append(now.dice, p.by)
               m == IF Len(rolls) > DiceLimit THEN 2 ELSE 1
    <3>1. rolls \in Seq(Users) /\ Len(rolls) \in Nat
      BY <2>1 DEF Scene
    <3>2. m \in 1..2
      OBVIOUS
    <3>3. \A i \in m..Len(rolls) : rolls[i] \in Users
      <4> HIDE DEF rolls, m
      <4> QED  BY <3>1, <3>2
    <3>4. SubSeq(rolls, m, Len(rolls)) \in Seq(Users)
      <4> HIDE DEF rolls, m
      <4> QED  BY <3>1, <3>2, <3>3, SubSeqProperties
    <3> QED  BY <3>4 DEF Rolled
  <2>4. U \in Scene
    BY <2>2, <2>3 DEF Scene
  <2> HIDE DEF U, I
  <2> QED  BY <1>1, <1>9, <2>2, <2>4
<1> QED  BY <1>2, <1>3, <1>4, <1>5, <1>6, <1>7, <1>8, <1>9, PayloadNames

(* Together: an inverse is a payload or nothing, and a scene stays one.    *)
LEMMA OperationTypes ==
  ASSUME NEW now \in Scene, NEW s \in Scene, NEW p \in Payload
  PROVE  /\ InverseOp(s, p) \in Payload \cup {NoPayload}
         /\ Precondition(s, p) /\ Matches(now, p) /\ Applicable(now, p) => Update(now, s, p) \in Scene
BY TokenTypes, CombatTypes, ListTypes, FieldTypes

-----------------------------------------------------------------------------
(* What a request holds on to between its steps.                           *)
Decided(q) ==
  /\ q.op.kind = "apply" => q.op.payload \in Payload
  /\ q.pc \in {"load", "write", "allocate", "append", "emit"} => q.payload \in Payload
  /\ q.pc = "write" => /\ q.snap \in Scene /\ q.inverse = InverseOp(q.snap, q.payload)
                       /\ Valid(q.payload) /\ Precondition(q.snap, q.payload)

MapTyped == TypeOK /\ \A r \in Requests : Decided(req[r])

LEMMA MapTypedInit == Init => MapTyped
<1> SUFFICES ASSUME Init  PROVE MapTyped
  OBVIOUS
<1>1. PICK plan \in Plans :
        req = [r \in Requests |->
                [op |-> plan[r], pc |-> "start", snap |-> NoScene,
                 payload |-> NoPayload, inverse |-> NoPayload, seq |-> 0,
                 target |-> NoRequest, untold |-> FALSE, answer |-> "none"]]
  BY DEF Init
<1>2. ASSUME NEW r \in Requests
      PROVE  /\ plan[r] \in Operation
             /\ plan[r].kind = "apply" => plan[r].payload \in Payload
             /\ req[r].op = plan[r] /\ req[r].pc = "start"
  <2>1. plan[r] \in Operation
    BY MapAssumption
  <2>2. (plan[r].kind = "apply") = (plan[r].payload # NoPayload)
    BY MapAssumption
  <2> QED  BY <1>1, <2>1, <2>2 DEF Operation
<1>3. req \in [Requests -> Local]
  BY <1>1, <1>2 DEF Local, Places, Answers
<1>4. log \in [Requests -> Record]
  <2>1. \A r \in Requests : req[r].op.user \in Users
    BY <1>2 DEF Operation
  <2>2. log = [r \in Requests |->
                 [seq |-> 0, payload |-> NoPayload, inverse |-> NoPayload,
                  by |-> req[r].op.user, undone |-> FALSE]]
    BY DEF Init
  <2> QED  BY <2>1, <2>2 DEF Record
<1>5. TypeOK
  <2>1. scene \in Scene /\ lastSeq \in Nat /\ events = {} /\ writes \in Seq(Requests)
    BY MapAssumption DEF Init
  <2> QED  BY <1>3, <1>4, <2>1 DEF TypeOK
<1>6. \A r \in Requests : Decided(req[r])
  BY <1>2 DEF Decided
<1> QED  BY <1>5, <1>6 DEF MapTyped

(* A step of r changes the local state of r alone.                         *)
LEMMA LocalStep ==
  ASSUME MapTyped, NEW r \in Requests, NEW q \in Local, Decided(q), req' = [req EXCEPT ![r] = q]
  PROVE  req' \in [Requests -> Local] /\ \A x \in Requests : Decided(req'[x])
BY DEF MapTyped, TypeOK

LEMMA FinishStep ==
  ASSUME MapTyped, NEW r \in Requests, NEW answer \in Answers, Finish(r, answer)
  PROVE  req' \in [Requests -> Local] /\ \A x \in Requests : Decided(req'[x])
<1> DEFINE q == [req[r] EXCEPT !.pc = "done", !.answer = answer, !.snap = NoScene]
<1>1. req[r] \in Local /\ Decided(req[r]) /\ req \in [Requests -> Local]
  BY DEF MapTyped, TypeOK
<1>2. q \in Local
  BY <1>1 DEF Local, Places
<1>3. q.op = req[r].op /\ q.pc = "done"
  BY <1>1 DEF Local
<1>4. Decided(q)
  <2> HIDE DEF q
  <2> QED  BY <1>1, <1>3 DEF Decided
<1>5. req' = [req EXCEPT ![r] = q]
  BY <1>1 DEF Finish
<1> HIDE DEF q
<1> QED  BY <1>2, <1>4, <1>5, LocalStep

(* The answer of a verdict. *)
LEMMA VerdictAnswers ==
  ASSUME NEW r
  PROVE  Verdict(r) \in Answers /\ UndoVerdict(r) \in Answers
BY DEF Verdict, UndoVerdict, Answers

(* A delta is logged with the hit points it has produced.                  *)
LEMMA NormalizedType ==
  ASSUME NEW now \in Scene, NEW s \in Scene, NEW p \in Payload, Matches(now, p),
         Update(now, s, p) \in Scene
  PROVE  Normalized(p, Update(now, s, p)) \in Payload
<1>1. CASE p.kind # "token.delta"
  BY <1>1 DEF Normalized
<1>2. CASE p.kind = "token.delta"
  <2> DEFINE t == Update(now, s, p)
  <2>1. p \in [kind: {"token.delta"}, id: TokenIds, delta: Int]
    BY <1>2, TokenPayloads
  <2>2. t = [now EXCEPT !.tokens = Hit(now.tokens, s, p)]
    <3>1. t = UpdateTokens(now, s, p)
      BY <1>2, Groups DEF TokenKinds
    <3> HIDE DEF t
    <3> QED  BY <1>2, <3>1 DEF UpdateTokens
  <2>3. t.tokens = Hit(now.tokens, s, p) /\ now.tokens \in Seq(Token) /\ t.tokens \in Seq(Token)
    BY <2>2 DEF Scene
  <2>4. Len(t.tokens) = Len(now.tokens) /\ \A i \in 1..Len(now.tokens) : now.tokens[i].id = t.tokens[i].id
    <3>1. DOMAIN t.tokens = DOMAIN now.tokens /\ DOMAIN now.tokens = 1..Len(now.tokens)
          /\ DOMAIN t.tokens = 1..Len(t.tokens)
      BY <2>3 DEF Hit
    <3>2. Len(t.tokens) = Len(now.tokens)
      BY <2>3, <3>1
    <3>3. ASSUME NEW i \in 1..Len(now.tokens)  PROVE now.tokens[i].id = t.tokens[i].id
      <4>1. now.tokens[i] \in Token
        BY <2>3
      <4> HIDE DEF t
      <4> QED  BY <2>3, <3>1, <4>1 DEF Hit, Token
    <3> HIDE DEF t
    <3> QED  BY <3>2, <3>3
  <2>5. Find(t.tokens, p.id) = Find(now.tokens, p.id)
    <3> HIDE DEF t
    <3> QED  BY <2>4, FindSame
  <2>6. On(t, p.id)
    <3>1. On(now, p.id)
      BY <1>2 DEF Matches, Positional
    <3> HIDE DEF t
    <3> QED  BY <2>5, <3>1 DEF On
  <2>7. TokenOf(t, p.id) \in Token
    <3> HIDE DEF t
    <3>1. t \in Scene
      BY DEF t
    <3> QED  BY <2>6, <3>1, FoundTyped
  <2>8. TokenOf(t, p.id).hp \in Int
    <3> HIDE DEF t
    <3> QED  BY <2>7 DEF Token
  <2>9. Normalized(p, t) = [kind |-> "token.hp", id |-> p.id, hp |-> TokenOf(t, p.id).hp]
    BY <1>2 DEF Normalized
  <2> HIDE DEF t
  <2>10. Normalized(p, t) \in [kind: {"token.hp"}, id: TokenIds, hp: Int]
    BY <2>1, <2>8, <2>9
  <2>11. Normalized(p, t) \in Payload
    BY <2>10 DEF Payload
  <2> QED  BY <2>11 DEF t
<1> QED  BY <1>1, <1>2

-----------------------------------------------------------------------------
LEMMA LoadTyped ==
  ASSUME MapTyped, NEW r \in Requests, Load(r)
  PROVE  MapTyped'
<1> DEFINE w == Wanted(r)
           q == [req[r] EXCEPT !.pc = "write", !.snap = scene, !.payload = w,
                               !.inverse = InverseOp(scene, w)]
<1>1. req[r] \in Local /\ Decided(req[r]) /\ req \in [Requests -> Local]
  BY DEF MapTyped, TypeOK
<1>2. w \in Payload
  BY <1>1 DEF Load, Loading, Wanted, Decided, Op
<1>3. scene \in Scene /\ Valid(w) /\ Precondition(scene, w)
  BY DEF Load, Verdict, MapTyped, TypeOK
<1>4. InverseOp(scene, w) \in Payload \cup {NoPayload}
  BY <1>2, <1>3, OperationTypes
<1> HIDE DEF w
<1>5. q \in Local
  BY <1>1, <1>2, <1>3, <1>4 DEF Local, Places
<1>6. q.op = req[r].op /\ q.pc = "write" /\ q.snap = scene /\ q.payload = w /\ q.inverse = InverseOp(scene, w)
  BY <1>1 DEF Local
<1>7. Decided(q)
  <2> HIDE DEF q
  <2> QED  BY <1>1, <1>2, <1>3, <1>6 DEF Decided
<1>8. req' = [req EXCEPT ![r] = q] /\ UNCHANGED <<scene, lastSeq, log, events, writes>>
  BY <1>1 DEF Load, w
<1> HIDE DEF q
<1>9. req' \in [Requests -> Local] /\ \A x \in Requests : Decided(req'[x])
  BY <1>5, <1>7, <1>8, LocalStep
<1> QED  BY <1>8, <1>9 DEF MapTyped, TypeOK

LEMMA WriteTyped ==
  ASSUME MapTyped, NEW r \in Requests, Write(r)
  PROVE  MapTyped'
<1> DEFINE p == req[r].payload
           snap == req[r].snap
           t == Update(scene, snap, p)
           w == Normalized(p, t)
           untold == Untold(scene, snap, p)
           q == [req[r] EXCEPT !.pc = "allocate", !.snap = NoScene, !.payload = w, !.untold = untold]
<1>1. req[r] \in Local /\ Decided(req[r]) /\ req \in [Requests -> Local]
  BY DEF MapTyped, TypeOK
<1>2. p \in Payload /\ snap \in Scene /\ Precondition(snap, p)
  BY <1>1 DEF Write, Decided
<1>3. scene \in Scene /\ Matches(scene, p) /\ Applicable(scene, p)
  BY DEF Write, MapTyped, TypeOK
<1>4. t \in Scene
  BY <1>2, <1>3, OperationTypes
<1>5. w \in Payload
  BY <1>2, <1>3, <1>4, NormalizedType
<1>6. untold \in BOOLEAN
  BY DEF Untold
<1>7. req' = [req EXCEPT ![r] = q] /\ scene' = t /\ writes' = Append(writes, r)
      /\ UNCHANGED <<lastSeq, log, events>>
  BY <1>1 DEF Write
<1> HIDE DEF w, t, untold
<1>8. q \in Local
  BY <1>1, <1>5, <1>6 DEF Local, Places
<1>9. q.op = req[r].op /\ q.pc = "allocate" /\ q.payload = w
  BY <1>1 DEF Local
<1>10. Decided(q)
  <2> HIDE DEF q
  <2> QED  BY <1>1, <1>5, <1>9 DEF Decided
<1> HIDE DEF q
<1>11. req' \in [Requests -> Local] /\ \A x \in Requests : Decided(req'[x])
  BY <1>7, <1>8, <1>10, LocalStep
<1>12. writes' \in Seq(Requests)
  BY <1>7 DEF MapTyped, TypeOK
<1> QED  BY <1>4, <1>7, <1>11, <1>12 DEF MapTyped, TypeOK

(* The steps that only move r on in its program. *)
LEMMA MoveStep ==
  ASSUME MapTyped, NEW r \in Requests, NEW pc \in Places \ {"write"}, NEW n \in Nat,
         NEW inverse \in Payload \cup {NoPayload}, NEW snap \in Scene \cup {NoScene},
         pc \in {"load", "allocate", "append", "emit"} => req[r].payload \in Payload,
         req' = [req EXCEPT ![r] = [req[r] EXCEPT !.pc = pc, !.seq = n, !.inverse = inverse,
                                                  !.snap = snap]]
  PROVE  req' \in [Requests -> Local] /\ \A x \in Requests : Decided(req'[x])
<1> DEFINE q == [req[r] EXCEPT !.pc = pc, !.seq = n, !.inverse = inverse, !.snap = snap]
<1>1. req[r] \in Local /\ Decided(req[r]) /\ req \in [Requests -> Local]
  BY DEF MapTyped, TypeOK
<1>2. q \in Local
  BY <1>1 DEF Local
<1>3. q.op = req[r].op /\ q.pc = pc /\ q.payload = req[r].payload
  BY <1>1 DEF Local
<1>4. Decided(q)
  <2> HIDE DEF q
  <2> QED  BY <1>1, <1>3 DEF Decided
<1> HIDE DEF q
<1>5. req' = [req EXCEPT ![r] = q]
  BY DEF q
<1> QED  BY <1>2, <1>4, <1>5, LocalStep

-----------------------------------------------------------------------------
LEMMA RefusalTyped ==
  ASSUME MapTyped, NEW r \in Requests, NEW answer \in Answers, Finish(r, answer),
         UNCHANGED <<lastSeq, log, events, writes>>, scene' \in {scene, NoScene}
  PROVE  MapTyped'
BY FinishStep DEF MapTyped, TypeOK

LEMMA Marked ==
  ASSUME NEW entries \in [Requests -> Record], NEW x
  PROVE  [entries EXCEPT ![x].undone = TRUE] \in [Requests -> Record]
<1>1. CASE x \notin Requests
  BY <1>1
<1>2. CASE x \in Requests
  <2>1. [entries[x] EXCEPT !.undone = TRUE] \in Record
    BY <1>2 DEF Record
  <2> QED  BY <2>1
<1> QED  BY <1>1, <1>2

LEMMA MovedOn ==
  ASSUME NEW q \in Local, NEW pc
  PROVE  [q EXCEPT !.pc = pc] = [q EXCEPT !.pc = pc, !.seq = q.seq, !.inverse = q.inverse, !.snap = q.snap]
BY DEF Local

LEMMA MoveTyped ==
  ASSUME MapTyped, NEW r \in Requests,
         WriteNothing(r) \/ Allocate(r) \/ AppendRecord(r) \/ Emit(r) \/ MarkTarget(r)
  PROVE  MapTyped'
<1>1. req[r] \in Local /\ Decided(req[r]) /\ req \in [Requests -> Local] /\ lastSeq \in Nat
  BY DEF MapTyped, TypeOK
<1>2. /\ req[r].seq \in Nat /\ req[r].snap \in Scene \cup {NoScene}
      /\ req[r].inverse \in Payload \cup {NoPayload}
      /\ req[r].pc \in {"load", "write", "allocate", "append", "emit"} => req[r].payload \in Payload
  BY <1>1 DEF Local, Decided
<1>p. /\ {"allocate", "append", "emit", "mark", "markOwn"} \subseteq Places \ {"write"}
      /\ {"mark", "markOwn"} \cap {"load", "allocate", "append", "emit"} = {}
      /\ NoPayload \in Payload \cup {NoPayload} /\ NoScene \in Scene \cup {NoScene}
  BY DEF Places
<1>3. CASE WriteNothing(r)
  <2>1. req' = [req EXCEPT ![r] = [req[r] EXCEPT !.pc = "allocate", !.seq = req[r].seq,
                                       !.inverse = req[r].inverse, !.snap = NoScene]]
    BY <1>1, <1>3 DEF WriteNothing, Local
  <2>2. req[r].payload \in Payload
    BY <1>2, <1>3 DEF WriteNothing
  <2>3. req' \in [Requests -> Local] /\ \A x \in Requests : Decided(req'[x])
    BY <1>2, <2>1, <2>2, <1>p, MoveStep
  <2> QED  BY <1>3, <2>3 DEF WriteNothing, MapTyped, TypeOK
<1>4. CASE Allocate(r)
  <2>1. req' = [req EXCEPT ![r] = [req[r] EXCEPT !.pc = "append", !.seq = lastSeq + 1,
                                       !.inverse = req[r].inverse, !.snap = req[r].snap]]
    BY <1>1, <1>4 DEF Allocate, Local
  <2>2. req[r].payload \in Payload /\ lastSeq + 1 \in Nat
    BY <1>1, <1>2, <1>4 DEF Allocate
  <2>3. req' \in [Requests -> Local] /\ \A x \in Requests : Decided(req'[x])
    BY <1>2, <2>1, <2>2, <1>p, MoveStep
  <2> QED  BY <1>4, <2>2, <2>3 DEF Allocate, MapTyped, TypeOK
<1>5. CASE AppendRecord(r)
  <2>1. CASE SeqTaken(req[r].seq)
    BY <1>5, <2>1, RefusalTyped DEF AppendRecord, Answers
  <2>2. CASE ~SeqTaken(req[r].seq)
    <3>1. req' = [req EXCEPT ![r] = [req[r] EXCEPT !.pc = "emit", !.seq = req[r].seq,
                                         !.inverse = NoPayload, !.snap = req[r].snap]]
      BY <1>1, <1>5, <2>2 DEF AppendRecord, Local
    <3>2. req[r].payload \in Payload
      BY <1>2, <1>5 DEF AppendRecord
    <3>3. req' \in [Requests -> Local] /\ \A x \in Requests : Decided(req'[x])
      BY <1>2, <3>1, <3>2, <1>p, MoveStep
    <3>4. log' = [log EXCEPT ![r].seq = req[r].seq, ![r].payload = req[r].payload,
                             ![r].inverse = req[r].inverse]
      BY <1>5, <2>2 DEF AppendRecord
    <3>5. log' \in [Requests -> Record]
      <4> DEFINE entry == [log[r] EXCEPT !.seq = req[r].seq, !.payload = req[r].payload,
                                         !.inverse = req[r].inverse]
      <4>1. log \in [Requests -> Record] /\ log[r] \in Record
        BY DEF MapTyped, TypeOK
      <4>2. entry \in Record
        BY <1>2, <3>2, <4>1 DEF Record
      <4>3. log' = [log EXCEPT ![r] = entry]
        BY <3>4, <4>1
      <4> HIDE DEF entry
      <4> QED  BY <4>1, <4>2, <4>3
    <3> QED  BY <1>5, <3>3, <3>5 DEF AppendRecord, MapTyped, TypeOK
  <2> QED  BY <2>1, <2>2
<1>6. CASE Emit(r)
  <2>1. req[r].payload \in Payload
    BY <1>2, <1>6 DEF Emit
  <2>2. events' \subseteq [seq: Nat, payload: Payload]
    BY <1>2, <1>6, <2>1 DEF Emit, MapTyped, TypeOK
  <2>3. req' \in [Requests -> Local] /\ \A x \in Requests : Decided(req'[x])
    <3>1. CASE Op(r).kind = "undo"
      <4>1. req' = [req EXCEPT ![r] = [req[r] EXCEPT !.pc = "mark", !.seq = req[r].seq,
                                           !.inverse = req[r].inverse, !.snap = req[r].snap]]
        <5>1. req' = [req EXCEPT ![r] = [req[r] EXCEPT !.pc = "mark"]]
          BY <1>1, <1>6, <3>1 DEF Emit
        <5>2. [req[r] EXCEPT !.pc = "mark"]
                = [req[r] EXCEPT !.pc = "mark", !.seq = req[r].seq, !.inverse = req[r].inverse, !.snap = req[r].snap]
          BY <1>1, MovedOn
        <5> QED  BY <5>1, <5>2
      <4>2. "mark" \in Places \ {"write"} /\ "mark" \notin {"load", "allocate", "append", "emit"}
        BY <1>p
      <4> QED  BY <1>2, <4>1, <4>2, MoveStep
    <3>2. CASE Op(r).kind # "undo"
      BY <1>6, <3>2, FinishStep DEF Emit, Answers
    <3> QED  BY <3>1, <3>2
  <2> QED  BY <1>6, <2>2, <2>3 DEF Emit, MapTyped, TypeOK
<1>7. CASE MarkTarget(r)
  <2>1. req' = [req EXCEPT ![r] = [req[r] EXCEPT !.pc = "markOwn", !.seq = req[r].seq,
                                       !.inverse = req[r].inverse, !.snap = req[r].snap]]
    <3>1. req' = [req EXCEPT ![r] = [req[r] EXCEPT !.pc = "markOwn"]]
      BY <1>1, <1>7 DEF MarkTarget
    <3> QED  BY <1>1, <3>1, MovedOn
  <2>2. req' \in [Requests -> Local] /\ \A x \in Requests : Decided(req'[x])
    BY <1>2, <2>1, <1>p, MoveStep
  <2>3. log' \in [Requests -> Record]
    BY <1>7, Marked DEF MarkTarget, MapTyped, TypeOK
  <2> QED  BY <1>7, <2>2, <2>3 DEF MarkTarget, MapTyped, TypeOK
<1> QED  BY <1>3, <1>4, <1>5, <1>6, <1>7

LEMMA UndoTyped ==
  ASSUME MapTyped, NEW r \in Requests, UndoFind(r)
  PROVE  MapTyped'
<1>1. req[r] \in Local /\ Decided(req[r]) /\ req \in [Requests -> Local]
  BY DEF MapTyped, TypeOK
<1>2. PICK x \in Undoable(User(r)) :
        req' = [req EXCEPT ![r].pc = "load", ![r].target = x, ![r].payload = log[x].inverse]
  BY DEF UndoFind
<1> DEFINE q == [req[r] EXCEPT !.pc = "load", !.target = x, !.payload = log[x].inverse]
<1>3. x \in Requests /\ log[x].inverse \in Payload
  BY <1>2 DEF Undoable, MapTyped, TypeOK, Record
<1>4. q \in Local
  BY <1>1, <1>3 DEF Local, Places
<1>5. q.op = req[r].op /\ q.pc = "load" /\ q.payload = log[x].inverse
  BY <1>1 DEF Local
<1>6. req' = [req EXCEPT ![r] = q]
  BY <1>1, <1>2
<1>7. Decided(q)
  <2> HIDE DEF q
  <2> QED  BY <1>1, <1>3, <1>5 DEF Decided
<1> HIDE DEF q
<1>8. req' \in [Requests -> Local] /\ \A y \in Requests : Decided(req'[y])
  BY <1>4, <1>6, <1>7, LocalStep
<1> QED  BY <1>8 DEF UndoFind, MapTyped, TypeOK

LEMMA NoopTyped ==
  ASSUME MapTyped, NEW r \in Requests, WriteNoop(r)
  PROVE  MapTyped'
<1>1. CASE Op(r).kind = "undo"
  <2>1. req[r] \in Local /\ req \in [Requests -> Local]
    BY DEF MapTyped, TypeOK
  <2>2. req' = [req EXCEPT ![r] = [req[r] EXCEPT !.pc = "settle", !.seq = req[r].seq,
                                       !.inverse = req[r].inverse, !.snap = NoScene]]
    BY <1>1, <2>1 DEF WriteNoop, Local
  <2>3. req[r].seq \in Nat /\ req[r].inverse \in Payload \cup {NoPayload}
    BY <2>1 DEF Local
  <2>4. "settle" \in Places \ {"write"} /\ "settle" \notin {"load", "allocate", "append", "emit"}
    BY DEF Places
  <2>5. NoScene \in Scene \cup {NoScene}
    OBVIOUS
  <2>6. req' \in [Requests -> Local] /\ \A x \in Requests : Decided(req'[x])
    BY <2>2, <2>3, <2>4, <2>5, MoveStep
  <2> QED  BY <2>6 DEF WriteNoop, MapTyped, TypeOK
<1>2. CASE Op(r).kind # "undo"
  BY <1>2, RefusalTyped DEF WriteNoop, Answers
<1> QED  BY <1>1, <1>2

LEMMA SettleTyped ==
  ASSUME MapTyped, NEW r \in Requests, MarkOwn(r) \/ MarkNoop(r)
  PROVE  MapTyped'
<1>1. log' \in [Requests -> Record]
  BY Marked DEF MarkOwn, MarkNoop, MapTyped, TypeOK
<1>2. PICK answer \in Answers : Finish(r, answer)
  BY DEF MarkOwn, MarkNoop, Answers
<1>3. req' \in [Requests -> Local] /\ \A x \in Requests : Decided(req'[x])
  BY <1>2, FinishStep
<1> QED  BY <1>1, <1>3 DEF MarkOwn, MarkNoop, MapTyped, TypeOK

LEMMA MapTypedNext == MapTyped /\ [Next]_vars => MapTyped'
<1> SUFFICES ASSUME MapTyped, [Next]_vars  PROVE MapTyped'
  OBVIOUS
<1>1. CASE UNCHANGED vars
  BY <1>1 DEF vars, MapTyped, TypeOK
<1>2. ASSUME NEW r \in Requests, Step(r)  PROVE MapTyped'
  <2>1. CASE LoadRefused(r)
    BY <2>1, VerdictAnswers, RefusalTyped DEF LoadRefused
  <2>2. CASE Load(r)
    BY <2>2, LoadTyped
  <2>3. CASE WriteMissed(r)
    BY <2>3, RefusalTyped DEF WriteMissed, Answers
  <2>4. CASE WriteNoop(r)
    BY <2>4, NoopTyped
  <2>5. CASE WriteFailed(r)
    BY <2>5, RefusalTyped DEF WriteFailed, Answers
  <2>6. CASE WriteNothing(r) \/ Allocate(r) \/ AppendRecord(r) \/ Emit(r) \/ MarkTarget(r)
    BY <2>6, MoveTyped
  <2>7. CASE Write(r)
    BY <2>7, WriteTyped
  <2>8. CASE AllocateGone(r)
    BY <2>8, RefusalTyped DEF AllocateGone, Answers
  <2>9. CASE UndoRefused(r)
    BY <2>9, VerdictAnswers, RefusalTyped DEF UndoRefused
  <2>10. CASE UndoFind(r)
    BY <2>10, UndoTyped
  <2>11. CASE MarkOwn(r) \/ MarkNoop(r)
    BY <2>11, SettleTyped
  <2>12. CASE DeleteScene(r)
    <3>1. PICK answer \in Answers : Finish(r, answer)
      BY <2>12 DEF DeleteScene, Answers
    <3> QED  BY <2>12, <3>1, RefusalTyped DEF DeleteScene
  <2>13. CASE Fail(r) \/ Crash(r)
    <3>1. CutShort(r) \in Answers
      BY DEF CutShort, Answers
    <3> QED  BY <2>13, <3>1, RefusalTyped DEF Fail, Crash
  <2> QED  BY <1>2, <2>1, <2>2, <2>3, <2>4, <2>5, <2>6, <2>7, <2>8, <2>9, <2>10, <2>11,
              <2>12, <2>13 DEF Step
<1> QED  BY <1>1, <1>2 DEF Next

LEMMA AlwaysTyped == Spec => []MapTyped
BY MapTypedInit, MapTypedNext, PTL DEF Spec

(***************************************************************************)
(* The scene stays one of its type through every operation and its         *)
(* inverse: hit points are never negative, a combat always has an order    *)
(* and a current token, whatever runs in between.                          *)
(***************************************************************************)
THEOREM MapTypes == Spec => []TypeOK
<1>1. MapTyped => TypeOK
  BY DEF MapTyped
<1> QED  BY <1>1, AlwaysTyped, PTL

-----------------------------------------------------------------------------
(* What an undo right after the operation does to the scene.               *)
Back(s, p) == InverseOp(s, p)
After(s, p) == Update(s, s, p)
Restores(s, p) ==
  /\ Accepted(After(s, p), Back(s, p))
  /\ SameScene(Update(After(s, p), After(s, p), Back(s, p)), s)

(* The operations the property speaks of.                                  *)
Reversible(s, p) ==
  /\ Precondition(s, p) /\ Matches(s, p) /\ Changes(s, p) /\ Applicable(s, p)
  /\ Back(s, p) # NoPayload
  /\ UniqueIds(s) /\ UniqueIds(After(s, p)) /\ HpInRange(s) /\ ~Lossy(s, p)

(* Kinds nothing stands in the way of. *)
LEMMA AlwaysAccepted ==
  ASSUME NEW t, NEW b,
         b.kind \in {"token.add", "token.remove", "tokens.replace", "tokens.replace-npc",
                     "combat.effect.remove", "add", "remove", "replace", "allow", "disallow",
                     "scene.state", "scene.playerState", "set", "fog.set", "fog.brush"}
  PROVE  Accepted(t, b)
BY DEF Accepted, Valid, Precondition, Matches, Positional, Changes, Conditional, Applicable

LEMMA SameItself == ASSUME NEW s \in Scene PROVE SameScene(s, s)
BY DEF SameScene, Alike

LEMMA SameTokens ==
  ASSUME NEW s \in Scene, NEW x \in Seq(Token), Alike(x, s.tokens)
  PROVE  SameScene([s EXCEPT !.tokens = x], s)
<1> DEFINE u == [s EXCEPT !.tokens = x]
<1>1. u.tokens = x /\ u.lists = s.lists /\ u.combat = s.combat
  BY DEF Scene
<1>2. Plain(u) = Plain(s)
  BY DEF Plain, Scene
<1> HIDE DEF u
<1>3. SameScene(u, s)
  BY <1>1, <1>2 DEF SameScene, Alike
<1> QED  BY <1>3 DEF u

(* A token is written in its place.                                        *)
LEMMA TokenPut ==
  ASSUME NEW s \in Scene, NEW id, On(s, id), NEW t \in Scene,
         t.tokens \in Seq(Token), Len(t.tokens) = Len(s.tokens),
         \A k \in 1..Len(s.tokens) : t.tokens[k].id = s.tokens[k].id
  PROVE  On(t, id) /\ Find(t.tokens, id) = Find(s.tokens, id)
<1>1. Find(s.tokens, id) = Find(t.tokens, id)
  BY FindSame
<1> QED  BY <1>1 DEF On

LEMMA PutBack ==
  ASSUME NEW T, NEW a \in Seq(T), NEW i \in 1..Len(a), NEW v
  PROVE  LET b == [a EXCEPT ![i] = v] IN b[i] = v /\ [b EXCEPT ![i] = a[i]] = a
<1> DEFINE b == [a EXCEPT ![i] = v]
           c == [b EXCEPT ![i] = a[i]]
<1>1. a = [k \in 1..Len(a) |-> a[k]]
  OBVIOUS
<1>2. b = [k \in 1..Len(a) |-> IF k = i THEN v ELSE a[k]]
  BY <1>1
<1>3. c = [k \in 1..Len(a) |-> a[k]]
  BY <1>2
<1> QED  BY <1>1, <1>2, <1>3

-----------------------------------------------------------------------------
LEMMA ListOfTokensBack ==
  ASSUME NEW s \in Scene, NEW p \in Payload, Reversible(s, p),
         p.kind \in {"token.add", "token.remove", "tokens.clear", "tokens.replace",
                     "tokens.replace-npc"}
  PROVE  Restores(s, p)
<1> DEFINE t == After(s, p)
           b == Back(s, p)
           u == Update(t, t, b)
<1>s. s.tokens \in Seq(Token) /\ s.combat \in Combat \cup {NoCombat}
  BY DEF Scene
<1>d. Distinct(s.tokens) /\ Distinct(t.tokens)
  BY DEF Reversible, UniqueIds
<1>g. t = UpdateTokens(s, s, p) /\ b = InverseOfToken(s, p)
  BY Groups DEF TokenKinds, After, Back
<1>1. CASE p.kind = "token.add"
  <2>1. b = [kind |-> "token.remove", id |-> p.token.id] /\ p.token \in Token
    <3>1. p \in [kind: {"token.add"}, token: Token]
      BY <1>1, TokenPayloads
    <3> HIDE DEF b, t
    <3> QED  BY <1>1, <1>g, <3>1 DEF InverseOfToken
  <2>2. t = [s EXCEPT !.tokens = Append(s.tokens, p.token)]
    <3> HIDE DEF b, t
    <3> QED  BY <1>1, <1>g DEF UpdateTokens, Scene
  <2>3. t.tokens = Append(s.tokens, p.token)
    <3> HIDE DEF t, b
    <3> QED  BY <2>2 DEF Scene
  <2>4. u = [t EXCEPT !.tokens = Without(t.tokens, p.token.id)]
    <3> HIDE DEF t, b
    <3>1. b.kind = "token.remove" /\ b.id = p.token.id
      BY <2>1
    <3>2. u = UpdateTokens(t, t, b)
      BY <3>1, Groups DEF TokenKinds
    <3> QED  BY <3>1, <3>2 DEF UpdateTokens
  <2> HIDE DEF t, b
  <2>5. Without(t.tokens, p.token.id) = s.tokens
    BY <1>s, <1>d, <2>1, <2>3, WithoutLast
  <2>6. u = s
    <3> HIDE DEF u
    <3> QED  BY <2>2, <2>4, <2>5 DEF Scene
  <2> HIDE DEF u
  <2>7. Accepted(t, b)
    BY <2>1, AlwaysAccepted
  <2>8. SameScene(u, s)
    BY <2>6, SameItself
  <2> QED  BY <2>7, <2>8 DEF Restores, t, b, u
<1>2. CASE p.kind = "token.remove"
  <2> DEFINE i == Find(s.tokens, p.id)
             x == Append(Without(s.tokens, p.id), s.tokens[i])
  <2>1. On(s, p.id) /\ b = [kind |-> "token.add", token |-> s.tokens[i]]
    <3>1. b # NoPayload
      BY DEF Reversible
    <3> HIDE DEF b, t
    <3> QED  BY <1>2, <1>g, <3>1 DEF InverseOfToken, TokenOf
  <2>2. t = [s EXCEPT !.tokens = Without(s.tokens, p.id)]
    <3> HIDE DEF b, t
    <3> QED  BY <1>2, <1>g DEF UpdateTokens, Scene
  <2>3. t.tokens = Without(s.tokens, p.id)
    <3> HIDE DEF b, t
    <3> QED  BY <2>2 DEF Scene
  <2>4. u = [t EXCEPT !.tokens = Append(t.tokens, s.tokens[i])]
    <3> HIDE DEF t, b, i
    <3>1. b.kind = "token.add" /\ b.token = s.tokens[i]
      BY <2>1
    <3>2. u = UpdateTokens(t, t, b)
      BY <3>1, Groups DEF TokenKinds
    <3> QED  BY <3>1, <3>2 DEF UpdateTokens
  <2> HIDE DEF t, b
  <2>5. x \in Seq(Token) /\ Alike(x, s.tokens)
    <3>1. i # 0
      BY <2>1, <1>s, FindFacts DEF On
    <3> QED  BY <1>s, <1>d, <3>1, BackAtTheEnd
  <2>6. u = [s EXCEPT !.tokens = x]
    <3> HIDE DEF i, u
    <3> QED  BY <2>2, <2>3, <2>4 DEF Scene
  <2> HIDE DEF u, i, x
  <2>7. Accepted(t, b)
    BY <2>1, AlwaysAccepted
  <2>8. SameScene(u, s)
    BY <2>5, <2>6, SameTokens
  <2> QED  BY <2>7, <2>8 DEF Restores, t, b, u
<1>3. CASE p.kind \in {"tokens.clear", "tokens.replace"}
  <2>1. b = [kind |-> "tokens.replace", tokens |-> s.tokens, combat |-> s.combat]
    <3> HIDE DEF b, t
    <3> QED  BY <1>3, <1>g DEF InverseOfToken, ReplaceBack
  <2>2. \E x, c : t = [s EXCEPT !.tokens = x, !.combat = c]
    <3> HIDE DEF b, t
    <3> QED  BY <1>3, <1>g DEF UpdateTokens, Scene
  <2>3. PICK x, c : t = [s EXCEPT !.tokens = x, !.combat = c]
    BY <2>2
  <2>4. u = [t EXCEPT !.tokens = s.tokens, !.combat = s.combat]
    <3> HIDE DEF t, b
    <3>1. b.kind = "tokens.replace" /\ b.tokens = s.tokens /\ b.combat = s.combat
      BY <2>1
    <3>2. u = UpdateTokens(t, t, b)
      BY <3>1, Groups DEF TokenKinds
    <3> QED  BY <3>1, <3>2 DEF UpdateTokens
  <2> HIDE DEF t, b
  <2>5. u = s
    <3> HIDE DEF u
    <3> QED  BY <2>3, <2>4 DEF Scene
  <2> HIDE DEF u
  <2>6. Accepted(t, b)
    BY <2>1, AlwaysAccepted
  <2>7. SameScene(u, s)
    BY <2>5, SameItself
  <2> QED  BY <2>6, <2>7 DEF Restores, t, b, u
<1>4. CASE p.kind = "tokens.replace-npc"
  <2> DEFINE c == Pcs(s.tokens) \o Npcs(p.tokens)
             x == Pcs(c) \o Npcs(Npcs(s.tokens))
  <2>0. p \in [kind: {"tokens.replace-npc"}, tokens: Seq(Token)]
    BY <1>4, TokenPayloads
  <2>1. b = [kind |-> "tokens.replace-npc", tokens |-> Npcs(s.tokens)]
    <3> HIDE DEF b, t
    <3> QED  BY <1>4, <1>g, <2>0 DEF InverseOfToken
  <2>2. t = [s EXCEPT !.tokens = c]
    <3> HIDE DEF b, t
    <3> QED  BY <1>4, <1>g DEF UpdateTokens
  <2>3. t.tokens = c
    <3> HIDE DEF b, t, c
    <3> QED  BY <2>2 DEF Scene
  <2>4. u = [t EXCEPT !.tokens = x]
    <3> HIDE DEF t, b, c
    <3>1. b.kind = "tokens.replace-npc" /\ b.tokens = Npcs(s.tokens)
      BY <2>1
    <3>2. u = UpdateTokens(t, t, b)
      BY <3>1, Groups DEF TokenKinds
    <3> QED  BY <2>3, <3>1, <3>2 DEF UpdateTokens
  <2>5. x \in Seq(Token) /\ Alike(x, s.tokens)
    <3> HIDE DEF t, b
    <3>1. IsInjective(s.tokens)
      BY <1>d, DistinctInjective
    <3> QED  BY <1>s, <2>0, <3>1, ReplacedBack
  <2> HIDE DEF t, b, x, c
  <2>6. u = [s EXCEPT !.tokens = x]
    <3> HIDE DEF u
    <3> QED  BY <2>2, <2>4 DEF Scene
  <2> HIDE DEF u
  <2>7. Accepted(t, b)
    BY <2>1, AlwaysAccepted
  <2>8. SameScene(u, s)
    BY <2>5, <2>6, SameTokens
  <2> QED  BY <2>7, <2>8 DEF Restores, t, b, u
<1> QED  BY <1>1, <1>2, <1>3, <1>4

(* A token that is written: moved, hit or given hit points.                *)
LEMMA OneTokenBack ==
  ASSUME NEW s \in Scene, NEW p \in Payload, Reversible(s, p),
         p.kind \in {"token.move", "token.hp", "token.delta"}
  PROVE  Restores(s, p)
<1> DEFINE t == After(s, p)
           b == Back(s, p)
           u == Update(t, t, b)
           i == Find(s.tokens, p.id)
           n == Len(s.tokens)
<1>s. s.tokens \in Seq(Token) /\ n \in Nat /\ DOMAIN s.tokens = 1..n
  BY DEF Scene
<1>d. Distinct(s.tokens)
  BY DEF Reversible, UniqueIds
<1>o. On(s, p.id) /\ i \in 1..n /\ s.tokens[i] \in Token /\ s.tokens[i].id = p.id
      /\ TokenOf(s, p.id) = s.tokens[i]
  <2>1. On(s, p.id)
    BY DEF Reversible, Matches, Positional
  <2> QED  BY <1>s, <2>1, FoundTyped DEF TokenOf
<1>t. t \in Scene
  BY TokenTypes DEF Reversible, After, TokenKinds
<1>g. t = UpdateTokens(s, s, p) /\ b = InverseOfToken(s, p)
  BY Groups DEF TokenKinds, After, Back
<1>h. s.tokens[i].hp \in 0..MaxHp /\ s.tokens[i].hp \in Int
  <2> HIDE DEF i
  <2>1. s.tokens[i] \in Range(s.tokens) /\ s.tokens[i].hp \in Nat
    BY <1>s, <1>o DEF Range, Token
  <2>2. s.tokens[i].hp <= MaxHp
    BY <2>1 DEF Reversible, HpInRange
  <2> QED  BY <2>1, <2>2, MapAssumption
<1> HIDE DEF t, b, i, n
(* Each leaves the other tokens, and of this token the rest, as it was. *)
<1>1. ASSUME NEW x \in Seq(Token), t = [s EXCEPT !.tokens = x], Len(x) = n,
             \A k \in 1..n : x[k].id = s.tokens[k].id
      PROVE  t.tokens = x /\ On(t, p.id) /\ Find(x, p.id) = i
  <2>1. t.tokens = x
    BY <1>1 DEF Scene
  <2>2. t.tokens \in Seq(Token) /\ Len(t.tokens) = Len(s.tokens)
        /\ \A k \in 1..Len(s.tokens) : t.tokens[k].id = s.tokens[k].id
    BY <1>1, <2>1 DEF n
  <2>3. On(t, p.id) /\ Find(t.tokens, p.id) = Find(s.tokens, p.id)
    BY <1>o, <1>t, <2>2, TokenPut
  <2> QED  BY <2>1, <2>3 DEF i
<1>2. CASE p.kind = "token.move"
  <2>0. p \in [kind: {"token.move"}, id: TokenIds, at: Cells]
    BY <1>2, TokenPayloads
  <2> DEFINE x == [s.tokens EXCEPT ![i].at = p.at]
             y == [x EXCEPT ![i].at = s.tokens[i].at]
  <2>1. b = [kind |-> "token.move", id |-> p.id, at |-> s.tokens[i].at]
    BY <1>2, <1>g, <1>o, <2>0 DEF InverseOfToken
  <2>2. t = [s EXCEPT !.tokens = x]
    BY <1>2, <1>g DEF UpdateTokens, Scene, i
  <2>3. x \in Seq(Token) /\ Len(x) = n /\ \A k \in 1..n : x[k].id = s.tokens[k].id
    <3>1. [s.tokens[i] EXCEPT !.at = p.at] \in Token /\ [s.tokens[i] EXCEPT !.at = p.at].id = s.tokens[i].id
      BY <1>o, <2>0 DEF Token
    <3>2. x \in Seq(Token) /\ Len(x) = n
      BY <1>s, <1>o, <3>1, ExceptSeq DEF n
    <3> QED  BY <1>s, <1>o, <3>1, <3>2
  <2>4. t.tokens = x /\ On(t, p.id) /\ Find(x, p.id) = i
    <3> HIDE DEF x
    <3> QED  BY <1>1, <2>2, <2>3
  <2>5. y = s.tokens
    <3> DEFINE v == [s.tokens[i] EXCEPT !.at = p.at]
    <3>1. [v EXCEPT !.at = s.tokens[i].at] = s.tokens[i]
      BY <1>o DEF Token
    <3>2. x = [s.tokens EXCEPT ![i] = v]
      OBVIOUS
    <3> HIDE DEF v, x
    <3>3. x[i] = v /\ [x EXCEPT ![i] = s.tokens[i]] = s.tokens
      BY <1>s, <1>o, <3>2, PutBack DEF n
    <3>4. y = [x EXCEPT ![i] = [x[i] EXCEPT !.at = s.tokens[i].at]]
      OBVIOUS
    <3> QED  BY <3>1, <3>3, <3>4
  <2>6. u = [t EXCEPT !.tokens = y]
    <3>1. b.kind = "token.move" /\ b.id = p.id /\ b.at = s.tokens[i].at
      BY <2>1
    <3>2. u = UpdateTokens(t, t, b)
      BY <3>1, Groups DEF TokenKinds
    <3>3. u = [t EXCEPT !.tokens = [t.tokens EXCEPT ![Find(t.tokens, p.id)].at = s.tokens[i].at]]
      BY <1>t, <3>1, <3>2 DEF UpdateTokens, Scene
    <3> HIDE DEF x, u
    <3> QED  BY <2>4, <3>3
  <2> HIDE DEF x, y, u
  <2>7. u = s
    BY <2>2, <2>5, <2>6 DEF Scene
  <2>8. Accepted(t, b)
    BY <2>1, <2>4 DEF Accepted, Valid, Precondition, Matches, Positional, Changes, Conditional, Applicable
  <2>9. SameScene(u, s)
    BY <2>7, SameItself
  <2> QED  BY <2>8, <2>9 DEF Restores, t, b, u
<1>3. CASE p.kind \in {"token.hp", "token.delta"}
  <2> DEFINE hp == s.tokens[i].hp
             h == IF p.kind = "token.delta" THEN Clamp(hp + p.delta) ELSE Clamp(p.hp)
             x == [s.tokens EXCEPT ![i].hp = h]
             y == [x EXCEPT ![i].hp = hp]
  <2>0. h \in Nat
    <3>1. p.kind = "token.hp" => p \in [kind: {"token.hp"}, id: TokenIds, hp: Int]
      BY TokenPayloads
    <3>2. p.kind = "token.delta" => p \in [kind: {"token.delta"}, id: TokenIds, delta: Int]
      BY TokenPayloads
    <3>3. p.kind = "token.delta" => hp + p.delta \in Int
      BY <1>h, <3>2
    <3> HIDE DEF hp
    <3> QED  BY <1>3, <3>1, <3>2, <3>3, ClampRange
  <2>1. b = [kind |-> "token.hp", id |-> p.id, hp |-> hp]
    BY <1>3, <1>g, <1>o DEF InverseOfToken
  <2> HIDE DEF hp
  <2>3. x \in Seq(Token) /\ Len(x) = n /\ \A k \in 1..n : x[k].id = s.tokens[k].id
    <3> HIDE DEF h
    <3>1. [s.tokens[i] EXCEPT !.hp = h] \in Token /\ [s.tokens[i] EXCEPT !.hp = h].id = s.tokens[i].id
      BY <1>o, <2>0 DEF Token
    <3>2. x \in Seq(Token) /\ Len(x) = n
      BY <1>s, <1>o, <3>1, ExceptSeq DEF n
    <3> QED  BY <1>s, <1>o, <3>1, <3>2
  <2>2. t = [s EXCEPT !.tokens = x]
    <3>1. CASE p.kind = "token.hp"
      <4>1. t = [s EXCEPT !.tokens = WithHp(s.tokens, s, p)]
        BY <1>g, <3>1 DEF UpdateTokens, Scene
      <4>2. WithHp(s.tokens, s, p) = x
        BY <1>o, <3>1 DEF WithHp, i
      <4> HIDE DEF x
      <4> QED  BY <4>1, <4>2
    <3>2. CASE p.kind = "token.delta"
      <4>1. t = [s EXCEPT !.tokens = Hit(s.tokens, s, p)]
        BY <1>g, <3>2 DEF UpdateTokens, Scene
      <4>2. \A k \in 1..n : (s.tokens[k].id = p.id) = (k = i)
        BY <1>s, <1>d, <1>o DEF Distinct
      <4>3. Hit(s.tokens, s, p) = [k \in 1..n |-> IF k = i
                THEN [s.tokens[k] EXCEPT !.hp = Clamp(s.tokens[k].hp + p.delta)] ELSE s.tokens[k]]
        BY <1>s, <4>2 DEF Hit
      <4>4. x = [k \in 1..n |-> IF k = i THEN [s.tokens[k] EXCEPT !.hp = h] ELSE s.tokens[k]]
        BY <1>s, <1>o
      <4>5. h = Clamp(s.tokens[i].hp + p.delta)
        BY <3>2 DEF hp
      <4>6. Hit(s.tokens, s, p) = x
        <5> HIDE DEF h, x
        <5> QED  BY <4>3, <4>4, <4>5
      <4> HIDE DEF x
      <4> QED  BY <4>1, <4>6
    <3> QED  BY <1>3, <3>1, <3>2
  <2>4. t.tokens = x /\ On(t, p.id) /\ Find(x, p.id) = i
    <3> HIDE DEF x
    <3> QED  BY <1>1, <2>2, <2>3
  <2>5. y = s.tokens
    <3> HIDE DEF h
    <3> DEFINE v == [s.tokens[i] EXCEPT !.hp = h]
    <3>1. [v EXCEPT !.hp = hp] = s.tokens[i]
      BY <1>o DEF Token, hp
    <3>2. x = [s.tokens EXCEPT ![i] = v]
      OBVIOUS
    <3> HIDE DEF v, x
    <3>3. x[i] = v /\ [x EXCEPT ![i] = s.tokens[i]] = s.tokens
      BY <1>s, <1>o, <3>2, PutBack DEF n
    <3>4. y = [x EXCEPT ![i] = [x[i] EXCEPT !.hp = hp]]
      OBVIOUS
    <3> QED  BY <3>1, <3>3, <3>4
  <2>6. u = [t EXCEPT !.tokens = y]
    <3>1. b.kind = "token.hp" /\ b.id = p.id /\ b.hp = hp
      BY <2>1
    <3>2. u = UpdateTokens(t, t, b)
      BY <3>1, Groups DEF TokenKinds
    <3>3. Clamp(hp) = hp
      BY <1>h, ClampRange DEF hp
    <3>4. WithHp(t.tokens, t, b) = y
      <4> HIDE DEF x
      <4> QED  BY <2>4, <3>1, <3>3 DEF WithHp
    <3> HIDE DEF y, u
    <3> QED  BY <1>t, <3>1, <3>2, <3>4 DEF UpdateTokens, Scene
  <2> HIDE DEF x, y, u
  <2>7. u = s
    BY <2>2, <2>5, <2>6 DEF Scene
  <2>8. Accepted(t, b)
    BY <2>1, <2>4 DEF Accepted, Valid, Precondition, Matches, Positional, Changes, Conditional, Applicable
  <2>9. SameScene(u, s)
    BY <2>7, SameItself
  <2> QED  BY <2>8, <2>9 DEF Restores, t, b, u
<1> QED  BY <1>2, <1>3

-----------------------------------------------------------------------------
LEMMA SameEffects ==
  ASSUME NEW s \in Scene, NEW c \in Combat, s.combat \in Combat,
         Alike(c.effects, s.combat.effects),
         [c EXCEPT !.effects = <<>>] = [s.combat EXCEPT !.effects = <<>>]
  PROVE  SameScene([s EXCEPT !.combat = c], s)
<1> DEFINE u == [s EXCEPT !.combat = c]
<1>1. u.tokens = s.tokens /\ u.lists = s.lists /\ u.combat = c
  BY DEF Scene
<1>2. c # NoCombat /\ s.combat # NoCombat
  BY MapAssumption
<1>3. Plain(u) = Plain(s)
  BY <1>1, <1>2 DEF Plain, Scene
<1> HIDE DEF u
<1>4. SameScene(u, s)
  BY <1>1, <1>3 DEF SameScene, Alike
<1> QED  BY <1>4 DEF u

LEMMA CombatBack ==
  ASSUME NEW s \in Scene, NEW p \in Payload, Reversible(s, p), p.kind \in CombatKinds
  PROVE  Restores(s, p)
<1> DEFINE t == After(s, p)
           b == Back(s, p)
           u == Update(t, t, b)
           c == s.combat
<1>s. c \in Combat \cup {NoCombat} /\ NoCombat \notin Combat
  BY MapAssumption DEF Scene
<1>c. c # NoCombat => c \in [round: Nat, current: TokenIds, order: Order,
                             effects: Seq(EndOfTurnEffect)]
  BY <1>s DEF Combat
<1>d. /\ c # NoCombat => Distinct(c.effects)
      /\ t.combat # NoCombat => Distinct(t.combat.effects)
  BY DEF Reversible, UniqueIds
<1>r. Precondition(s, p) /\ Applicable(s, p) /\ b # NoPayload /\ ~Lossy(s, p)
  BY DEF Reversible
<1>t. t \in Scene
  BY CombatTypes DEF Reversible, After
<1>g. t = UpdateCombat(s, s, p) /\ b = InverseOfCombat(s, p)
  BY Groups DEF After, Back
<1> HIDE DEF t, b
<1>w. ASSUME NEW x, t = [s EXCEPT !.combat = x], u = [t EXCEPT !.combat = c]
      PROVE  SameScene(u, s)
  <2>1. u = s
    <3> HIDE DEF u
    <3> QED  BY <1>w DEF Scene, c
  <2> QED  BY <2>1, SameItself
<1>2. CASE p.kind = "combat.start"
  <2>1. p \in [kind: {"combat.start"}, order: Order]
    BY <1>2, CombatPayloads
  <2>2. b = [kind |-> "combat.end"] /\ c = NoCombat
    BY <1>2, <1>g, <1>r DEF InverseOfCombat, Precondition
  <2>3. t = [s EXCEPT !.combat = NewCombat(p.order)]
    BY <1>2, <1>g DEF UpdateCombat
  <2>4. t.combat # NoCombat
    <3>1. t.combat = NewCombat(p.order)
      BY <2>3 DEF Scene
    <3>2. p.order \in Seq(TokenIds) /\ Len(p.order) # 0
      BY <2>1 DEF Order
    <3>3. p.order \in Order /\ p.order[1] \in TokenIds
      BY <2>1, <3>2
    <3>4. <<>> \in Seq(EndOfTurnEffect)
      OBVIOUS
    <3>5. NewCombat(p.order) \in Combat
      BY <3>3, <3>4 DEF NewCombat, Combat
    <3> QED  BY <1>s, <3>1, <3>5
  <2>5. u = [t EXCEPT !.combat = c]
    <3>1. u = UpdateCombat(t, t, b)
      BY <2>2, Groups DEF CombatKinds
    <3> QED  BY <2>2, <3>1 DEF UpdateCombat
  <2>6. Accepted(t, b)
    BY <2>2, <2>4 DEF Accepted, Valid, Precondition, Matches, Positional, Changes, Conditional, Applicable
  <2>7. SameScene(u, s)
    <3> HIDE DEF u
    <3> QED  BY <1>w, <2>3, <2>5
  <2> QED  BY <2>6, <2>7 DEF Restores, t, b
<1>3. CASE p.kind = "combat.turn"
  <2>1. p \in [kind: {"combat.turn"}, id: TokenIds, round: Nat]
    BY <1>3, CombatPayloads
  <2>2. c # NoCombat /\ p.round \in {0, c.round} /\ On(s, c.current)
    BY <1>3, <1>r DEF Precondition, Lossy
  <2> DEFINE x == [c EXCEPT !.current = p.id]
  <2>3. x \in Combat /\ x.round = c.round
    BY <1>c, <2>1, <2>2 DEF Combat
  <2>4. b = [kind |-> "combat.turn", id |-> c.current, round |-> 0]
    BY <1>3, <1>g, <2>1, <2>2 DEF InverseOfCombat
  <2>5. t = [s EXCEPT !.combat = x]
    <3>1. t = [s EXCEPT !.combat = [[c EXCEPT !.current = p.id] EXCEPT
                   !.round = IF p.round = 0 THEN c.round ELSE p.round]]
      BY <1>3, <1>g DEF UpdateCombat, Scene
    <3>2. [[c EXCEPT !.current = p.id] EXCEPT !.round = IF p.round = 0 THEN c.round ELSE p.round] = x
      BY <1>c, <2>2
    <3> QED  BY <3>1, <3>2
  <2>6. t.combat = x /\ t.tokens = s.tokens
    <3> HIDE DEF x
    <3> QED  BY <2>5 DEF Scene
  <2>7. u = [t EXCEPT !.combat = c]
    <3>1. u = UpdateCombat(t, t, b)
      BY <2>4, Groups DEF CombatKinds
    <3>2. u = [t EXCEPT !.combat = [[x EXCEPT !.current = c.current] EXCEPT !.round = x.round]]
      <4> HIDE DEF x
      <4> QED  BY <1>t, <2>4, <2>6, <3>1 DEF UpdateCombat, Scene
    <3>3. [[x EXCEPT !.current = c.current] EXCEPT !.round = x.round] = c
      BY <1>c, <2>2
    <3> HIDE DEF x
    <3> QED  BY <3>2, <3>3
  <2>8. Accepted(t, b)
    <3>1. t.combat # NoCombat /\ On(t, c.current)
      BY <1>s, <2>2, <2>3, <2>6 DEF On
    <3> QED  BY <2>4, <3>1 DEF Accepted, Valid, Precondition, Matches, Positional, Changes, Conditional, Applicable
  <2>9. SameScene(u, s)
    <3> HIDE DEF u, x
    <3> QED  BY <1>w, <2>5, <2>7
  <2> QED  BY <2>8, <2>9 DEF Restores, t, b
<1>4. CASE p.kind = "combat.end"
  BY <1>4, <1>r DEF Lossy
<1>5. CASE p.kind = "combat.reorder"
  <2>1. p \in [kind: {"combat.reorder"}, order: Order]
    BY <1>5, CombatPayloads
  <2>2. c # NoCombat /\ Len(p.order) = Len(c.order) /\ Range(p.order) = Range(c.order)
    BY <1>5, <1>r DEF Precondition, Lossy
  <2> DEFINE x == [c EXCEPT !.order = p.order]
  <2>3. x \in Combat /\ x.order = p.order
    BY <1>c, <2>1, <2>2 DEF Combat
  <2>4. b = [kind |-> "combat.reorder", order |-> c.order]
    BY <1>5, <1>g, <2>1, <2>2 DEF InverseOfCombat
  <2>5. t = [s EXCEPT !.combat = x]
    BY <1>5, <1>g DEF UpdateCombat, Scene
  <2>6. t.combat = x
    <3> HIDE DEF x
    <3> QED  BY <2>5 DEF Scene
  <2>7. u = [t EXCEPT !.combat = c]
    <3>1. u = UpdateCombat(t, t, b)
      BY <2>4, Groups DEF CombatKinds
    <3>2. u = [t EXCEPT !.combat = [x EXCEPT !.order = c.order]]
      <4> HIDE DEF x
      <4> QED  BY <1>t, <2>4, <2>6, <3>1 DEF UpdateCombat, Scene
    <3>3. [x EXCEPT !.order = c.order] = c
      BY <1>c, <2>2
    <3> HIDE DEF x
    <3> QED  BY <3>2, <3>3
  <2>8. Accepted(t, b)
    <3>1. t.combat # NoCombat /\ t.combat.order = p.order
      BY <1>s, <2>2, <2>3, <2>6
    <3> QED  BY <2>2, <2>4, <3>1 DEF Accepted, Valid, Precondition, Matches, Positional, Changes, Conditional, Applicable
  <2>9. SameScene(u, s)
    <3> HIDE DEF u, x
    <3> QED  BY <1>w, <2>5, <2>7
  <2> QED  BY <2>8, <2>9 DEF Restores, t, b
<1>6. CASE p.kind = "combat.effect.add"
  <2>1. p \in [kind: {"combat.effect.add"}, given: BOOLEAN, effect: EndOfTurnEffect]
    BY <1>6, CombatPayloads
  <2>2. c # NoCombat
    BY <1>6, <1>r DEF Applicable
  <2> DEFINE x == [c EXCEPT !.effects = Append(c.effects, p.effect)]
  <2>3. x \in Combat /\ x.effects = Append(c.effects, p.effect)
    <3>1. Append(c.effects, p.effect) \in Seq(EndOfTurnEffect)
      BY <1>c, <2>1, <2>2
    <3> QED  BY <1>c, <2>1, <2>2, <3>1 DEF Combat
  <2>4. b = [kind |-> "combat.effect.remove", id |-> p.effect.id]
    BY <1>6, <1>g, <1>r DEF InverseOfCombat
  <2>5. t = [s EXCEPT !.combat = x]
    BY <1>6, <1>g DEF UpdateCombat, Scene
  <2>6. t.combat = x /\ x # NoCombat
    <3> HIDE DEF x
    <3> QED  BY <1>s, <2>3, <2>5 DEF Scene
  <2>7. Without(x.effects, p.effect.id) = c.effects
    <3>1. c.effects \in Seq(EndOfTurnEffect) /\ p.effect \in EndOfTurnEffect
      BY <1>c, <2>1, <2>2
    <3>2. Distinct(Append(c.effects, p.effect))
      <4> HIDE DEF x
      <4> QED  BY <1>d, <2>3, <2>6
    <3>3. Without(Append(c.effects, p.effect), p.effect.id) = c.effects
      BY <3>1, <3>2, WithoutLast
    <3> HIDE DEF x
    <3> QED  BY <2>3, <3>3
  <2>8. u = [t EXCEPT !.combat = c]
    <3>1. u = UpdateCombat(t, t, b)
      BY <2>4, Groups DEF CombatKinds
    <3>2. u = [t EXCEPT !.combat = [x EXCEPT !.effects = Without(x.effects, p.effect.id)]]
      <4> HIDE DEF x
      <4> QED  BY <1>t, <2>4, <2>6, <3>1 DEF UpdateCombat, Scene
    <3>3. [x EXCEPT !.effects = c.effects] = c
      BY <1>c, <2>2
    <3> HIDE DEF x
    <3> QED  BY <2>7, <3>2, <3>3
  <2>9. Accepted(t, b)
    BY <2>4, AlwaysAccepted
  <2>10. SameScene(u, s)
    <3> HIDE DEF u, x
    <3> QED  BY <1>w, <2>5, <2>8
  <2> QED  BY <2>9, <2>10 DEF Restores, t, b
<1>7. CASE p.kind = "combat.effect.remove"
  <2>1. p \in [kind: {"combat.effect.remove"}, id: Names]
    BY <1>7, CombatPayloads
  <2> DEFINE i == Find(c.effects, p.id)
             e == c.effects[i]
             w == Without(c.effects, p.id)
             x == [c EXCEPT !.effects = w]
             y == [c EXCEPT !.effects = Append(w, e)]
  <2>2. c # NoCombat /\ i # 0
    BY <1>7, <1>g, <1>r DEF InverseOfCombat
  <2>e. c.effects \in Seq(EndOfTurnEffect)
    BY <1>c, <2>2
  <2>f. i \in DOMAIN c.effects /\ e.id = p.id /\ e \in Range(c.effects)
    <3>1. i \in DOMAIN c.effects /\ e.id = p.id
      BY <2>e, <2>2, FindFacts
    <3> HIDE DEF i
    <3> QED  BY <3>1 DEF Range
  <2>n. e.named
    <3> HIDE DEF e
    <3> QED  BY <1>7, <1>r, <2>f DEF Lossy
  <2>3. Alike(Append(w, e), c.effects) /\ Append(w, e) \in Seq(EndOfTurnEffect)
        /\ e \in EndOfTurnEffect /\ w \in Seq(EndOfTurnEffect)
    BY <1>d, <2>e, <2>2, BackAtTheEnd, WithoutFacts
  <2>4. b = [kind |-> "combat.effect.add", given |-> e.named, effect |-> e]
    BY <1>7, <1>g, <2>2 DEF InverseOfCombat
  <2> HIDE DEF i, e, w
  <2>5. x \in Combat /\ x.effects = w
    BY <1>c, <2>2, <2>3 DEF Combat
  <2>6. t = [s EXCEPT !.combat = x]
    BY <1>7, <1>g, <2>2 DEF UpdateCombat, Scene, w
  <2>7. t.combat = x /\ x # NoCombat
    <3> HIDE DEF x
    <3> QED  BY <1>s, <2>5, <2>6 DEF Scene
  <2>8. u = [t EXCEPT !.combat = y]
    <3>1. u = UpdateCombat(t, t, b)
      BY <2>4, Groups DEF CombatKinds
    <3>2. u = [t EXCEPT !.combat = [x EXCEPT !.effects = Append(x.effects, e)]]
      <4> HIDE DEF x
      <4> QED  BY <1>t, <2>4, <2>7, <3>1 DEF UpdateCombat, Scene
    <3>3. [x EXCEPT !.effects = Append(w, e)] = y
      BY <1>c, <2>2
    <3> HIDE DEF x, y
    <3> QED  BY <2>5, <3>2, <3>3
  <2>9. Accepted(t, b)
    <3> HIDE DEF x
    <3> QED  BY <2>4, <2>n, <2>7 DEF Accepted, Valid, Precondition, Matches, Positional, Changes, Conditional, Applicable
  <2>10. SameScene(u, s)
    <3>1. y \in Combat /\ y.effects = Append(w, e) /\ [y EXCEPT !.effects = <<>>] = [c EXCEPT !.effects = <<>>]
      BY <1>c, <2>2, <2>3 DEF Combat
    <3> HIDE DEF u, x, y
    <3>2. u = [s EXCEPT !.combat = y]
      BY <2>6, <2>8 DEF Scene
    <3>3. SameScene([s EXCEPT !.combat = y], s)
      BY <1>s, <2>2, <2>3, <3>1, SameEffects DEF c
    <3> QED  BY <3>2, <3>3
  <2> QED  BY <2>9, <2>10 DEF Restores, t, b
<1> QED  BY <1>2, <1>3, <1>4, <1>5, <1>6, <1>7 DEF CombatKinds

-----------------------------------------------------------------------------
LEMMA SameLists ==
  ASSUME NEW s \in Scene, NEW l \in Lists, NEW x \in Seq(Element), Alike(x, s.lists[l])
  PROVE  SameScene([s EXCEPT !.lists[l] = x], s)
<1> DEFINE u == [s EXCEPT !.lists[l] = x]
<1>1. u.tokens = s.tokens /\ u.combat = s.combat
      /\ \A k \in Lists : u.lists[k] = IF k = l THEN x ELSE s.lists[k]
  BY DEF Scene
<1>2. Plain(u) = Plain(s)
  BY DEF Plain, Scene
<1> HIDE DEF u
<1>3. SameScene(u, s)
  BY <1>1, <1>2 DEF SameScene, Alike
<1> QED  BY <1>3 DEF u

(* Tokens that were not made from a template stay when it goes.            *)
LEMMA NothingDropped ==
  ASSUME NEW a \in Seq(Token), NEW S, Range(a) \subseteq S
  PROVE  Kept(a, S) = a
<1>1. <<>> \in Seq(Token) /\ Range(<<>>) = {} /\ a \o <<>> = a
  BY DEF Range
<1>2. Kept(a \o <<>>, S) = a
  BY <1>1, KeptFirst
<1> QED  BY <1>1, <1>2

LEMMA InstancesStay ==
  ASSUME NEW s \in Scene, NEW p,
         p.list = "npcTemplates" => MadeFrom(s, p.id) = {}
  PROVE  WithoutInstances(s.tokens, p) = s.tokens
<1>1. CASE p.list = "npcTemplates"
  <2> DEFINE S == {t \in Range(s.tokens) : t.template # p.id}
  <2>1. Range(s.tokens) \subseteq S
    BY <1>1 DEF MadeFrom
  <2>2. s.tokens \in Seq(Token)
    BY DEF Scene
  <2> HIDE DEF S
  <2>3. Kept(s.tokens, S) = s.tokens
    BY <2>1, <2>2, NothingDropped
  <2> QED  BY <1>1, <2>3 DEF WithoutInstances, S
<1>2. CASE p.list # "npcTemplates"
  BY <1>2 DEF WithoutInstances
<1> QED  BY <1>1, <1>2

-----------------------------------------------------------------------------
LEMMA ListBack ==
  ASSUME NEW s \in Scene, NEW p \in Payload, Reversible(s, p), p.kind \in ListKinds
  PROVE  Restores(s, p)
<1> DEFINE t == After(s, p)
           b == Back(s, p)
           u == Update(t, t, b)
           l == p.list
           a == s.lists[l]
<1>l. l \in Lists /\ Edited \subseteq Lists
  BY ListPayloads DEF ListKinds, Lists
<1>s. s.lists \in [Lists -> Seq(Element)] /\ s.tokens \in Seq(Token) /\ a \in Seq(Element)
  BY <1>l DEF Scene
<1>r. /\ b # NoPayload /\ ~Lossy(s, p) /\ Matches(s, p)
      /\ Distinct(a) /\ Distinct(t.lists[l])
  BY <1>l DEF Reversible, UniqueIds
<1>t. t \in Scene
  BY ListTypes DEF Reversible, After
<1>g. t = UpdateList(s, p) /\ b = InverseOfList(s, p)
  BY Groups DEF After, Back
<1> HIDE DEF t, b
<1>w. ASSUME NEW x, t = [s EXCEPT !.lists = [s.lists EXCEPT ![l] = x]]
      PROVE  t.lists[l] = x /\ t.tokens = s.tokens
  BY <1>w, <1>l DEF Scene
<1>v. ASSUME NEW x, NEW y, t = [s EXCEPT !.lists = [s.lists EXCEPT ![l] = x]],
             u = [t EXCEPT !.lists = [t.lists EXCEPT ![l] = y]]
      PROVE  u = [s EXCEPT !.lists[l] = y]
  <2> HIDE DEF u, l
  <2>1. t.lists = [s.lists EXCEPT ![l] = x]
    BY <1>v DEF Scene
  <2>2. [[s.lists EXCEPT ![l] = x] EXCEPT ![l] = y] = [s.lists EXCEPT ![l] = y]
    BY <1>s
  <2> QED  BY <1>v, <2>1, <2>2 DEF Scene
<1>x. ASSUME u = [s EXCEPT !.lists[l] = a]
      PROVE  SameScene(u, s)
  <2>1. [s.lists EXCEPT ![l] = a] = s.lists
    BY <1>s, <1>l
  <2>2. u = s
    <3> HIDE DEF u, l, a
    <3> QED  BY <1>x, <2>1 DEF Scene
  <2> QED  BY <2>2, SameItself
<1>2. CASE p.kind = "add"
  <2>1. p \in [kind: {"add"}, list: Edited, element: Element]
    BY <1>2, ListPayloads
  <2>2. b = [kind |-> "remove", list |-> l, id |-> p.element.id]
    BY <1>2, <1>g DEF InverseOfList
  <2>3. t = [s EXCEPT !.lists = [s.lists EXCEPT ![l] = Append(a, p.element)]]
    BY <1>2, <1>l, <1>g DEF UpdateList, Scene
  <2>4. t.lists[l] = Append(a, p.element) /\ t.tokens = s.tokens
    <3> HIDE DEF l, a
    <3> QED  BY <1>w, <2>3
  <2>5. Without(t.lists[l], p.element.id) = a
    <3>1. Distinct(Append(a, p.element))
      BY <1>r, <2>4
    <3>2. Without(Append(a, p.element), p.element.id) = a
      <4> HIDE DEF a
      <4> QED  BY <1>s, <2>1, <3>1, WithoutLast
    <3> QED  BY <2>4, <3>2
  <2>6. WithoutInstances(t.tokens, b) = t.tokens
    <3>1. l = "npcTemplates" => MadeFrom(s, p.element.id) = {}
      BY <1>2, <1>r DEF Lossy
    <3>2. b.list = "npcTemplates" => MadeFrom(t, b.id) = {}
      BY <2>2, <2>4, <3>1 DEF MadeFrom
    <3> QED  BY <1>t, <3>2, InstancesStay
  <2>7. u = [t EXCEPT !.lists = [t.lists EXCEPT ![l] = a]]
    <3>1. b.kind = "remove" /\ b.list = l /\ b.id = p.element.id
      BY <2>2
    <3>2. u = UpdateList(t, b)
      BY <3>1, Groups DEF ListKinds
    <3>3. u = [t EXCEPT !.lists = [t.lists EXCEPT ![l] = Without(t.lists[l], p.element.id)],
                        !.tokens = WithoutInstances(t.tokens, b)]
      <4> HIDE DEF u, l
      <4> QED  BY <1>t, <1>l, <3>1, <3>2 DEF UpdateList, Scene
    <3>4. u = [t EXCEPT !.lists = [t.lists EXCEPT ![l] = a], !.tokens = t.tokens]
      BY <2>5, <2>6, <3>3
    <3> HIDE DEF u, l, a
    <3> QED  BY <1>t, <3>4 DEF Scene
  <2>8. Accepted(t, b)
    BY <2>2, AlwaysAccepted
  <2>9. SameScene(u, s)
    <3> HIDE DEF u, l, a
    <3> QED  BY <1>v, <1>x, <2>3, <2>7
  <2> QED  BY <2>8, <2>9 DEF Restores, t, b
<1>3. CASE p.kind = "update"
  <2>1. p \in [kind: {"update"}, list: Edited \ {"drawings"}, id: Names, value: Values]
    BY <1>3, ListPayloads
  <2> DEFINE i == Find(a, p.id)
             v == [a[i] EXCEPT !.value = p.value]
             x == [a EXCEPT ![i] = v]
  <2>2. In(s, l, p.id) /\ b = [kind |-> "update", list |-> l, id |-> p.id, value |-> a[i].value]
    <3>1. In(s, l, p.id)
      BY <1>3, <1>r DEF Matches, Positional
    <3> QED  BY <1>3, <1>g, <2>1, <3>1 DEF InverseOfList, ElementOf
  <2>3. i \in 1..Len(a) /\ a[i] \in Element /\ DOMAIN a = 1..Len(a)
    BY <1>s, <1>l, <2>2, FoundTyped DEF ElementOf
  <2>4. t = [s EXCEPT !.lists = [s.lists EXCEPT ![l] = x]]
    BY <1>3, <1>g, <1>l DEF UpdateList, Scene
  <2>5. v \in Element /\ v.id = a[i].id /\ [v EXCEPT !.value = a[i].value] = a[i]
    BY <2>1, <2>3 DEF Element
  <2>6. t.lists[l] = x
    <3> HIDE DEF l, x, i
    <3> QED  BY <1>w, <2>4
  <2> HIDE DEF l, i, v
  <2>7. x[i] = v /\ [x EXCEPT ![i] = a[i]] = a
    <3> HIDE DEF a
    <3> QED  BY <1>s, <2>3, PutBack
  <2>8. x \in Seq(Element) /\ Len(x) = Len(a) /\ \A k \in 1..Len(a) : a[k].id = x[k].id
    <3> HIDE DEF a
    <3>1. x \in Seq(Element) /\ Len(x) = Len(a)
      BY <1>s, <2>3, <2>5, ExceptSeq
    <3> QED  BY <1>s, <2>3, <2>5, <3>1
  <2> HIDE DEF x
  <2>9. Find(x, p.id) = i
    <3> HIDE DEF a
    <3>1. Find(a, p.id) = Find(x, p.id)
      BY <2>8, FindSame
    <3> QED  BY <3>1 DEF i
  <2>10. In(t, l, p.id)
    BY <2>2, <2>6, <2>9 DEF In, i
  <2>11. u = [t EXCEPT !.lists = [t.lists EXCEPT ![l] = a]]
    <3>1. b.kind = "update" /\ b.list = l /\ b.id = p.id /\ b.value = a[i].value
      BY <2>2
    <3>2. u = UpdateList(t, b)
      BY <3>1, Groups DEF ListKinds
    <3>3. u = [t EXCEPT !.lists = [t.lists EXCEPT ![l] =
                 [t.lists[l] EXCEPT ![Find(t.lists[l], p.id)] =
                    [t.lists[l][Find(t.lists[l], p.id)] EXCEPT !.value = a[i].value]]]]
      <4> HIDE DEF u, a
      <4> QED  BY <1>t, <1>l, <3>1, <3>2 DEF UpdateList, Scene
    <3>4. u = [t EXCEPT !.lists = [t.lists EXCEPT ![l] = [x EXCEPT ![i] = [x[i] EXCEPT !.value = a[i].value]]]]
      BY <2>6, <2>9, <3>3
    <3> QED  BY <2>5, <2>7, <3>4
  <2>12. Accepted(t, b)
    BY <2>2, <2>10 DEF Accepted, Valid, Precondition, Matches, Positional, Changes, Conditional, Applicable
  <2>13. SameScene(u, s)
    <3> HIDE DEF u, a
    <3> QED  BY <1>v, <1>x, <2>4, <2>11
  <2> QED  BY <2>12, <2>13 DEF Restores, t, b
<1>4. CASE p.kind = "remove"
  <2>1. p \in [kind: {"remove"}, list: Edited, id: Names]
    BY <1>4, ListPayloads
  <2> DEFINE i == Find(a, p.id)
             e == a[i]
             w == Without(a, p.id)
  <2>2. In(s, l, p.id) /\ b = [kind |-> "add", list |-> l, element |-> e]
    BY <1>4, <1>g, <1>r DEF InverseOfList, ElementOf
  <2>3. i # 0
    BY <1>s, <2>2, FindFacts DEF In
  <2>4. /\ Append(w, e) \in Seq(Element) /\ Alike(Append(w, e), a)
    BY <1>s, <1>r, <2>3, BackAtTheEnd
  <2>5. WithoutInstances(s.tokens, p) = s.tokens
    <3>1. l = "npcTemplates" => MadeFrom(s, p.id) = {}
      BY <1>4, <1>r DEF Lossy
    <3> QED  BY <3>1, InstancesStay
  <2>6. t = [s EXCEPT !.lists = [s.lists EXCEPT ![l] = w]]
    <3>1. t = [s EXCEPT !.lists = [s.lists EXCEPT ![l] = w],
                        !.tokens = WithoutInstances(s.tokens, p)]
      BY <1>4, <1>g, <1>l DEF UpdateList, Scene
    <3> HIDE DEF w, l
    <3> QED  BY <2>5, <3>1 DEF Scene
  <2> HIDE DEF i, e, w
  <2>7. t.lists[l] = w
    <3> HIDE DEF l
    <3> QED  BY <1>w, <2>6
  <2>8. u = [t EXCEPT !.lists = [t.lists EXCEPT ![l] = Append(w, e)]]
    <3>1. b.kind = "add" /\ b.list = l /\ b.element = e
      BY <2>2
    <3>2. u = UpdateList(t, b)
      BY <3>1, Groups DEF ListKinds
    <3>3. u = [t EXCEPT !.lists = [t.lists EXCEPT ![l] = Append(t.lists[l], e)]]
      <4> HIDE DEF u, l
      <4> QED  BY <1>t, <1>l, <3>1, <3>2 DEF UpdateList, Scene
    <3> QED  BY <2>7, <3>3
  <2>9. Accepted(t, b)
    BY <2>2, AlwaysAccepted
  <2>10. SameScene(u, s)
    <3>1. u = [s EXCEPT !.lists[l] = Append(w, e)]
      <4> HIDE DEF u, l
      <4> QED  BY <1>v, <2>6, <2>8
    <3>2. SameScene([s EXCEPT !.lists[l] = Append(w, e)], s)
      BY <1>l, <2>4, SameLists
    <3> QED  BY <3>1, <3>2
  <2> QED  BY <2>9, <2>10 DEF Restores, t, b
<1>5. CASE p.kind = "replace"
  <2>1. p \in [kind: {"replace"}, list: Lists, elements: Seq(Element)]
    BY <1>5, ListPayloads
  <2>2. b = [kind |-> "replace", list |-> l, elements |-> a]
    BY <1>5, <1>g, <2>1 DEF InverseOfList
  <2>3. t = [s EXCEPT !.lists = [s.lists EXCEPT ![l] = p.elements]]
    BY <1>5, <1>g DEF UpdateList, Scene
  <2>4. u = [t EXCEPT !.lists = [t.lists EXCEPT ![l] = a]]
    <3>1. b.kind = "replace" /\ b.list = l /\ b.elements = a
      BY <2>2
    <3>2. u = UpdateList(t, b)
      BY <3>1, Groups DEF ListKinds
    <3> HIDE DEF u, l, a
    <3> QED  BY <1>t, <3>1, <3>2 DEF UpdateList, Scene
  <2>5. Accepted(t, b)
    BY <2>2, AlwaysAccepted
  <2>6. SameScene(u, s)
    <3> HIDE DEF u, l, a
    <3> QED  BY <1>v, <1>x, <2>3, <2>4
  <2> QED  BY <2>5, <2>6 DEF Restores, t, b
<1> QED  BY <1>2, <1>3, <1>4, <1>5 DEF ListKinds

-----------------------------------------------------------------------------
LEMMA FieldBack ==
  ASSUME NEW s \in Scene, NEW p \in Payload, Reversible(s, p),
         p.kind \in {"scene.state", "scene.playerState", "set", "fog.set", "fog.brush",
                     "scene.activate", "scene.deactivate", "dice.roll"}
  PROVE  Restores(s, p)
<1> DEFINE t == After(s, p)
           b == Back(s, p)
           u == Update(t, t, b)
<1>r. b # NoPayload /\ ~Lossy(s, p) /\ Changes(s, p)
  BY DEF Reversible
<1>g. t = UpdateField(s, s, p) /\ b = InverseOfField(s, p)
  BY Groups DEF After, Back
<1>u. b.kind = p.kind \/ b.kind \in {"scene.activate", "scene.deactivate"} => u = UpdateField(t, t, b)
  BY Groups
<1>w. ASSUME u = s, Accepted(t, b)  PROVE Restores(s, p)
  BY <1>w, SameItself DEF Restores
<1> HIDE DEF t, b
<1>1. CASE p.kind = "scene.state"
  <2>1. p \in [kind: {"scene.state"}, locked: BOOLEAN]
    BY <1>1, FieldPayloads
  <2>2. b = [kind |-> "scene.state", locked |-> s.locked] /\ t = [s EXCEPT !.locked = p.locked]
    BY <1>1, <1>g, <2>1 DEF InverseOfField, UpdateField
  <2>3. u = [t EXCEPT !.locked = s.locked]
    BY <1>1, <1>u, <2>2 DEF UpdateField
  <2>4. Accepted(t, b)
    BY <2>2, AlwaysAccepted
  <2> HIDE DEF u
  <2>5. u = s
    BY <2>2, <2>3 DEF Scene
  <2> QED  BY <1>w, <2>4, <2>5
<1>2. CASE p.kind = "scene.playerState"
  <2>1. p \in [kind: {"scene.playerState"}, user: Users, value: Override]
    BY <1>2, FieldPayloads
  <2> DEFINE x == [s.overrides EXCEPT ![p.user] = p.value]
  <2>2. /\ b = [kind |-> "scene.playerState", user |-> p.user, value |-> s.overrides[p.user]]
        /\ t = [s EXCEPT !.overrides = x]
    BY <1>2, <1>g, <2>1 DEF InverseOfField, UpdateField
  <2>3. t.overrides = x
    <3> HIDE DEF x
    <3> QED  BY <2>2 DEF Scene
  <2>4. u = [t EXCEPT !.overrides = [x EXCEPT ![p.user] = s.overrides[p.user]]]
    <3> HIDE DEF x
    <3> QED  BY <1>2, <1>u, <2>2, <2>3 DEF UpdateField
  <2>5. [x EXCEPT ![p.user] = s.overrides[p.user]] = s.overrides
    BY <2>1 DEF Scene
  <2>6. Accepted(t, b)
    BY <2>2, AlwaysAccepted
  <2> HIDE DEF u, x
  <2>7. u = s
    BY <2>2, <2>4, <2>5 DEF Scene
  <2> QED  BY <1>w, <2>6, <2>7
<1>3. CASE p.kind = "set"
  <2>1. p \in [kind: {"set"}, field: Fields, value: Values]
    BY <1>3, FieldPayloads
  <2> DEFINE x == [s.fields EXCEPT ![p.field] = p.value]
  <2>2. /\ b = [kind |-> "set", field |-> p.field, value |-> s.fields[p.field]]
        /\ t = [s EXCEPT !.fields = x]
    BY <1>3, <1>g, <1>r, <2>1 DEF InverseOfField, UpdateField, Scene
  <2>3. t.fields = x /\ t \in [DOMAIN s -> {t[k] : k \in DOMAIN s}] /\ DOMAIN t = DOMAIN s
    <3> HIDE DEF x
    <3> QED  BY <2>2 DEF Scene
  <2>4. u = [t EXCEPT !.fields = [x EXCEPT ![p.field] = s.fields[p.field]]]
    <3>1. u = [t EXCEPT !.fields[p.field] = s.fields[p.field]]
      BY <1>3, <1>u, <2>2 DEF UpdateField
    <3> HIDE DEF x, u
    <3> QED  BY <2>2, <2>3, <3>1 DEF Scene
  <2>5. [x EXCEPT ![p.field] = s.fields[p.field]] = s.fields
    BY <2>1 DEF Scene
  <2>6. Accepted(t, b)
    BY <2>2, AlwaysAccepted
  <2> HIDE DEF u, x
  <2>7. u = s
    BY <2>2, <2>4, <2>5 DEF Scene
  <2> QED  BY <1>w, <2>6, <2>7
<1>4. CASE p.kind = "fog.set"
  <2>1. p \in [kind: {"fog.set"}, fog: [enabled: BOOLEAN, revealed: SUBSET Cells]]
    BY <1>4, FieldPayloads
  <2>2. b = [kind |-> "fog.set", fog |-> s.fog] /\ t = [s EXCEPT !.fog = p.fog]
    BY <1>4, <1>g, <2>1 DEF InverseOfField, UpdateField
  <2>3. u = [t EXCEPT !.fog = s.fog]
    BY <1>4, <1>u, <2>2 DEF UpdateField
  <2>4. Accepted(t, b)
    BY <2>2, AlwaysAccepted
  <2> HIDE DEF u
  <2>5. u = s
    BY <2>2, <2>3 DEF Scene
  <2> QED  BY <1>w, <2>4, <2>5
<1>5. CASE p.kind = "fog.brush"
  <2>1. p \in [kind: {"fog.brush"}, reveal: BOOLEAN, hexes: SUBSET Cells]
    BY <1>5, FieldPayloads
  <2> DEFINE x == [s.fog EXCEPT !.revealed = Brushed(s.fog.revealed, p)]
             y == [x EXCEPT !.revealed = Brushed(x.revealed, b)]
  <2>2. /\ b = [kind |-> "fog.brush", reveal |-> ~p.reveal, hexes |-> p.hexes]
        /\ t = [s EXCEPT !.fog = x]
    BY <1>5, <1>g, <2>1 DEF InverseOfField, UpdateField, Scene
  <2>3. t.fog = x
    <3> HIDE DEF x
    <3> QED  BY <2>2 DEF Scene
  <2>4. u = [t EXCEPT !.fog = y]
    <3>1. u = [t EXCEPT !.fog.revealed = Brushed(t.fog.revealed, b)]
      BY <1>5, <1>u, <2>2 DEF UpdateField
    <3> HIDE DEF x, u
    <3> QED  BY <2>2, <2>3, <3>1 DEF Scene
  <2>5. y = s.fog
    <3>1. \A h \in p.hexes : (h \in s.fog.revealed) # p.reveal
      BY <1>5, <1>r DEF Lossy
    <3>2. Brushed(Brushed(s.fog.revealed, p), b) = s.fog.revealed
      <4> DEFINE R == s.fog.revealed
                 H == p.hexes
      <4>1. b.reveal = ~p.reveal /\ b.hexes = H /\ p.reveal \in BOOLEAN
        BY <2>1, <2>2
      <4>2. CASE p.reveal
        <5>1. Brushed(Brushed(R, p), b) = (R \cup H) \ H
          BY <4>1, <4>2 DEF Brushed
        <5>2. \A h \in H : h \notin R
          BY <3>1, <4>2
        <5> HIDE DEF R, H
        <5>3. (R \cup H) \ H = R
          BY <5>2
        <5> QED  BY <5>1, <5>3 DEF R
      <4>3. CASE ~p.reveal
        <5>1. Brushed(Brushed(R, p), b) = (R \ H) \cup H
          BY <4>1, <4>3 DEF Brushed
        <5>2. \A h \in H : h \in R
          BY <3>1, <4>1, <4>3
        <5> HIDE DEF R, H
        <5>3. (R \ H) \cup H = R
          BY <5>2
        <5> QED  BY <5>1, <5>3 DEF R
      <4> QED  BY <4>2, <4>3
    <3>3. s.fog \in [enabled: BOOLEAN, revealed: SUBSET Cells]
      BY DEF Scene
    <3>4. x.revealed = Brushed(s.fog.revealed, p)
      BY <3>3
    <3>5. y = [x EXCEPT !.revealed = s.fog.revealed]
      BY <3>2, <3>4
    <3> QED  BY <3>3, <3>5
  <2>6. Accepted(t, b)
    BY <2>2, AlwaysAccepted
  <2> HIDE DEF u, x, y
  <2>7. u = s
    BY <2>2, <2>4, <2>5 DEF Scene
  <2> QED  BY <1>w, <2>6, <2>7
<1>6. CASE p.kind \in {"scene.activate", "scene.deactivate"}
  <2>1. s.active \in BOOLEAN /\ s.active # (p.kind = "scene.activate")
    BY <1>6, <1>r DEF Changes, Conditional, Scene
  <2>2. /\ b.kind \in {"scene.activate", "scene.deactivate"}
        /\ (b.kind = "scene.activate") = s.active
    BY <1>6, <1>g, <2>1 DEF InverseOfField
  <2>3. t = [s EXCEPT !.active = ~s.active]
    BY <1>6, <1>g, <2>1 DEF UpdateField
  <2>4. t.active = ~s.active
    BY <2>3 DEF Scene
  <2>5. u = [t EXCEPT !.active = s.active]
    BY <1>u, <2>2 DEF UpdateField
  <2>6. Accepted(t, b)
    BY <2>1, <2>2, <2>4 DEF Accepted, Valid, Precondition, Matches, Positional, Changes, Conditional, Applicable
  <2> HIDE DEF u
  <2>7. u = s
    BY <2>3, <2>5 DEF Scene
  <2> QED  BY <1>w, <2>6, <2>7
<1>7. CASE p.kind = "dice.roll"
  BY <1>7, <1>g, <1>r DEF InverseOfField
<1> QED  BY <1>1, <1>2, <1>3, <1>4, <1>5, <1>6, <1>7

LEMMA WhitelistBack ==
  ASSUME NEW s \in Scene, NEW p \in Payload, Reversible(s, p), p.kind \in {"allow", "disallow"}
  PROVE  Restores(s, p)
<1> DEFINE t == After(s, p)
           b == Back(s, p)
           u == Update(t, t, b)
           w == s.allowed[p.list]
           x == IF p.kind = "allow" THEN w \cup {p.id} ELSE w \ {p.id}
<1>1. p \in [kind: {"allow", "disallow"}, list: Whitelists, id: Names]
  BY FieldPayloads
<1>2. t = UpdateWhitelist(s, p) /\ b = InverseOfWhitelist(s, p) /\ b # NoPayload
  BY Groups DEF After, Back, Reversible
<1> HIDE DEF t, b
<1>3. /\ (p.kind = "allow") = (p.id \notin w)
      /\ b = [kind |-> IF p.kind = "allow" THEN "disallow" ELSE "allow", list |-> p.list, id |-> p.id]
  BY <1>1, <1>2 DEF InverseOfWhitelist
<1>4. s.allowed \in [Whitelists -> SUBSET Names]
  BY DEF Scene
<1>5. t = [s EXCEPT !.allowed = [s.allowed EXCEPT ![p.list] = x]]
  BY <1>2 DEF UpdateWhitelist, Scene
<1>6. t.allowed = [s.allowed EXCEPT ![p.list] = x] /\ t.allowed[p.list] = x
  <2> HIDE DEF x
  <2> QED  BY <1>1, <1>4, <1>5 DEF Scene
<1>7. u = UpdateWhitelist(t, b)
  BY <1>3, Groups
<1>8. (IF b.kind = "allow" THEN x \cup {p.id} ELSE x \ {p.id}) = w
  BY <1>1, <1>3
<1>9. u = [t EXCEPT !.allowed = [t.allowed EXCEPT ![p.list] = w]]
  <2>1. u = [t EXCEPT !.allowed[p.list] = IF b.kind = "allow" THEN @ \cup {p.id} ELSE @ \ {p.id}]
    BY <1>3, <1>7 DEF UpdateWhitelist
  <2> HIDE DEF x, u, w
  <2> QED  BY <1>5, <1>6, <1>8, <2>1 DEF Scene
<1> HIDE DEF x, u
<1>10. [t.allowed EXCEPT ![p.list] = w] = s.allowed
  BY <1>1, <1>4, <1>6
<1>11. u = s
  BY <1>5, <1>9, <1>10 DEF Scene
<1>12. Accepted(t, b)
  BY <1>3, AlwaysAccepted
<1> QED  BY <1>11, <1>12, SameItself DEF Restores, t, b, u

(***************************************************************************)
(* Of every operation: on the scene it has left, its inverse is accepted   *)
(* and gives back the scene it found.                                      *)
(***************************************************************************)
LEMMA OperationReversed ==
  ASSUME NEW s \in Scene, NEW p \in Payload, Reversible(s, p)
  PROVE  Restores(s, p)
<1>1. CASE p.kind \in TokenKinds
  BY <1>1, ListOfTokensBack, OneTokenBack DEF TokenKinds
<1>2. CASE p.kind \in CombatKinds
  BY <1>2, CombatBack
<1>3. CASE p.kind \in ListKinds
  BY <1>3, ListBack
<1>4. CASE p.kind \notin TokenKinds \cup CombatKinds \cup ListKinds
  BY <1>4, PayloadNames, FieldBack, WhitelistBack
<1> QED  BY <1>1, <1>2, <1>3, <1>4

LEMMA WriterIsKnown ==
  ASSUME MapTyped, NEW r \in Requests, [Next]_vars, Writes(r)
  PROVE  Write(r)
<1>1. writes \in Seq(Requests)
  BY DEF MapTyped, TypeOK
<1>2. writes' # writes
  <2>1. Len(writes') = Len(writes) + 1
    BY <1>1 DEF Writes
  <2> QED  BY <1>1, <2>1
<1>3. PICK q \in Requests : Step(q)
  BY <1>2 DEF Next, vars
<1>4. Write(q)
  BY <1>2, <1>3 DEF Step, LoadRefused, Load, WriteMissed, WriteNoop, WriteFailed, WriteNothing,
     AllocateGone, Allocate, AppendRecord, Emit, UndoRefused, UndoFind, MarkTarget, MarkOwn,
     MarkNoop, DeleteScene, Fail, Crash
<1>5. Append(writes, q) = Append(writes, r)
  BY <1>4 DEF Write, Writes
<1>6. q = r
  <2>1. Append(writes, q)[Len(writes) + 1] = q /\ Append(writes, r)[Len(writes) + 1] = r
    BY <1>1
  <2> QED  BY <1>5, <2>1
<1> QED  BY <1>4, <1>6

LEMMA WriteRestores ==
  ASSUME MapTyped, NEW r \in Requests, [Next]_vars, Writes(r), req[r].snap = scene,
         req[r].inverse # NoPayload, UniqueIds(scene), UniqueIds(scene'), HpInRange(scene),
         ~Lossy(scene, req[r].payload)
  PROVE  /\ Accepted(scene', req[r].inverse)
         /\ SameScene(Update(scene', scene', req[r].inverse), scene)
<1> DEFINE p == req[r].payload
<1>1. Write(r)
  BY WriterIsKnown
<1>2. /\ scene' = Update(scene, scene, p)
      /\ Matches(scene, p) /\ Changes(scene, p) /\ Applicable(scene, p)
  BY <1>1 DEF Write
<1>3. scene \in Scene /\ p \in Payload /\ Precondition(scene, p) /\ req[r].inverse = InverseOp(scene, p)
  BY <1>1 DEF Write, MapTyped, TypeOK, Decided
<1> HIDE DEF p
<1>4. Reversible(scene, p)
  BY <1>2, <1>3 DEF Reversible, Back, After, p
<1>5. Restores(scene, p)
  BY <1>3, <1>4, OperationReversed
<1> QED  BY <1>2, <1>3, <1>5 DEF Restores, Back, After

(***************************************************************************)
(* Undo, for any scene and every operation: the inverse that apply stores, *)
(* applied right after the operation, is accepted and gives the scene      *)
(* back, except where it is known to fall short.                           *)
(***************************************************************************)
THEOREM UndoRestores == Spec => InverseRestores
<1>1. MapTyped /\ [Next]_vars =>
        [\A r \in Requests :
           LET p == req[r].payload  back == req[r].inverse IN
           /\ Writes(r) /\ req[r].snap = scene /\ back # NoPayload
           /\ UniqueIds(scene) /\ UniqueIds(scene') /\ HpInRange(scene)
           /\ ~Lossy(scene, p)
           => /\ Accepted(scene', back)
              /\ SameScene(Update(scene', scene', back), scene)]_vars
  BY WriteRestores
<1> QED  BY <1>1, AlwaysTyped, PTL DEF Spec, InverseRestores

-----------------------------------------------------------------------------
(***************************************************************************)
(* Sums over a finite set, in whichever order its elements are chosen.     *)
(***************************************************************************)
One(s) == CHOOSE x \in s : TRUE

Sums(d, T, f) ==
  f = [s \in SUBSET T |-> IF s = {} THEN 0 ELSE d[One(s)] + f[s \ {One(s)}]]

(* Of the subsets with at most k elements. *)
Small(T, k) == {s \in SUBSET T : Cardinality(s) <= k}
SmallSums(d, T, f, k) ==
  f = [s \in Small(T, k) |-> IF s = {} THEN 0 ELSE d[One(s)] + f[s \ {One(s)}]]

LEMMA OneLess ==
  ASSUME NEW T, IsFiniteSet(T), NEW s \in SUBSET T, s # {}
  PROVE  /\ One(s) \in s /\ s \ {One(s)} \in SUBSET T
         /\ Cardinality(s) \in Nat /\ Cardinality(s) # 0
         /\ \A e \in s : Cardinality(s \ {e}) = Cardinality(s) - 1
<1>1. One(s) \in s
  BY DEF One
<1>2. IsFiniteSet(s)
  BY FS_Subset
<1>3. Cardinality(s) \in Nat /\ Cardinality(s) # 0
  BY <1>2, FS_CardinalityType, FS_EmptySet
<1>4. ASSUME NEW e \in s  PROVE Cardinality(s \ {e}) = Cardinality(s) - 1
  BY <1>2, FS_RemoveElement
<1> QED  BY <1>1, <1>3, <1>4

LEMMA Sizes ==
  ASSUME NEW T, IsFiniteSet(T)
  PROVE  Cardinality(T) \in Nat /\ \A s \in SUBSET T : Cardinality(s) \in 0..Cardinality(T)
<1>1. Cardinality(T) \in Nat
  BY FS_CardinalityType
<1>2. ASSUME NEW s \in SUBSET T  PROVE Cardinality(s) \in 0..Cardinality(T)
  <2>1. IsFiniteSet(s) /\ Cardinality(s) <= Cardinality(T)
    BY FS_Subset
  <2> QED  BY <1>1, <2>1, FS_CardinalityType
<1> QED  BY <1>1, <1>2

LEMMA SumExists ==
  ASSUME NEW T, IsFiniteSet(T), NEW d
  PROVE  \E f : Sums(d, T, f)
<1> DEFINE N == Cardinality(T)
           G == {k \in 0..N : \E f : SmallSums(d, T, f, k)}
<1>0. N \in Nat /\ \A s \in SUBSET T : Cardinality(s) \in 0..N
  BY Sizes
<1>1. 0 \in G
  <2>1. \A s \in Small(T, 0) : s = {}
    <3> SUFFICES ASSUME NEW s \in SUBSET T, Cardinality(s) <= 0, s # {}  PROVE FALSE
      BY DEF Small
    <3> QED  BY <1>0, OneLess
  <2>2. SmallSums(d, T, [s \in Small(T, 0) |-> 0], 0)
    BY <2>1 DEF SmallSums
  <2> HIDE DEF N
  <2> QED  BY <1>0, <2>2
<1>2. ASSUME NEW k \in 0..N, k # N, k \in G  PROVE k + 1 \in G
  <2>1. PICK f : SmallSums(d, T, f, k)
    BY <1>2
  <2> DEFINE g == [s \in Small(T, k + 1) |-> IF s = {} THEN 0 ELSE d[One(s)] + f[s \ {One(s)}]]
  <2>2. \A s \in Small(T, k) : s \in Small(T, k + 1) /\ g[s] = f[s]
    <3> TAKE s \in Small(T, k)
    <3>1. s \in Small(T, k + 1)
      BY <1>0, <1>2 DEF Small
    <3>2. f[s] = IF s = {} THEN 0 ELSE d[One(s)] + f[s \ {One(s)}]
      BY <2>1 DEF SmallSums
    <3> QED  BY <3>1, <3>2
  <2>3. \A s \in Small(T, k + 1) : s # {} => s \ {One(s)} \in Small(T, k)
    <3> SUFFICES ASSUME NEW s \in SUBSET T, Cardinality(s) <= k + 1, s # {}
                 PROVE  s \ {One(s)} \in Small(T, k)
      BY DEF Small
    <3>1. One(s) \in s /\ s \ {One(s)} \in SUBSET T /\ Cardinality(s) \in Nat
          /\ Cardinality(s \ {One(s)}) = Cardinality(s) - 1
      BY OneLess
    <3> QED  BY <1>2, <3>1 DEF Small
  <2>4. g = [s \in Small(T, k + 1) |-> IF s = {} THEN 0 ELSE d[One(s)] + g[s \ {One(s)}]]
    <3>1. \A s \in Small(T, k + 1) : s # {} => g[s \ {One(s)}] = f[s \ {One(s)}]
      BY <2>2, <2>3
    <3> QED  BY <3>1
  <2> HIDE DEF g
  <2>5. SmallSums(d, T, g, k + 1)
    BY <2>4 DEF SmallSums
  <2>6. k + 1 \in 0..N
    <3> HIDE DEF N
    <3> QED  BY <1>0, <1>2
  <2> QED  BY <2>5, <2>6
<1>3. N \in G
  <2> HIDE DEF G, N
  <2>1. \A k \in 0..N : k # N /\ k \in G => k + 1 \in G
    BY <1>2
  <2>2. 0..N \subseteq G
    BY <1>0, <1>1, <2>1, Climb
  <2> QED  BY <1>0, <2>2
<1>4. Small(T, N) = SUBSET T
  BY <1>0 DEF Small
<1> QED  BY <1>3, <1>4 DEF SmallSums, Sums

LEMMA SumOne ==
  ASSUME NEW T, NEW d, NEW f, Sums(d, T, f), NEW s \in SUBSET T
  PROVE  f[s] = IF s = {} THEN 0 ELSE d[One(s)] + f[s \ {One(s)}]
BY DEF Sums

(* Induction over the subsets of a finite set. *)
LEMMA BySize ==
  ASSUME NEW T, IsFiniteSet(T), NEW G, {} \in G,
         \A s \in SUBSET T : s # {} /\ (\A e \in s : s \ {e} \in G) => s \in G
  PROVE  SUBSET T \subseteq G
<1> DEFINE N == Cardinality(T)
           K == {k \in 0..N : \A s \in SUBSET T : Cardinality(s) = k => s \in G}
<1>0. N \in Nat /\ \A s \in SUBSET T : Cardinality(s) \in 0..N
  BY Sizes
<1>1. 0 \in K
  <2>1. ASSUME NEW s \in SUBSET T, Cardinality(s) = 0  PROVE s \in G
    <3>1. s = {}
      BY <2>1, OneLess
    <3> QED  BY <3>1
  <2> HIDE DEF N
  <2> QED  BY <1>0, <2>1
<1>2. ASSUME NEW k \in 0..N, k # N, k \in K  PROVE k + 1 \in K
  <2>1. ASSUME NEW s \in SUBSET T, Cardinality(s) = k + 1  PROVE s \in G
    <3>1. s # {}
      <4>1. k + 1 # 0
        BY <1>2
      <4> QED  BY <2>1, <4>1, FS_EmptySet
    <3>2. ASSUME NEW e \in s  PROVE s \ {e} \in G
      <4>1. Cardinality(s \ {e}) = Cardinality(s) - 1
        BY <3>1, OneLess
      <4>2. Cardinality(s \ {e}) = k /\ s \ {e} \in SUBSET T
        BY <1>2, <2>1, <4>1
      <4> QED  BY <1>2, <4>2
    <3>3. \A e \in s : s \ {e} \in G
      BY <3>2
    <3> HIDE DEF K, N
    <3> QED  BY <3>1, <3>3
  <2>2. k + 1 \in 0..N
    <3> HIDE DEF N
    <3> QED  BY <1>0, <1>2
  <2> HIDE DEF N
  <2> QED  BY <2>1, <2>2
<1>3. N \in 0..N /\ 0..N \subseteq K
  <2> HIDE DEF K, N
  <2>1. \A k \in 0..N : k # N /\ k \in K => k + 1 \in K
    BY <1>2
  <2> QED  BY <1>0, <1>1, <2>1, Climb
<1> HIDE DEF N
<1> QED  BY <1>0, <1>3

LEMMA SumInteger ==
  ASSUME NEW T, IsFiniteSet(T), NEW d, \A x \in T : d[x] \in Int, NEW f, Sums(d, T, f)
  PROVE  \A s \in SUBSET T : f[s] \in Int
<1> DEFINE G == {s \in SUBSET T : f[s] \in Int}
<1>1. {} \in G
  <2>1. {} \in SUBSET T
    OBVIOUS
  <2>2. f[{}] = 0
    BY <2>1, SumOne
  <2> QED  BY <2>1, <2>2
<1>2. ASSUME NEW s \in SUBSET T, s # {}, \A e \in s : s \ {e} \in G  PROVE s \in G
  <2>1. One(s) \in s /\ f[s] = d[One(s)] + f[s \ {One(s)}]
    BY <1>2, OneLess, SumOne
  <2>2. f[s \ {One(s)}] \in Int /\ d[One(s)] \in Int
    BY <1>2, <2>1
  <2> QED  BY <2>1, <2>2
<1>3. SUBSET T \subseteq G
  <2> HIDE DEF G
  <2> QED  BY <1>1, <1>2, BySize
<1> QED  BY <1>3

(* Any element may be taken out first. *)
LEMMA SumAny ==
  ASSUME NEW T, IsFiniteSet(T), NEW d, \A x \in T : d[x] \in Int, NEW f, Sums(d, T, f)
  PROVE  \A s \in SUBSET T : \A e \in s : f[s] = d[e] + f[s \ {e}]
<1> DEFINE G == {s \in SUBSET T : \A e \in s : f[s] = d[e] + f[s \ {e}]}
<1>1. {} \in G
  OBVIOUS
<1>2. ASSUME NEW s \in SUBSET T, s # {}, \A e \in s : s \ {e} \in G  PROVE s \in G
  <2> DEFINE x == One(s)
  <2>1. x \in s /\ f[s] = d[x] + f[s \ {x}]
    BY <1>2, OneLess, SumOne
  <2> HIDE DEF x
  <2>2. ASSUME NEW e \in s, e # x  PROVE f[s] = d[e] + f[s \ {e}]
    <3>1. f[s \ {x}] = d[e] + f[(s \ {x}) \ {e}]
      BY <1>2, <2>1, <2>2
    <3>2. f[s \ {e}] = d[x] + f[(s \ {e}) \ {x}]
      BY <1>2, <2>1, <2>2
    <3>3. (s \ {x}) \ {e} = (s \ {e}) \ {x}
      OBVIOUS
    <3>4. f[(s \ {x}) \ {e}] \in Int /\ d[e] \in Int /\ d[x] \in Int
      BY <2>1, SumInteger
    <3> DEFINE c == f[(s \ {x}) \ {e}]
    <3>5. f[s] = d[x] + (d[e] + c) /\ f[s \ {e}] = d[x] + c
      BY <2>1, <3>1, <3>2, <3>3
    <3>6. d[x] + (d[e] + c) = d[e] + (d[x] + c)
      <4> HIDE DEF c
      <4>1. c \in Int
        BY <3>4 DEF c
      <4> QED  BY <3>4, <4>1
    <3> QED  BY <3>5, <3>6
  <2> QED  BY <2>1, <2>2
<1>3. SUBSET T \subseteq G
  <2> HIDE DEF G
  <2> QED  BY <1>1, <1>2, BySize
<1> QED  BY <1>3

LEMMA SumAgrees ==
  ASSUME NEW T, NEW U, T \subseteq U, IsFiniteSet(U), NEW d, NEW f, Sums(d, T, f), NEW g, Sums(d, U, g)
  PROVE  f[T] = g[T]
<1> DEFINE G == {s \in SUBSET T : f[s] = g[s]}
<1>0. IsFiniteSet(T)
  BY FS_Subset
<1>1. {} \in G
  BY SumOne
<1>2. ASSUME NEW s \in SUBSET T, s # {}, \A e \in s : s \ {e} \in G  PROVE s \in G
  <2>1. One(s) \in s /\ f[s] = d[One(s)] + f[s \ {One(s)}] /\ g[s] = d[One(s)] + g[s \ {One(s)}]
    BY <1>0, <1>2, OneLess, SumOne
  <2> QED  BY <1>2, <2>1
<1>3. SUBSET T \subseteq G
  <2> HIDE DEF G
  <2> QED  BY <1>0, <1>1, <1>2, BySize
<1> QED  BY <1>3

(* One more. *)
LEMMA SumGrows ==
  ASSUME NEW T, IsFiniteSet(T), NEW e, e \notin T, NEW d, \A x \in T \cup {e} : d[x] \in Int,
         NEW f, Sums(d, T, f), NEW g, Sums(d, T \cup {e}, g)
  PROVE  g[T \cup {e}] = d[e] + f[T] /\ f[T] \in Int
<1>1. IsFiniteSet(T \cup {e})
  BY FS_AddElement
<1>2. g[T \cup {e}] = d[e] + g[(T \cup {e}) \ {e}]
  BY <1>1, SumAny
<1>3. (T \cup {e}) \ {e} = T /\ T \subseteq T \cup {e}
  OBVIOUS
<1>4. f[T] = g[T]
  BY <1>1, <1>3, SumAgrees
<1> QED  BY <1>2, <1>3, <1>4, SumInteger

-----------------------------------------------------------------------------
(* What each request takes, as a function that no step changes.            *)
Deltas == [r \in Requests |-> Op(r).payload.delta]
Damage(T) == MapThenSumSet(LAMBDA r : Op(r).payload.delta, T)

LEMMA DamageIsSum ==
  ASSUME NEW T \in SUBSET Requests, IsFiniteSet(T)
  PROVE  \E f : Sums(Deltas, T, f) /\ Damage(T) = f[T]
<1> DEFINE iter == CHOOSE g : g = [s \in SUBSET T |->
             IF s = {} THEN 0 ELSE LET x == CHOOSE x \in s : TRUE
                                   IN Op(x).payload.delta + g[s \ {x}]]
<1>1. PICK f : Sums(Deltas, T, f)
  BY SumExists
<1>2. \A s \in SUBSET T : s # {} => Deltas[One(s)] = Op(One(s)).payload.delta
  <2> TAKE s \in SUBSET T
  <2> HAVE s # {}
  <2>1. One(s) \in Requests
    BY DEF One
  <2> QED  BY <2>1 DEF Deltas
<1>3. f = [s \in SUBSET T |-> IF s = {} THEN 0 ELSE Op(One(s)).payload.delta + f[s \ {One(s)}]]
  BY <1>1, <1>2 DEF Sums
<1>4. f = [s \in SUBSET T |-> IF s = {} THEN 0 ELSE LET x == CHOOSE x \in s : TRUE
                                                    IN Op(x).payload.delta + f[s \ {x}]]
  BY <1>3 DEF One
<1>5. iter = [s \in SUBSET T |-> IF s = {} THEN 0 ELSE LET x == CHOOSE x \in s : TRUE
                                                    IN Op(x).payload.delta + iter[s \ {x}]]
  BY <1>4
<1>6. Damage(T) = iter[T]
  BY DEF Damage, MapThenSumSet, MapThenFoldSet
<1> HIDE DEF iter
<1>7. iter = [s \in SUBSET T |-> IF s = {} THEN 0 ELSE Op(One(s)).payload.delta + iter[s \ {One(s)}]]
  BY <1>5 DEF One
<1>8. Sums(Deltas, T, iter)
  BY <1>2, <1>7 DEF Sums
<1> QED  BY <1>6, <1>8

-----------------------------------------------------------------------------
(* The hit points of the tokens with this id. *)
HpOf(tokens, id) == {t.hp : t \in {u \in Range(tokens) : u.id = id}}

(* A list that differs in one element, of another id before and after.     *)
LEMMA ElementPut ==
  ASSUME NEW T, NEW list \in Seq(T), NEW i \in DOMAIN list, NEW e \in T,
         NEW id, list[i].id # id, e.id # id
  PROVE  HpOf([list EXCEPT ![i] = e], id) = HpOf(list, id)
<1> DEFINE l == [list EXCEPT ![i] = e]
<1>1. DOMAIN l = DOMAIN list /\ l[i] = e /\ \A j \in DOMAIN list : j # i => l[j] = list[j]
  OBVIOUS
<1> HIDE DEF l
<1>2. {u \in Range(l) : u.id = id} = {u \in Range(list) : u.id = id}
  <2>1. ASSUME NEW u \in Range(l), u.id = id  PROVE u \in Range(list)
    BY <1>1, <2>1 DEF Range
  <2>2. ASSUME NEW u \in Range(list), u.id = id  PROVE u \in Range(l)
    BY <1>1, <2>2 DEF Range
  <2> QED  BY <2>1, <2>2
<1> QED  BY <1>2 DEF HpOf, l

(* The hits on the tokens of one id. *)
LEMMA HitShape ==
  ASSUME NEW list \in Seq(Token), NEW s, NEW p
  PROVE  /\ DOMAIN Hit(list, s, p) = DOMAIN list
         /\ \A i \in DOMAIN list :
              /\ list[i].id # p.id => Hit(list, s, p)[i] = list[i]
              /\ list[i].id = p.id => /\ Hit(list, s, p)[i].id = p.id
                                      /\ Hit(list, s, p)[i].hp = Clamp(list[i].hp + p.delta)
<1>1. \A i \in DOMAIN list : list[i] \in Token
  OBVIOUS
<1> QED  BY <1>1 DEF Hit, Token

(* The hit points after a hit. *)
HitTo(hp, p) == Clamp(hp + p.delta)

LEMMA HitOne ==
  ASSUME NEW list \in Seq(Token), NEW s, NEW p, NEW hp, HpOf(list, p.id) = {hp}
  PROVE  HpOf(Hit(list, s, p), p.id) = {HitTo(hp, p)}
<1> DEFINE l == Hit(list, s, p)
<1>1. /\ DOMAIN l = DOMAIN list
      /\ \A i \in DOMAIN list : list[i].id # p.id => l[i] = list[i]
      /\ \A i \in DOMAIN list : list[i].id = p.id => l[i].id = p.id /\ l[i].hp = Clamp(list[i].hp + p.delta)
  BY HitShape
<1> HIDE DEF l
<1>2. ASSUME NEW i \in DOMAIN l, l[i].id = p.id  PROVE l[i].hp = Clamp(hp + p.delta)
  <2>1. list[i] \in Range(list) /\ list[i].id = p.id
    BY <1>1, <1>2 DEF Range
  <2>2. list[i].hp = hp
    BY <2>1 DEF HpOf
  <2> QED  BY <1>1, <2>1, <2>2
<1>3. PICK i \in DOMAIN list : list[i].id = p.id
  BY DEF HpOf, Range
<1>4. l[i] \in Range(l) /\ l[i].id = p.id /\ l[i].hp = Clamp(hp + p.delta)
  BY <1>1, <1>2, <1>3 DEF Range
<1>5. ASSUME NEW u \in Range(l), u.id = p.id  PROVE u.hp = Clamp(hp + p.delta)
  BY <1>2, <1>5 DEF Range
<1> QED  BY <1>4, <1>5 DEF HpOf, HitTo, l

LEMMA HitOther ==
  ASSUME NEW list \in Seq(Token), NEW s, NEW p, NEW id, id # p.id
  PROVE  HpOf(Hit(list, s, p), id) = HpOf(list, id)
<1> DEFINE l == Hit(list, s, p)
<1>1. /\ DOMAIN l = DOMAIN list
      /\ \A i \in DOMAIN list : list[i].id # p.id => l[i] = list[i]
      /\ \A i \in DOMAIN list : list[i].id = p.id => l[i].id = p.id
  BY HitShape
<1> HIDE DEF l
<1>2. ASSUME NEW u \in Range(l), u.id = id  PROVE u \in Range(list)
  BY <1>1, <1>2 DEF Range
<1>3. ASSUME NEW u \in Range(list), u.id = id  PROVE u \in Range(l)
  BY <1>1, <1>3 DEF Range
<1> QED  BY <1>2, <1>3 DEF HpOf, l

(* Only the operations on tokens and the removal of a template touch them. *)
LEMMA TokensStay ==
  ASSUME NEW now \in Scene, NEW s, NEW p \in Payload, p.kind \notin TokenKinds,
         p.kind = "remove" => p.list # "npcTemplates"
  PROVE  Update(now, s, p).tokens = now.tokens
<1> DEFINE C == UpdateCombat(now, s, p)  F == UpdateField(now, s, p)
           L == UpdateList(now, p)       W == UpdateWhitelist(now, p)
<1>0. DOMAIN now = {"tokens", "combat", "locked", "overrides", "lists", "fields", "allowed",
                    "fog", "active", "dice"}
  BY DEF Scene
<1>1. CASE p.kind \in CombatKinds
  <2>1. C.tokens = now.tokens
    BY <1>0, <1>1 DEF UpdateCombat, CombatKinds
  <2> QED  BY <1>1, <2>1, Groups
<1>2. CASE p.kind \in ListKinds
  <2>1. L.tokens = now.tokens
    BY <1>0, <1>2 DEF UpdateList, ListKinds, WithoutInstances
  <2> QED  BY <1>2, <2>1, Groups
<1>3. CASE p.kind \in {"allow", "disallow"}
  <2>1. W.tokens = now.tokens
    BY <1>0 DEF UpdateWhitelist
  <2> QED  BY <1>3, <2>1, Groups
<1>4. CASE p.kind \in {"scene.state", "scene.playerState", "set", "fog.set", "fog.brush",
                        "scene.activate", "scene.deactivate", "dice.roll"}
  <2>1. F.tokens = now.tokens
    BY <1>0, <1>4 DEF UpdateField
  <2> QED  BY <1>4, <2>1, Groups
<1> QED  BY <1>1, <1>2, <1>3, <1>4, PayloadNames

(* What is left of the operations on tokens. *)
LEMMA OthersStay ==
  ASSUME NEW now \in Scene, NEW s \in Scene, NEW p \in Payload, Matches(now, p), NEW id,
         ~SetsHp(Normalized(p, Update(now, s, p)), id)
  PROVE  HpOf(Update(now, s, p).tokens, id) = HpOf(now.tokens, id)
<1> DEFINE U == UpdateTokens(now, s, p)
           t == Update(now, s, p)
           list == now.tokens
           i == Find(list, p.id)
<1>0. list \in Seq(Token)
  BY FoundTyped
<1>i. p.kind \in {"token.move", "token.hp", "token.delta"} =>
        i \in DOMAIN list /\ list[i] \in Token /\ list[i].id = p.id
  BY FoundTyped DEF Matches, Positional, TokenOf
<1>1. CASE p.kind \notin TokenKinds
  <2>1. p.kind = "remove" => p.list # "npcTemplates"
    BY <1>1 DEF Normalized, SetsHp
  <2> QED  BY <1>1, <2>1, TokensStay
<1>2. CASE p.kind = "token.add"
  <2>1. p.token \in Token /\ p.token.id # id
    BY <1>2, TokenPayloads DEF Normalized, SetsHp
  <2>2. U.tokens = Append(list, p.token)
    BY <1>2 DEF UpdateTokens, Scene
  <2>3. Range(U.tokens) = Range(list) \cup {p.token}
    BY <1>0, <2>1, <2>2, RangeAppend
  <2>4. t = U
    BY <1>2, Groups DEF TokenKinds
  <2> HIDE DEF U, t
  <2>5. {u \in Range(U.tokens) : u.id = id} = {u \in Range(list) : u.id = id}
    BY <2>1, <2>3
  <2> QED  BY <2>4, <2>5 DEF HpOf, t
<1>3. CASE p.kind = "token.move"
  <2> DEFINE e == [list[i] EXCEPT !.at = p.at]
  <2>1. p \in [kind: {"token.move"}, id: TokenIds, at: Cells]
    BY <1>3, TokenPayloads
  <2>2. U.tokens = [list EXCEPT ![i] = e]
    BY <1>3 DEF UpdateTokens, Scene
  <2>3. i \in DOMAIN list /\ e \in Token /\ e.id = list[i].id /\ e.hp = list[i].hp
    BY <1>3, <1>i, <2>1 DEF Token
  <2>4. t = U
    BY <1>3, Groups DEF TokenKinds
  <2> HIDE DEF U, t, e, i
  <2>5. /\ DOMAIN U.tokens = DOMAIN list /\ U.tokens[i] = e
        /\ \A j \in DOMAIN list : j # i => U.tokens[j] = list[j]
    BY <2>2, <2>3
  <2>6. \A j \in DOMAIN list : U.tokens[j].id = list[j].id /\ U.tokens[j].hp = list[j].hp
    BY <2>3, <2>5
  <2>7. HpOf(U.tokens, id) = HpOf(list, id)
    <3> DEFINE l == U.tokens
    <3>0. DOMAIN l = DOMAIN list /\ \A j \in DOMAIN list : l[j].id = list[j].id /\ l[j].hp = list[j].hp
      BY <2>5, <2>6
    <3> HIDE DEF l, list
    <3>1. ASSUME NEW hp \in HpOf(l, id)  PROVE hp \in HpOf(list, id)
      <4>1. PICK j \in DOMAIN l : l[j].id = id /\ hp = l[j].hp
        BY DEF HpOf, Range
      <4>2. list[j] \in Range(list) /\ list[j].id = id /\ hp = list[j].hp
        BY <3>0, <4>1 DEF Range
      <4> QED  BY <4>2 DEF HpOf
    <3>2. ASSUME NEW hp \in HpOf(list, id)  PROVE hp \in HpOf(l, id)
      <4>1. PICK j \in DOMAIN list : list[j].id = id /\ hp = list[j].hp
        BY DEF HpOf, Range
      <4>2. l[j] \in Range(l) /\ l[j].id = id /\ hp = l[j].hp
        BY <3>0, <4>1 DEF Range
      <4> QED  BY <4>2 DEF HpOf
    <3> QED  BY <3>1, <3>2 DEF l
  <2> QED  BY <2>4, <2>7 DEF t
<1>4. CASE p.kind = "token.remove"
  <2>1. p.id # id
    BY <1>4 DEF Normalized, SetsHp
  <2>2. U.tokens = Without(list, p.id)
    BY <1>4 DEF UpdateTokens, Scene
  <2>3. Range(U.tokens) = {u \in Range(list) : u.id # p.id}
    BY <1>0, <2>2, WithoutFacts
  <2>4. t = U
    BY <1>4, Groups DEF TokenKinds
  <2> HIDE DEF U, t
  <2>5. {u \in Range(U.tokens) : u.id = id} = {u \in Range(list) : u.id = id}
    BY <2>1, <2>3
  <2> QED  BY <2>4, <2>5 DEF HpOf, t
<1>5. CASE p.kind = "token.hp"
  <2> DEFINE hp == IF On(s, p.id) \/ p.hp < 0 THEN Clamp(p.hp) ELSE p.hp
             e == [list[i] EXCEPT !.hp = hp]
  <2>1. p \in [kind: {"token.hp"}, id: TokenIds, hp: Int] /\ p.id # id
    BY <1>5, TokenPayloads DEF Normalized, SetsHp
  <2>2. U.tokens = [list EXCEPT ![i] = e]
    BY <1>5 DEF UpdateTokens, Scene, WithHp
  <2>3. hp \in Nat
    BY <2>1, ClampRange, MapAssumption
  <2> HIDE DEF hp
  <2>4. i \in DOMAIN list /\ e \in Token /\ e.id = list[i].id /\ list[i].id = p.id
    BY <1>5, <1>i, <2>1, <2>3 DEF Token
  <2>5. t = U
    BY <1>5, Groups DEF TokenKinds
  <2> HIDE DEF U, t, e, i, list
  <2>6. HpOf([list EXCEPT ![i] = e], id) = HpOf(list, id)
    BY <1>0, <2>1, <2>4, ElementPut
  <2> QED  BY <2>2, <2>5, <2>6 DEF t, list
<1>6. CASE p.kind = "token.delta"
  <2>1. p \in [kind: {"token.delta"}, id: TokenIds, delta: Int] /\ p.id # id
    BY <1>6, TokenPayloads DEF Normalized, SetsHp
  <2>2. U.tokens = Hit(list, s, p)
    BY <1>6 DEF UpdateTokens, Scene
  <2>3. t = U
    BY <1>6, Groups DEF TokenKinds
  <2> HIDE DEF U, t
  <2> QED  BY <1>0, <2>1, <2>2, <2>3, HitOther DEF t
<1>7. p.kind \notin {"tokens.clear", "tokens.replace", "tokens.replace-npc"}
  BY DEF Normalized, SetsHp
<1> QED  BY <1>1, <1>2, <1>3, <1>4, <1>5, <1>6, <1>7 DEF TokenKinds

-----------------------------------------------------------------------------
(* The sum of d over T, and what it is when T gets one element more. *)
SumOf(d, T) == (CHOOSE f : Sums(d, T, f))[T]

LEMMA SumIs ==
  ASSUME NEW T, IsFiniteSet(T), NEW d, NEW f, Sums(d, T, f)
  PROVE  SumOf(d, T) = f[T]
<1> DEFINE g == CHOOSE g : Sums(d, T, g)
<1>1. Sums(d, T, g)
  OBVIOUS
<1> HIDE DEF g
<1>2. g[T] = f[T]
  BY <1>1, SumAgrees
<1> QED  BY <1>2 DEF SumOf, g

LEMMA SumNothing ==
  ASSUME NEW d
  PROVE  SumOf(d, {}) = 0
<1>1. IsFiniteSet({})
  BY FS_EmptySet
<1>2. PICK f : Sums(d, {}, f)
  BY <1>1, SumExists
<1>3. f[{}] = 0
  BY <1>2, SumOne
<1> QED  BY <1>1, <1>2, <1>3, SumIs

LEMMA SumMore ==
  ASSUME NEW T, IsFiniteSet(T), NEW e, e \notin T, NEW d, \A x \in T \cup {e} : d[x] \in Int
  PROVE  SumOf(d, T \cup {e}) = d[e] + SumOf(d, T) /\ SumOf(d, T) \in Int
<1>1. IsFiniteSet(T \cup {e})
  BY FS_AddElement
<1>2. PICK f : Sums(d, T, f)
  BY SumExists
<1>3. PICK g : Sums(d, T \cup {e}, g)
  BY <1>1, SumExists
<1>4. SumOf(d, T) = f[T] /\ SumOf(d, T \cup {e}) = g[T \cup {e}]
  BY <1>1, <1>2, <1>3, SumIs
<1> QED  BY <1>2, <1>3, <1>4, SumGrows

LEMMA DamageSum ==
  ASSUME NEW T \in SUBSET Requests, IsFiniteSet(T)
  PROVE  Damage(T) = SumOf(Deltas, T)
BY DamageIsSum, SumIs

-----------------------------------------------------------------------------
(* Nothing that was written has set the hit points of id, and every hit on *)
(* it took some away.                                                      *)
OnlyHits(id) ==
  /\ \A r \in Range(writes) \ Hits(id) : ~SetsHp(req[r].payload, id)
  /\ \A r \in Hits(id) : Op(r).payload.delta <= 0

Left(id) == Clamp(TokenOf(InitialScene, id).hp + SumOf(Deltas, Hits(id)))

Counted(id) ==
  /\ IsFiniteSet(Hits(id)) /\ SumOf(Deltas, Hits(id)) \in Int /\ SumOf(Deltas, Hits(id)) <= 0
  /\ HpOf(scene.tokens, id) = {Left(id)}

InitialIds == {t.id : t \in Range(InitialScene.tokens)}

(* A request that applies its operation writes what it was sent with.      *)
AsPlanned(r) == Op(r).kind = "apply" /\ req[r].pc = "write" => req[r].payload = Op(r).payload

(* The inductive invariant. *)
HitsCounted ==
  /\ \A r \in Requests : AsPlanned(r)
  /\ scene # NoScene => \A id \in InitialIds : OnlyHits(id) => Counted(id)

InitialHp == HpInRange(InitialScene) /\ Distinct(InitialScene.tokens)

LEMMA InitialTokens ==
  ASSUME InitialHp, NEW id \in InitialIds
  PROVE  /\ TokenOf(InitialScene, id).hp \in 0..MaxHp
         /\ HpOf(InitialScene.tokens, id) = {TokenOf(InitialScene, id).hp}
<1> DEFINE list == InitialScene.tokens
           i == Find(list, id)
<1>1. InitialScene \in Scene /\ list \in Seq(Token)
  BY MapAssumption, FoundTyped
<1>2. PICK j \in DOMAIN list : list[j].id = id
  BY DEF InitialIds, Range
<1>3. i \in DOMAIN list /\ list[i].id = id
  BY <1>1, <1>2, FindFacts
<1>4. list[i] \in Token /\ list[i] \in Range(list)
  BY <1>1, <1>3 DEF Range
<1>5. list[i].hp \in 0..MaxHp
  BY <1>4, MapAssumption DEF InitialHp, HpInRange, Token
<1>6. \A k \in DOMAIN list : list[k].id = id => k = i
  BY <1>3 DEF InitialHp, Distinct
<1> HIDE DEF i
<1>7. {u \in Range(list) : u.id = id} = {list[i]}
  BY <1>3, <1>4, <1>6 DEF Range
<1> QED  BY <1>5, <1>7 DEF HpOf, TokenOf, i

LEMMA HitsInit ==
  ASSUME InitialHp, Init
  PROVE  HitsCounted
<1>1. scene = InitialScene /\ writes = <<>> /\ \A r \in Requests : req[r].pc = "start"
  BY DEF Init
<1>2. \A id : Hits(id) = {}
  BY <1>1 DEF Hits, Range
<1>3. ASSUME NEW id \in InitialIds  PROVE Counted(id)
  <2>1. SumOf(Deltas, Hits(id)) = 0 /\ IsFiniteSet(Hits(id))
    BY <1>2, SumNothing, FS_EmptySet
  <2>2. TokenOf(InitialScene, id).hp \in 0..MaxHp
    BY InitialTokens
  <2>3. Left(id) = TokenOf(InitialScene, id).hp
    <3> DEFINE hp == TokenOf(InitialScene, id).hp
    <3>1. hp \in Int /\ hp + 0 = hp /\ Clamp(hp) = hp
      <4> HIDE DEF hp
      <4> QED  BY <2>2, ClampRange, MapAssumption DEF hp
    <3> QED  BY <2>1, <3>1 DEF Left
  <2> QED  BY <1>1, <2>1, <2>3, InitialTokens DEF Counted
<1> QED  BY <1>1, <1>3 DEF HitsCounted, AsPlanned

LEMMA StepOwn ==
  ASSUME LogConsistent, Answered, NEW r \in Requests, Step(r)
  PROVE  Own(r)
BY RefusedSteps, LoadOwn, WriteOwn, LogOwn, MarkOwnKept, DeleteOwn, CrashOwn DEF Step

(* Every step: what the written requests wrote, and what all were sent with. *)
LEMMA WrittenStays ==
  ASSUME LogConsistent, Answered, MapTyped, NEW r \in Requests, Step(r)
  PROVE  /\ Deltas' = Deltas /\ \A q \in Requests : req'[q].op = req[q].op
         /\ \A q \in Range(writes) : q \in Requests /\ req'[q].payload = req[q].payload
         /\ Write(r) => r \notin Range(writes)
<1>1. Onward(r) /\ OnItsWay(r)
  BY StepOwn DEF Own, Answered
<1>2. \A q \in Requests : req'[q].op = req[q].op
  BY <1>1 DEF Onward
<1>3. Deltas' = Deltas
  BY <1>2 DEF Deltas, Op
<1>4. \A q \in Range(writes) : q \in Requests
  BY DEF Answered, Range
<1>5. \A q \in Requests \ {r} : req'[q].payload = req[q].payload
  BY <1>1 DEF Onward
<1>6. req[r] \in Local /\ req \in [Requests -> Local]
  BY DEF MapTyped, TypeOK
<1>7. ASSUME r \in Range(writes)  PROVE req'[r].payload = req[r].payload /\ ~Write(r)
  <2>1. req[r].pc \in Written \cup {"done"}
    BY <1>1, <1>7 DEF OnItsWay
  <2>2. req[r].pc \notin {"start", "load", "write"}
    BY <2>1 DEF Written
  <2>3. ~Load(r) /\ ~Write(r) /\ ~UndoFind(r)
    BY <2>2 DEF Load, Loading, Write, UndoFind
  <2>4. req'[r].payload = req[r].payload
    BY <1>6, <2>3 DEF Step, Finish, Local, LoadRefused, WriteMissed, WriteNoop, WriteFailed, WriteNothing,
       AllocateGone, Allocate, AppendRecord, Emit, UndoRefused, MarkTarget, MarkOwn,
       MarkNoop, DeleteScene, Fail, Crash
  <2> QED  BY <2>3, <2>4
<1> QED  BY <1>2, <1>3, <1>4, <1>5, <1>7

LEMMA StaysPlanned ==
  ASSUME LogConsistent, Answered, MapTyped, HitsCounted, NEW r \in Requests, Step(r)
  PROVE  \A q \in Requests : AsPlanned(q)'
<1>1. Onward(r)
  BY StepOwn DEF Own
<1>2. ASSUME NEW q \in Requests \ {r}  PROVE AsPlanned(q)'
  BY <1>1 DEF Onward, HitsCounted, AsPlanned, Op
<1>6. req[r] \in Local /\ req \in [Requests -> Local]
  BY DEF MapTyped, TypeOK
<1>3. ASSUME Load(r)  PROVE AsPlanned(r)'
  <2>1. req'[r].payload = Wanted(r) /\ req'[r].op = req[r].op
    BY <1>3, <1>6 DEF Load, Local
  <2> QED  BY <2>1 DEF AsPlanned, Wanted, Op
<1>4. ASSUME ~Load(r)  PROVE req'[r].pc # "write"
  <2>1. CASE \E answer : Finish(r, answer)
    BY <1>6, <2>1 DEF Finish, Local
  <2>2. CASE ~\E answer : Finish(r, answer)
    <3>1. \/ WriteNoop(r) \/ WriteNothing(r) \/ Write(r) \/ Allocate(r) \/ AppendRecord(r)
          \/ Emit(r) \/ UndoFind(r) \/ MarkTarget(r)
      BY <1>4, <2>2 DEF Step, LoadRefused, WriteMissed, WriteFailed, AllocateGone, UndoRefused,
         MarkOwn, MarkNoop, DeleteScene, Fail, Crash
    <3>2. CASE WriteNoop(r) \/ WriteNothing(r) \/ Allocate(r) \/ MarkTarget(r)
      BY <1>6, <2>2, <3>2 DEF WriteNoop, WriteNothing, Allocate, MarkTarget, Local
    <3>3. CASE AppendRecord(r) \/ Emit(r)
      BY <1>6, <2>2, <3>3 DEF AppendRecord, Emit, Local
    <3>4. CASE Write(r)
      BY <1>6, <3>4 DEF Write, Local
    <3>5. CASE UndoFind(r)
      BY <1>6, <3>5 DEF UndoFind, Local
    <3> QED  BY <3>1, <3>2, <3>3, <3>4, <3>5
  <2> QED  BY <2>1, <2>2
<1>5. AsPlanned(r)'
  BY <1>3, <1>4 DEF AsPlanned
<1> QED  BY <1>2, <1>5

-----------------------------------------------------------------------------
(* Every step but Write. *)
LEMMA OtherStepsCount ==
  ASSUME LogConsistent, Answered, MapTyped, HitsCounted, NEW r \in Requests, Step(r), ~Write(r)
  PROVE  HitsCounted'
<1>1. writes' = writes /\ scene' \in {scene, NoScene}
  BY DEF Step, LoadRefused, Load, WriteMissed, WriteNoop, WriteFailed, WriteNothing,
     AllocateGone, Allocate, AppendRecord, Emit, UndoRefused, UndoFind, MarkTarget, MarkOwn,
     MarkNoop, DeleteScene, Fail, Crash
<1>2. /\ Deltas' = Deltas /\ \A q \in Requests : req'[q].op = req[q].op
      /\ \A q \in Range(writes) : q \in Requests /\ req'[q].payload = req[q].payload
  BY WrittenStays
<1>3. \A id : Hits(id)' = Hits(id)
  BY <1>1, <1>2 DEF Hits, Op
<1>4. ASSUME scene' # NoScene, NEW id \in InitialIds, OnlyHits(id)'  PROVE Counted(id)'
  <2>1. OnlyHits(id)
    <3>1. \A q \in Range(writes) \ Hits(id) : ~SetsHp(req[q].payload, id)
      BY <1>1, <1>2, <1>3, <1>4 DEF OnlyHits
    <3>2. \A q \in Hits(id) : Op(q).payload.delta <= 0
      BY <1>2, <1>3, <1>4 DEF OnlyHits, Op, Hits
    <3> QED  BY <3>1, <3>2 DEF OnlyHits
  <2>2. Counted(id) /\ scene' = scene
    BY <1>1, <1>4, <2>1 DEF HitsCounted
  <2> QED  BY <1>2, <1>3, <2>2 DEF Counted, Left
<1> QED  BY <1>4, StaysPlanned DEF HitsCounted

(* Clamping after each hit gives what clamping the sum gives. *)
LEMMA ClampTwice ==
  ASSUME NEW hp \in 0..MaxHp, NEW sum \in Int, sum <= 0, NEW delta \in Int, delta <= 0
  PROVE  Clamp(Clamp(hp + sum) + delta) = Clamp(hp + (delta + sum)) /\ delta + sum <= 0
BY MapAssumption DEF Clamp

LEMMA OneMoreHit ==
  ASSUME MapTyped, NEW r \in Requests, Write(r), NEW id \in InitialIds, InitialHp,
         Counted(id), r \notin Hits(id), Hits(id)' = Hits(id) \cup {r}, Deltas' = Deltas,
         Hits(id) \subseteq Requests, \A q \in Hits(id) : Op(q).payload.delta \in Int,
         Op(r).payload = req[r].payload, req[r].payload.kind = "token.delta", req[r].payload.id = id,
         req[r].payload.delta <= 0
  PROVE  Counted(id)'
<1> DEFINE p == req[r].payload
           list == scene.tokens
           H == Hits(id)
           hp == TokenOf(InitialScene, id).hp
           sum == SumOf(Deltas, H)
<1>1. scene \in Scene /\ p \in Payload /\ list \in Seq(Token)
  BY FoundTyped DEF Write, MapTyped, TypeOK, Decided
<1>2. p \in [kind: {"token.delta"}, id: TokenIds, delta: Int]
  BY <1>1, TokenPayloads
<1>3. scene'.tokens = Hit(list, req[r].snap, p)
  <2>1. scene' = UpdateTokens(scene, req[r].snap, p)
    BY Groups DEF Write, TokenKinds
  <2>2. scene' = [scene EXCEPT !.tokens = Hit(list, req[r].snap, p)]
    BY <2>1 DEF UpdateTokens
  <2> QED  BY <1>1, <2>2 DEF Scene
<1>4. HpOf(list, id) = {Clamp(hp + sum)} /\ IsFiniteSet(H) /\ sum \in Int /\ sum <= 0
  BY DEF Counted, Left
<1>5. HpOf(scene'.tokens, id) = {Clamp(Clamp(hp + sum) + p.delta)}
  <2>1. p.id = id
    OBVIOUS
  <2> DEFINE h == Clamp(hp + sum)
  <2>2. HpOf(list, p.id) = {h}
    BY <1>4, <2>1
  <2>3. list \in Seq(Token)
    BY <1>1
  <2> HIDE DEF p, list, h
  <2>4. HpOf(Hit(list, req[r].snap, p), p.id) = {HitTo(h, p)}
    BY <2>2, <2>3, HitOne, ZenonT(40)
  <2> HIDE DEF hp, sum
  <2> QED  BY <1>3, <2>1, <2>4 DEF h, HitTo
<1>6. Deltas[r] = p.delta /\ \A q \in H \cup {r} : Deltas[q] \in Int
  BY <1>2 DEF Deltas, Op
<1>7. SumOf(Deltas, H \cup {r}) = p.delta + sum
  <2>1. r \notin H
    OBVIOUS
  <2> HIDE DEF H, p
  <2>2. SumOf(Deltas, H \cup {r}) = Deltas[r] + SumOf(Deltas, H)
    BY <1>4, <1>6, <2>1, SumMore
  <2> QED  BY <1>6, <2>2
<1>8. hp \in 0..MaxHp
  BY InitialTokens
<1>9. p.delta \in Int /\ p.delta <= 0
  BY <1>2
<1> HIDE DEF p, hp, sum
<1>10. Clamp(Clamp(hp + sum) + p.delta) = Clamp(hp + (p.delta + sum)) /\ p.delta + sum <= 0
       /\ p.delta + sum \in Int
  BY <1>4, <1>8, <1>9, ClampTwice
<1>11. IsFiniteSet(H \cup {r})
  BY <1>4, FS_AddElement
<1>12. SumOf(Deltas, Hits(id))' = p.delta + sum
  BY <1>7
<1>13. Left(id)' = Clamp(hp + (p.delta + sum))
  BY <1>12 DEF Left, hp
<1>14. HpOf(scene.tokens, id)' = {Left(id)'}
  BY <1>5, <1>10, <1>13
<1> QED  BY <1>10, <1>11, <1>12, <1>14 DEF Counted

LEMMA WriteCounts ==
  ASSUME LogConsistent, Answered, MapTyped, HitsCounted, InitialHp, NEW r \in Requests, Write(r)
  PROVE  HitsCounted'
<1> DEFINE p == req[r].payload
           w == Normalized(p, scene')
<1>1. /\ Deltas' = Deltas /\ \A q \in Requests : req'[q].op = req[q].op
      /\ \A q \in Range(writes) : q \in Requests /\ req'[q].payload = req[q].payload
      /\ r \notin Range(writes)
  BY WrittenStays DEF Step
<1>2. Range(writes') = Range(writes) \cup {r}
  BY RangeAppend DEF Write, MapTyped, TypeOK
<1>3. req'[r].payload = w
  BY DEF Write, MapTyped, TypeOK, Local
<1>4. /\ scene \in Scene /\ scene # NoScene /\ p \in Payload /\ req[r].snap \in Scene
      /\ Matches(scene, p) /\ scene' = Update(scene, req[r].snap, p)
  BY DEF Write, MapTyped, TypeOK, Decided
<1>5. \A id : /\ Hits(id) \subseteq Hits(id)' /\ Hits(id)' \subseteq Hits(id) \cup {r}
              /\ Hits(id) \subseteq Range(writes)
  BY <1>1, <1>2 DEF Hits, Op
<1>6. ASSUME NEW id \in InitialIds, OnlyHits(id)'  PROVE Counted(id)'
  <2>1. OnlyHits(id)
    <3>1. \A q \in Range(writes) \ Hits(id) : ~SetsHp(req[q].payload, id)
      <4> SUFFICES ASSUME NEW q \in Range(writes) \ Hits(id)  PROVE ~SetsHp(req[q].payload, id)
        OBVIOUS
      <4>1. q \in Range(writes') \ Hits(id)' /\ req'[q].payload = req[q].payload
        BY <1>1, <1>2, <1>5
      <4> QED  BY <1>6, <4>1 DEF OnlyHits
    <3>2. \A q \in Hits(id) : Op(q).payload.delta <= 0
      BY <1>1, <1>5, <1>6 DEF OnlyHits, Op
    <3> QED  BY <3>1, <3>2 DEF OnlyHits
  <2>2. Counted(id)
    BY <1>4, <2>1 DEF HitsCounted
  <2>3. CASE r \in Hits(id)'
    <3>1. Op(r).kind = "apply" /\ Op(r).payload.kind = "token.delta" /\ Op(r).payload.id = id
      BY <1>1, <2>3 DEF Hits, Op
    <3>2. Op(r).payload = p
      BY <3>1 DEF HitsCounted, AsPlanned, Write
    <3>3. p.delta <= 0
      BY <1>1, <1>6, <2>3, <3>2 DEF OnlyHits, Op
    <3>4. Hits(id)' = Hits(id) \cup {r} /\ r \notin Hits(id)
      BY <1>1, <1>5, <2>3
    <3>5. ASSUME NEW q \in Hits(id)  PROVE q \in Requests /\ Op(q).payload.delta \in Int
      <4>1. q \in Requests /\ Op(q).kind = "apply" /\ Op(q).payload.kind = "token.delta"
        BY <1>1, <3>5 DEF Hits
      <4>2. Op(q).payload \in Payload
        BY <4>1 DEF MapTyped, Decided, Op
      <4> QED  BY <4>1, <4>2, TokenPayloads
    <3> QED  BY <1>1, <2>2, <3>1, <3>2, <3>3, <3>4, <3>5, OneMoreHit
  <2>4. CASE r \notin Hits(id)'
    <3>1. Hits(id)' = Hits(id)
      BY <1>5, <2>4
    <3>2. ~SetsHp(w, id)
      BY <1>2, <1>3, <1>6, <2>4 DEF OnlyHits
    <3>3. HpOf(scene'.tokens, id) = HpOf(scene.tokens, id)
      BY <1>4, <3>2, OthersStay
    <3> QED  BY <1>1, <2>2, <3>1, <3>3 DEF Counted, Left
  <2> QED  BY <2>3, <2>4
<1>7. \A q \in Requests : AsPlanned(q)'
  BY StaysPlanned DEF Step
<1> QED  BY <1>6, <1>7 DEF HitsCounted

LEMMA HitsNext ==
  ASSUME InitialHp
  PROVE  LogConsistent /\ Answered /\ MapTyped /\ HitsCounted /\ [Next]_vars => HitsCounted'
<1> SUFFICES ASSUME LogConsistent, Answered, MapTyped, HitsCounted, [Next]_vars  PROVE HitsCounted'
  OBVIOUS
<1>1. CASE UNCHANGED vars
  BY <1>1 DEF vars, HitsCounted, AsPlanned, OnlyHits, Counted, Left, Hits, Deltas, Op
<1>2. ASSUME NEW r \in Requests, Step(r)  PROVE HitsCounted'
  BY <1>2, WriteCounts, OtherStepsCount
<1> QED  BY <1>1, <1>2 DEF Next

LEMMA CountedAddsUp ==
  ASSUME MapTyped, HitsCounted
  PROVE  HitsAddUp
<1> SUFFICES ASSUME scene # NoScene, NEW id \in {t.id : t \in Range(InitialScene.tokens)}, OnlyHits(id)
             PROVE  TokenOf(scene, id).hp = Clamp(TokenOf(InitialScene, id).hp + Damage(Hits(id)))
  BY DEF HitsAddUp, OnlyHits, Damage
<1>1. Counted(id)
  BY DEF HitsCounted, InitialIds
<1>2. Hits(id) \in SUBSET Requests
  BY DEF Hits, MapTyped, TypeOK, Range
<1>3. Damage(Hits(id)) = SumOf(Deltas, Hits(id))
  BY <1>1, <1>2, DamageSum DEF Counted
<1>4. HpOf(scene.tokens, id) = {Clamp(TokenOf(InitialScene, id).hp + Damage(Hits(id)))}
  BY <1>1, <1>3 DEF Counted, Left
<1>5. scene.tokens \in Seq(Token)
  BY FoundTyped DEF MapTyped, TypeOK
<1>6. PICK t \in Range(scene.tokens) : t.id = id
  BY <1>4 DEF HpOf
<1>7. Find(scene.tokens, id) \in DOMAIN scene.tokens /\ TokenOf(scene, id).id = id
  BY <1>5, <1>6, FindFacts DEF Range, TokenOf
<1>8. TokenOf(scene, id) \in Range(scene.tokens)
  BY <1>7 DEF TokenOf, Range
<1>9. TokenOf(scene, id).hp \in HpOf(scene.tokens, id)
  BY <1>7, <1>8 DEF HpOf
<1> QED  BY <1>4, <1>9

(***************************************************************************)
(* Hits on a token add up, whatever the requests had read and whichever    *)
(* crash or other write comes in between, if in the scene they start from  *)
(* no two tokens share an id and none has more hit points than the maximum *)
(* (the first hit would cut the excess off).                               *)
(***************************************************************************)
THEOREM HitsCount ==
  ASSUME HpInRange(InitialScene), Distinct(InitialScene.tokens)
  PROVE  Spec => []HitsAddUp
<1>1. InitialHp
  BY DEF InitialHp
<1>2. Init => HitsCounted
  BY <1>1, HitsInit
<1>3. LogConsistent /\ Answered /\ MapTyped /\ HitsCounted /\ [Next]_vars => HitsCounted'
  BY <1>1, HitsNext
<1>4. MapTyped /\ HitsCounted => HitsAddUp
  BY CountedAddsUp
<1>5. Spec => [](LogConsistent /\ Answered)
  BY LogInit, LogNext, AnsweredInit, AnsweredNext, PTL DEF Spec
<1> QED  BY <1>2, <1>3, <1>4, <1>5, AlwaysTyped, PTL DEF Spec

-----------------------------------------------------------------------------
(***************************************************************************)
(* What a record tells.  An update that did no more than its record says   *)
(* does the same again when a client applies the record to its own copy.   *)
(***************************************************************************)
(* The list with the hit points of one token set. *)
HpSet(list, i, hp) == [list EXCEPT ![i].hp = Clamp(hp)]

(* A hit on the only token with its id is logged with what it left of it.  *)
LEMMA HitTold ==
  ASSUME NEW list \in Seq(Token), NEW s, NEW p, p.delta \in Int,
         NEW i, i = Find(list, p.id), i \in DOMAIN list,
         \A j \in DOMAIN list : list[j].id = p.id <=> j = i
  PROVE  /\ Find(Hit(list, s, p), p.id) = i /\ Hit(list, s, p)[i].hp \in 0..MaxHp
         /\ Hit(list, s, p) = HpSet(list, i, Hit(list, s, p)[i].hp)
<1> DEFINE l == Hit(list, s, p)
<1>1. /\ DOMAIN l = DOMAIN list /\ DOMAIN list = 1..Len(list) /\ Len(list) \in Nat
      /\ \A j \in DOMAIN list : list[j] \in Token /\ l[j].id = list[j].id
  BY HitShape
<1>2. Len(l) = Len(list)
  BY <1>1 DEF Hit
<1>3. Find(l, p.id) = i
  <2> HIDE DEF l
  <2>1. \A j \in 1..Len(l) : l[j].id = list[j].id
    BY <1>1, <1>2
  <2> QED  BY <1>2, <2>1, FindSame
<1>4. l[i] = [list[i] EXCEPT !.hp = Clamp(list[i].hp + p.delta)]
  BY DEF Hit
<1>5. list[i].hp + p.delta \in Int
  BY <1>1 DEF Token
<1>6. l[i].hp = Clamp(list[i].hp + p.delta)
  <2> HIDE DEF l
  <2> QED  BY <1>1, <1>4 DEF Token
<1>7. l[i].hp \in 0..MaxHp /\ Clamp(l[i].hp) = l[i].hp
  <2> HIDE DEF l
  <2>1. l[i].hp \in 0..MaxHp
    BY <1>5, <1>6, ClampRange
  <2>2. l[i].hp \in Int
    BY <2>1, MapAssumption
  <2> QED  BY <2>1, <2>2, ClampRange
<1>8. \A j \in DOMAIN list : j # i => l[j] = list[j]
  BY DEF Hit
<1>9. l = [j \in DOMAIN list |-> l[j]]
  BY DEF Hit
<1> HIDE DEF l
<1>10. [list EXCEPT ![i].hp = Clamp(l[i].hp)]
         = [j \in DOMAIN list |-> IF j = i THEN [list[i] EXCEPT !.hp = Clamp(l[i].hp)] ELSE list[j]]
  BY <1>1
<1>11. [list[i] EXCEPT !.hp = Clamp(l[i].hp)] = l[i]
  BY <1>4, <1>6, <1>7
<1>12. \A j \in DOMAIN list :
         l[j] = IF j = i THEN [list[i] EXCEPT !.hp = Clamp(l[i].hp)] ELSE list[j]
  BY <1>8, <1>11
<1>13. l = HpSet(list, i, l[i].hp)
  BY <1>9, <1>10, <1>12 DEF HpSet
<1> QED  BY <1>3, <1>7, <1>13 DEF l

(* The record that is made of p when it has been applied to `now'.         *)
Told(now, s, p) == Update(now, now, Normalized(p, Update(now, s, p))) = Update(now, s, p)

LEMMA DeltaTold ==
  ASSUME NEW now \in Scene, NEW s, NEW p \in Payload, p.kind = "token.delta",
         Matches(now, p), ~Untold(now, s, p)
  PROVE  Told(now, s, p)
<1> DEFINE list == now.tokens
           t == Update(now, s, p)
           i == Find(list, p.id)
           hp == Hit(list, s, p)[i].hp
           w == [kind |-> "token.hp", id |-> p.id, hp |-> hp]
<1>1. list \in Seq(Token) /\ p \in [kind: {"token.delta"}, id: TokenIds, delta: Int]
  BY FoundTyped, TokenPayloads
<1>2. t = [now EXCEPT !.tokens = Hit(list, s, p)]
  <2>1. t = UpdateTokens(now, s, p)
    BY Groups DEF TokenKinds
  <2> HIDE DEF t
  <2> QED  BY <2>1 DEF UpdateTokens
<1>3. On(now, p.id)
  BY DEF Matches, Positional
<1>4. i \in DOMAIN list /\ list[i].id = p.id
  BY <1>1, <1>3, FoundTyped DEF TokenOf
<1>5. \A j \in DOMAIN list : list[j].id = p.id => j = i
  BY <1>4 DEF Untold
<1>6. /\ Find(Hit(list, s, p), p.id) = i /\ hp \in 0..MaxHp
      /\ Hit(list, s, p) = HpSet(list, i, hp)
  <2>1. p.delta \in Int
    BY <1>1
  <2>2. \A j \in DOMAIN list : list[j].id = p.id <=> j = i
    BY <1>4, <1>5
  <2>3. i = Find(list, p.id)
    OBVIOUS
  <2>4. list \in Seq(Token) /\ i \in DOMAIN list
    BY <1>1, <1>4
  <2> HIDE DEF i, list
  <2> QED  BY <2>1, <2>2, <2>3, <2>4, HitTold
<1>7. TokenOf(t, p.id).hp = hp
  <2>1. t.tokens = Hit(list, s, p)
    BY <1>2 DEF Scene
  <2> HIDE DEF t, i
  <2> QED  BY <1>6, <2>1 DEF TokenOf
<1>8. Normalized(p, t) = w
  <2> HIDE DEF t, hp
  <2> QED  BY <1>7 DEF Normalized
<1>9. Update(now, now, w) = [now EXCEPT !.tokens = HpSet(list, i, hp)]
  <2> HIDE DEF hp
  <2>1. w.kind = "token.hp" /\ w.id = p.id /\ w.hp = hp
    OBVIOUS
  <2> HIDE DEF w
  <2>2. Update(now, now, w) = [now EXCEPT !.tokens = WithHp(list, now, w)]
    <3>1. Update(now, now, w) = UpdateTokens(now, now, w)
      BY <2>1, Groups DEF TokenKinds
    <3> QED  BY <2>1, <3>1 DEF UpdateTokens
  <2>3. WithHp(list, now, w) = HpSet(list, i, hp)
    BY <1>3, <2>1 DEF WithHp, HpSet
  <2> QED  BY <2>2, <2>3
<1> HIDE DEF t, w, hp
<1> QED  BY <1>2, <1>6, <1>8, <1>9 DEF Told, t

LEMMA WriteTold ==
  ASSUME NEW now \in Scene, NEW s, NEW p \in Payload, Matches(now, p), ~Untold(now, s, p)
  PROVE  Told(now, s, p)
<1>1. CASE p.kind = "token.delta"
  BY <1>1, DeltaTold
<1>2. ASSUME p.kind # "token.delta", Update(now, s, p) = Update(now, now, p)
      PROVE  Told(now, s, p)
  BY <1>2 DEF Told, Normalized
<1>3. UsesSnapshot(s, p) => now.tokens = s.tokens /\ now.combat = s.combat /\ now.overrides = s.overrides
  BY DEF Untold, SameContent
<1>4. CASE p.kind \in TokenKinds \ {"token.delta"}
  <2>1. /\ Update(now, s, p) = UpdateTokens(now, s, p)
        /\ Update(now, now, p) = UpdateTokens(now, now, p)
    BY <1>4, Groups
  <2>2. UpdateTokens(now, s, p) = UpdateTokens(now, now, p)
    <3>1. CASE p.kind = "token.hp"
      <4>1. On(now, p.id)
        BY <3>1 DEF Matches, Positional
      <4>2. On(s, p.id)
        <5>1. ~On(s, p.id) => now.tokens = s.tokens
          BY <1>3, <3>1 DEF UsesSnapshot
        <5> QED  BY <4>1, <5>1 DEF On
      <4>3. WithHp(now.tokens, s, p) = WithHp(now.tokens, now, p)
        BY <4>1, <4>2 DEF WithHp
      <4> QED  BY <3>1, <4>3 DEF UpdateTokens
    <3>2. CASE p.kind = "tokens.replace-npc"
      BY <1>3, <3>2 DEF UsesSnapshot, UpdateTokens
    <3>3. CASE p.kind \notin {"token.hp", "tokens.replace-npc"}
      BY <1>4, <3>3 DEF UpdateTokens, TokenKinds
    <3> QED  BY <3>1, <3>2, <3>3
  <2> QED  BY <1>2, <1>4, <2>1, <2>2
<1>5. CASE p.kind \in CombatKinds
  <2>1. /\ Update(now, s, p) = UpdateCombat(now, s, p)
        /\ Update(now, now, p) = UpdateCombat(now, now, p)
    BY <1>5, Groups
  <2>2. UpdateCombat(now, s, p) = UpdateCombat(now, now, p)
    <3>1. CASE p.kind = "combat.turn"
      BY <1>3, <3>1 DEF UsesSnapshot, UpdateCombat
    <3>2. CASE p.kind # "combat.turn"
      BY <1>5, <3>2 DEF UpdateCombat, CombatKinds
    <3> QED  BY <3>1, <3>2
  <2>3. p.kind # "token.delta"
    BY <1>5 DEF CombatKinds
  <2> QED  BY <1>2, <2>1, <2>2, <2>3
<1>6. CASE p.kind \in ListKinds \cup {"allow", "disallow"}
  <2>1. Update(now, s, p) = Update(now, now, p)
    BY <1>6, Groups
  <2>2. p.kind # "token.delta"
    BY <1>6 DEF ListKinds
  <2> QED  BY <1>2, <2>1, <2>2
<1>7. CASE p.kind \in {"scene.state", "scene.playerState", "set", "fog.set", "fog.brush",
                       "scene.activate", "scene.deactivate", "dice.roll"}
  <2>1. /\ Update(now, s, p) = UpdateField(now, s, p)
        /\ Update(now, now, p) = UpdateField(now, now, p)
    BY <1>7, Groups
  <2>2. UpdateField(now, s, p) = UpdateField(now, now, p)
    <3>1. CASE p.kind = "scene.playerState"
      BY <1>3, <3>1 DEF UsesSnapshot, UpdateField
    <3>2. CASE p.kind # "scene.playerState"
      BY <1>7, <3>2 DEF UpdateField
    <3> QED  BY <3>1, <3>2
  <2>3. p.kind # "token.delta"
    BY <1>7
  <2> QED  BY <1>2, <2>1, <2>2, <2>3
<1> QED  BY <1>1, <1>4, <1>5, <1>6, <1>7, PayloadNames

-----------------------------------------------------------------------------
(* What a client has seen after each record of d, in the order ws.         *)
Replays(d, ws, f) ==
  /\ f[0] = InitialScene
  /\ \A n \in 1..Len(ws) : f[n] = Update(f[n - 1], f[n - 1], d[ws[n]])

Payloads == [r \in Requests |-> req[r].payload]

AllTold == \A r \in Range(writes) : ~req[r].untold

(* The inductive invariant. *)
Replayed ==
  scene # NoScene /\ AllTold => \E f : Replays(Payloads, writes, f) /\ f[Len(writes)] = scene

LEMMA ReplayInit == Init => Replayed
<1> SUFFICES ASSUME Init  PROVE Replayed
  OBVIOUS
<1>1. writes = <<>> /\ scene = InitialScene
  BY DEF Init
<1> DEFINE f == [n \in 0..0 |-> InitialScene]
<1>2. f[0] = InitialScene /\ Len(writes) = 0
  BY <1>1
<1>3. Replays(Payloads, writes, f)
  BY <1>2 DEF Replays
<1> HIDE DEF f
<1> QED  BY <1>1, <1>2, <1>3 DEF Replayed

(* A replay depends on what the requests in it wrote, and on no other. *)
LEMMA ReplaysSame ==
  ASSUME NEW ws \in Seq(Requests), NEW d, NEW e, \A q \in Range(ws) : d[q] = e[q],
         NEW f, Replays(d, ws, f)
  PROVE  Replays(e, ws, f)
<1>1. \A n \in 1..Len(ws) : ws[n] \in Range(ws)
  BY DEF Range
<1> QED  BY <1>1 DEF Replays

LEMMA ReplaysOneMore ==
  ASSUME NEW ws \in Seq(Requests), NEW r \in Requests, NEW d, NEW f, Replays(d, ws, f),
         NEW s, s = Update(f[Len(ws)], f[Len(ws)], d[r])
  PROVE  \E g : Replays(d, Append(ws, r), g) /\ g[Len(Append(ws, r))] = s
<1> DEFINE N == Len(ws)
           v == Append(ws, r)
           g == [n \in 0..(N + 1) |-> IF n = N + 1 THEN s ELSE f[n]]
<1>1. N \in Nat /\ Len(v) = N + 1 /\ v[N + 1] = r /\ \A n \in 1..N : v[n] = ws[n]
  BY AppendProperties
<1>2. g[N + 1] = s /\ \A n \in 0..N : g[n] = f[n]
  BY <1>1
<1> HIDE DEF N, v, g
<1>3. g[0] = InitialScene
  BY <1>1, <1>2 DEF Replays
<1>4. ASSUME NEW n \in 1..(N + 1)  PROVE g[n] = Update(g[n - 1], g[n - 1], d[v[n]])
  <2>1. CASE n = N + 1
    <3>1. n - 1 = N /\ g[N] = f[N]
      BY <1>1, <1>2, <2>1
    <3> QED  BY <1>1, <1>2, <2>1, <3>1 DEF N
  <2>2. CASE n \in 1..N
    <3>1. n - 1 \in 0..N /\ g[n - 1] = f[n - 1] /\ g[n] = f[n] /\ v[n] = ws[n]
      BY <1>1, <1>2, <2>2
    <3>2. f[n] = Update(f[n - 1], f[n - 1], d[ws[n]])
      BY <2>2 DEF Replays, N
    <3> QED  BY <3>1, <3>2
  <2> QED  BY <1>1, <2>1, <2>2
<1>5. Replays(d, v, g)
  BY <1>1, <1>3, <1>4 DEF Replays
<1> QED  BY <1>1, <1>2, <1>5 DEF v

(* A request that has written neither writes again nor changes its record. *)
LEMMA UntoldStays ==
  ASSUME LogConsistent, Answered, MapTyped, NEW r \in Requests, Step(r)
  PROVE  \A q \in Requests : (q = r => ~Write(r)) => req'[q].untold = req[q].untold
<1>1. Onward(r)
  BY StepOwn DEF Own
<1>2. \A q \in Requests \ {r} : req'[q].untold = req[q].untold
  BY <1>1 DEF Onward
<1>3. ASSUME ~Write(r)  PROVE req'[r].untold = req[r].untold
  <2>1. req[r] \in Local /\ req \in [Requests -> Local]
    BY DEF MapTyped, TypeOK
  <2>2. CASE Load(r)
    BY <2>1, <2>2 DEF Load, Local
  <2>3. CASE UndoFind(r)
    BY <2>1, <2>3 DEF UndoFind, Local
  <2>4. CASE ~Load(r) /\ ~UndoFind(r)
    BY <1>3, <2>1, <2>4 DEF Step, Finish, Local, LoadRefused, WriteMissed, WriteNoop, WriteFailed,
       WriteNothing, AllocateGone, Allocate, AppendRecord, Emit, UndoRefused, MarkTarget, MarkOwn,
       MarkNoop, DeleteScene, Fail, Crash
  <2> QED  BY <2>2, <2>3, <2>4
<1> QED  BY <1>2, <1>3

LEMMA ReplayOther ==
  ASSUME LogConsistent, Answered, MapTyped, Replayed, NEW r \in Requests, Step(r), ~Write(r)
  PROVE  Replayed'
<1> SUFFICES ASSUME scene' # NoScene, AllTold'
             PROVE  \E f : Replays(Payloads', writes', f) /\ f[Len(writes')] = scene'
  BY DEF Replayed, Replays
<1>1. writes' = writes /\ scene' \in {scene, NoScene}
  BY DEF Step, LoadRefused, Load, WriteMissed, WriteNoop, WriteFailed, WriteNothing,
     AllocateGone, Allocate, AppendRecord, Emit, UndoRefused, UndoFind, MarkTarget, MarkOwn,
     MarkNoop, DeleteScene, Fail, Crash
<1>2. \A q \in Range(writes) : q \in Requests /\ req'[q].payload = req[q].payload
  BY WrittenStays
<1>3. AllTold
  BY <1>1, <1>2, UntoldStays DEF AllTold
<1>4. PICK f : Replays(Payloads, writes, f) /\ f[Len(writes)] = scene
  BY <1>1, <1>3 DEF Replayed
<1>5. \A q \in Range(writes) : Payloads[q] = Payloads'[q]
  BY <1>2 DEF Payloads
<1>6. writes \in Seq(Requests)
  BY DEF MapTyped, TypeOK
<1>7. Replays(Payloads', writes, f)
  BY <1>4, <1>5, <1>6, ReplaysSame
<1> QED  BY <1>1, <1>4, <1>7

LEMMA ReplayWrite ==
  ASSUME LogConsistent, Answered, MapTyped, Replayed, NEW r \in Requests, Write(r)
  PROVE  Replayed'
<1> DEFINE p == req[r].payload
           snap == req[r].snap
           w == Normalized(p, scene')
<1> SUFFICES ASSUME scene' # NoScene, AllTold'
             PROVE  \E f : Replays(Payloads', writes', f) /\ f[Len(writes')] = scene'
  BY DEF Replayed, Replays
<1>1. /\ \A q \in Range(writes) : q \in Requests /\ req'[q].payload = req[q].payload
      /\ r \notin Range(writes)
  BY WrittenStays DEF Step
<1>2. writes \in Seq(Requests) /\ writes' = Append(writes, r) /\ Range(writes') = Range(writes) \cup {r}
  BY RangeAppend DEF Write, MapTyped, TypeOK
<1>3. req'[r].payload = w /\ req'[r].untold = Untold(scene, snap, p)
  BY DEF Write, MapTyped, TypeOK, Local
<1>4. /\ scene \in Scene /\ scene # NoScene /\ p \in Payload
      /\ Matches(scene, p) /\ scene' = Update(scene, snap, p)
  BY DEF Write, MapTyped, TypeOK, Decided
<1>5. ~Untold(scene, snap, p)
  BY <1>2, <1>3 DEF AllTold
<1>6. scene' = Update(scene, scene, w)
  BY <1>4, <1>5, WriteTold DEF Told
<1>7. AllTold
  <2>1. \A q \in Range(writes) : req'[q].untold = req[q].untold
    BY <1>1, UntoldStays DEF Step
  <2> QED  BY <1>2, <2>1 DEF AllTold
<1>8. PICK f : Replays(Payloads, writes, f) /\ f[Len(writes)] = scene
  BY <1>4, <1>7 DEF Replayed
<1>9. Payloads'[r] = w /\ \A q \in Range(writes) : Payloads[q] = Payloads'[q]
  BY <1>1, <1>3 DEF Payloads
<1>10. Replays(Payloads', writes, f)
  BY <1>2, <1>8, <1>9, ReplaysSame
<1> HIDE DEF w
<1>11. scene' = Update(f[Len(writes)], f[Len(writes)], Payloads'[r])
  BY <1>6, <1>8, <1>9
<1> QED  BY <1>2, <1>10, <1>11, ReplaysOneMore

LEMMA ReplayNext ==
  LogConsistent /\ Answered /\ MapTyped /\ Replayed /\ [Next]_vars => Replayed'
<1> SUFFICES ASSUME LogConsistent, Answered, MapTyped, Replayed, [Next]_vars  PROVE Replayed'
  OBVIOUS
<1>1. CASE UNCHANGED vars
  BY <1>1 DEF vars, Replayed, AllTold, Payloads, Replays
<1>2. ASSUME NEW r \in Requests, Step(r)  PROVE Replayed'
  BY <1>2, ReplayWrite, ReplayOther
<1> QED  BY <1>1, <1>2 DEF Next

-----------------------------------------------------------------------------
(***************************************************************************)
(* FoldLeft takes the last element off and folds what is left.  The fold   *)
(* is a function on all sets of positions, which has to be shown to exist. *)
(***************************************************************************)
LEMMA LastOf ==
  ASSUME NEW N \in Nat, NEW s \in SUBSET (1..N), s # {}
  PROVE  Max(s) \in s /\ \A i \in s : i <= Max(s)
<1> DEFINE I == {N - i : i \in s}
<1>1. I \in SUBSET Nat /\ I # {}
  OBVIOUS
<1>2. Min(I) \in I /\ \A k \in I : Min(I) <= k
  <2> HIDE DEF I
  <2> QED  BY <1>1, LeastOf
<1>3. PICK m \in s : Min(I) = N - m
  BY <1>2
<1>4. ASSUME NEW i \in s  PROVE m >= i
  <2>1. N - i \in I
    OBVIOUS
  <2>2. N - m <= N - i
    BY <1>2, <1>3, <2>1
  <2>3. i \in Int /\ m \in Int
    OBVIOUS
  <2> QED  BY <2>2, <2>3
<1>5. Max(s) \in s /\ \A i \in s : Max(s) >= i
  BY <1>4 DEF Max
<1> QED  BY <1>5

LEMMA LastOfFirst ==
  ASSUME NEW N \in Nat, NEW n \in 1..N
  PROVE  Max(1..n) = n /\ (1..n) \ {n} = 1..(n - 1)
<1>1. 1..n \in SUBSET (1..N) /\ 1..n # {} /\ n \in 1..n
  OBVIOUS
<1>2. Max(1..n) \in 1..n /\ n <= Max(1..n)
  BY <1>1, LastOf
<1> QED  BY <1>2

(* The scene after the records at the positions in s. *)
FoldsRecords(d, ws, N, f) ==
  f = [s \in SUBSET (1..N) |-> IF s = {} THEN InitialScene
         ELSE Update(f[s \ {Max(s)}], f[s \ {Max(s)}], d[ws[Max(s)]])]

SmallFolds(d, ws, N, f, k) ==
  f = [s \in Small(1..N, k) |-> IF s = {} THEN InitialScene
         ELSE Update(f[s \ {Max(s)}], f[s \ {Max(s)}], d[ws[Max(s)]])]

LEMMA FoldExists ==
  ASSUME NEW N \in Nat, NEW d, NEW ws
  PROVE  \E f : FoldsRecords(d, ws, N, f)
<1> DEFINE T == 1..N
           G == {k \in 0..N : \E f : SmallFolds(d, ws, N, f, k)}
<1>0. IsFiniteSet(T) /\ Cardinality(T) = N /\ \A s \in SUBSET T : Cardinality(s) \in 0..N
  <2>1. IsFiniteSet(T) /\ Cardinality(T) = N
    BY FS_Interval
  <2> HIDE DEF T
  <2> QED  BY <2>1, Sizes
<1>1. 0 \in G
  <2>1. \A s \in Small(T, 0) : s = {}
    <3> SUFFICES ASSUME NEW s \in SUBSET T, Cardinality(s) <= 0, s # {}  PROVE FALSE
      BY DEF Small
    <3> HIDE DEF T
    <3> QED  BY <1>0, OneLess
  <2>2. SmallFolds(d, ws, N, [s \in Small(T, 0) |-> InitialScene], 0)
    BY <2>1 DEF SmallFolds
  <2> QED  BY <2>2
<1>2. ASSUME NEW k \in 0..N, k # N, k \in G  PROVE k + 1 \in G
  <2>1. PICK f : SmallFolds(d, ws, N, f, k)
    BY <1>2
  <2> DEFINE g == [s \in Small(T, k + 1) |-> IF s = {} THEN InitialScene
                     ELSE Update(f[s \ {Max(s)}], f[s \ {Max(s)}], d[ws[Max(s)]])]
  <2>2. \A s \in Small(T, k) : s \in Small(T, k + 1) /\ g[s] = f[s]
    <3> TAKE s \in Small(T, k)
    <3>1. s \in Small(T, k + 1)
      BY <1>0, <1>2 DEF Small
    <3>2. f[s] = IF s = {} THEN InitialScene
                 ELSE Update(f[s \ {Max(s)}], f[s \ {Max(s)}], d[ws[Max(s)]])
      BY <2>1 DEF SmallFolds
    <3> QED  BY <3>1, <3>2
  <2>3. \A s \in Small(T, k + 1) : s # {} => s \ {Max(s)} \in Small(T, k)
    <3> SUFFICES ASSUME NEW s \in SUBSET T, Cardinality(s) <= k + 1, s # {}
                 PROVE  s \ {Max(s)} \in Small(T, k)
      BY DEF Small
    <3>1. Max(s) \in s
      BY LastOf
    <3> HIDE DEF T
    <3>2. Cardinality(s) \in Nat /\ Cardinality(s \ {Max(s)}) = Cardinality(s) - 1
      BY <1>0, <3>1, OneLess
    <3> QED  BY <1>2, <3>2 DEF Small
  <2>4. g = [s \in Small(T, k + 1) |-> IF s = {} THEN InitialScene
               ELSE Update(g[s \ {Max(s)}], g[s \ {Max(s)}], d[ws[Max(s)]])]
    <3>1. \A s \in Small(T, k + 1) : s # {} => g[s \ {Max(s)}] = f[s \ {Max(s)}]
      BY <2>2, <2>3
    <3> QED  BY <3>1
  <2> HIDE DEF g
  <2>5. SmallFolds(d, ws, N, g, k + 1)
    BY <2>4 DEF SmallFolds
  <2>6. k + 1 \in 0..N
    BY <1>2
  <2> QED  BY <2>5, <2>6
<1>3. N \in G
  <2> HIDE DEF G
  <2>1. \A k \in 0..N : k # N /\ k \in G => k + 1 \in G
    BY <1>2
  <2>2. 0..N \subseteq G
    BY <1>1, <2>1, Climb
  <2> QED  BY <2>2
<1>4. Small(T, N) = SUBSET T
  BY <1>0 DEF Small
<1> QED  BY <1>3, <1>4 DEF SmallFolds, FoldsRecords

LEMMA FoldIsReplay ==
  ASSUME NEW N \in Nat, NEW d, NEW ws, Len(ws) = N, NEW f, Replays(d, ws, f),
         NEW fold, FoldsRecords(d, ws, N, fold)
  PROVE  fold[1..N] = f[N]
<1> DEFINE G == {k \in 0..N : fold[1..k] = f[k]}
<1>1. 0 \in G
  <2>1. 1..0 = {} /\ {} \in SUBSET (1..N)
    OBVIOUS
  <2>2. fold[{}] = InitialScene
    BY <2>1 DEF FoldsRecords
  <2> QED  BY <2>1, <2>2 DEF Replays
<1>2. ASSUME NEW k \in 0..N, k # N, k \in G  PROVE k + 1 \in G
  <2> DEFINE n == k + 1
             s == 1..n
  <2>1. n \in 1..N /\ n - 1 = k /\ s \in SUBSET (1..N) /\ s # {}
    <3>1. n \in 1..N /\ n - 1 = k
      BY <1>2
    <3>2. n \in s /\ \A i \in s : i \in 1..N
      BY <3>1
    <3> QED  BY <3>1, <3>2
  <2>2. Max(s) = n /\ s \ {n} = 1..k
    BY <2>1, LastOfFirst
  <2>3. fold[s] = Update(fold[s \ {Max(s)}], fold[s \ {Max(s)}], d[ws[Max(s)]])
    <3> HIDE DEF s
    <3> QED  BY <2>1 DEF FoldsRecords
  <2>4. fold[s] = Update(f[k], f[k], d[ws[n]])
    BY <1>2, <2>2, <2>3
  <2>5. f[n] = Update(f[k], f[k], d[ws[n]])
    BY <2>1 DEF Replays
  <2> QED  BY <2>1, <2>4, <2>5
<1>3. 0..N \subseteq G
  <2> HIDE DEF G
  <2>1. \A k \in 0..N : k # N /\ k \in G => k + 1 \in G
    BY <1>2
  <2> QED  BY <1>1, <2>1, Climb
<1> QED  BY <1>3

LogPayloads == [r \in Requests |-> log[r].payload]

(* The fold of LogReplays is such a function. *)
LEMMA FoldOfLog ==
  ASSUME NEW N \in Nat, writes \in Seq(Requests), Len(writes) = N
  PROVE  \E fold : /\ FoldsRecords(LogPayloads, writes, N, fold)
                   /\ FoldLeft(LAMBDA s, r : Update(s, s, log[r].payload), InitialScene, writes)
                        = fold[1..N]
<1> DEFINE D == DOMAIN writes
           iter == CHOOSE g : g = [s \in SUBSET D |->
             IF s = {} THEN InitialScene
             ELSE LET x == Max(s)
                  IN Update(g[s \ {x}], g[s \ {x}], log[writes[x]].payload)]
<1>1. PICK f : FoldsRecords(LogPayloads, writes, N, f)
  BY FoldExists
<1>2. D = 1..N
  OBVIOUS
<1>3. \A s \in SUBSET (1..N) : s # {} => LogPayloads[writes[Max(s)]] = log[writes[Max(s)]].payload
  <2> TAKE s \in SUBSET (1..N)
  <2> HAVE s # {}
  <2>1. Max(s) \in 1..N
    BY LastOf
  <2>2. writes[Max(s)] \in Requests
    BY <2>1
  <2> QED  BY <2>2 DEF LogPayloads
<1>4. f = [s \in SUBSET (1..N) |-> IF s = {} THEN InitialScene
             ELSE Update(f[s \ {Max(s)}], f[s \ {Max(s)}], log[writes[Max(s)]].payload)]
  BY <1>1, <1>3 DEF FoldsRecords
<1>5. iter = [s \in SUBSET (1..N) |-> IF s = {} THEN InitialScene
             ELSE Update(iter[s \ {Max(s)}], iter[s \ {Max(s)}], log[writes[Max(s)]].payload)]
  <2>1. f = [s \in SUBSET D |-> IF s = {} THEN InitialScene
               ELSE LET x == Max(s)
                    IN Update(f[s \ {x}], f[s \ {x}], log[writes[x]].payload)]
    BY <1>2, <1>4
  <2>2. iter = [s \in SUBSET D |-> IF s = {} THEN InitialScene
               ELSE LET x == Max(s)
                    IN Update(iter[s \ {x}], iter[s \ {x}], log[writes[x]].payload)]
    BY <2>1
  <2> HIDE DEF iter
  <2> QED  BY <1>2, <2>2
<1>6. FoldLeft(LAMBDA s, r : Update(s, s, log[r].payload), InitialScene, writes) = iter[D]
  BY DEF FoldLeft, MapThenFoldSet
<1> HIDE DEF iter
<1>7. FoldsRecords(LogPayloads, writes, N, iter)
  BY <1>3, <1>5 DEF FoldsRecords
<1> QED  BY <1>2, <1>6, <1>7

LEMMA ReplayedReplays ==
  ASSUME LogConsistent, MapTyped, Replayed
  PROVE  LogReplays
<1> SUFFICES ASSUME scene # NoScene, LogInOrder
             PROVE  FoldLeft(LAMBDA s, r : Update(s, s, log[r].payload), InitialScene, writes) = scene
  BY DEF LogReplays
<1>1. writes \in Seq(Requests) /\ Len(writes) \in Nat /\ \A q \in Range(writes) : q \in Requests
  BY DEF MapTyped, TypeOK, Range
<1>2. PICK f : Replays(Payloads, writes, f) /\ f[Len(writes)] = scene
  BY DEF Replayed, AllTold, LogInOrder
<1>3. \A q \in Range(writes) : Payloads[q] = LogPayloads[q]
  <2> TAKE q \in Range(writes)
  <2>1. q \in Requests /\ Logged(q) /\ NumberOK(req[q], log[q])
    BY <1>1 DEF LogInOrder, LogConsistent, Numbers
  <2>2. log[q].payload = req[q].payload
    BY <2>1 DEF Logged, NumberOK
  <2> QED  BY <2>1, <2>2 DEF Payloads, LogPayloads
<1>4. Replays(LogPayloads, writes, f)
  BY <1>1, <1>2, <1>3, ReplaysSame
<1>5. PICK fold : /\ FoldsRecords(LogPayloads, writes, Len(writes), fold)
                  /\ FoldLeft(LAMBDA s, r : Update(s, s, log[r].payload), InitialScene, writes)
                       = fold[1..Len(writes)]
  BY <1>1, FoldOfLog
<1>6. fold[1..Len(writes)] = f[Len(writes)]
  BY <1>1, <1>4, <1>5, FoldIsReplay
<1> QED  BY <1>2, <1>5, <1>6

(***************************************************************************)
(* A client that applies the log to the scene it started from has the      *)
(* scene of the server, for any number of requests and operations and      *)
(* whichever of them die, as long as they were numbered in the order of    *)
(* their writes and their records tell all they did.                       *)
(***************************************************************************)
THEOREM LogReplayed == Spec => []LogReplays
<1>1. Spec => [](LogConsistent /\ Answered)
  BY LogInit, LogNext, AnsweredInit, AnsweredNext, PTL DEF Spec
<1>2. LogConsistent /\ MapTyped /\ Replayed => LogReplays
  BY ReplayedReplays
<1> QED  BY ReplayInit, ReplayNext, <1>1, <1>2, AlwaysTyped, PTL DEF Spec

=============================================================================
