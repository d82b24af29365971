----------------------- MODULE CharacterAccountsProofs -----------------------
(***************************************************************************)
(* For any number of accounts, requests, operations and currencies,        *)
(* whatever crashes or fails:                                              *)
(*   - documents keep their type and every stored balance is the sum of    *)
(*     its history, with and without transactions;                         *)
(*   - if no two writes share a timestamp, histories lose nothing and a    *)
(*     failed transfer is compensated (without transactions: if nothing    *)
(*     is undone);                                                         *)
(*   - with transactions the service implements TransferPromise.           *)
(***************************************************************************)
EXTENDS CharacterAccounts, AccountLedgerProofs

TransferPlaces == {"readTo", "begin", "commit", "debit", "credit", "clear",
                   "revert", "lost", "replay", "replayTo", "answer"}

(* What a request's place says about its operation and its snapshot. *)
PlaceOK(op, place, snap) ==
  /\ place = "write" /\ op.kind = "undo" => snap[op.acc].txs # << >>
  /\ place = "write" /\ op.kind = "convert" => Rate[op.currency] > 0
  /\ place \in TransferPlaces => IsTransfer(op)

RequestRecord == [op: Operations, pc: Places, delta: Int,
                  snap: [Accounts -> Account], answer: Answers]

RequestOK(q) ==
  /\ q \in RequestRecord
  /\ \A a \in Accounts : BalanceMatches(q.snap[a])
  /\ PlaceOK(q.op, q.pc, q.snap)

DocsOK == accounts \in [Accounts -> Account] /\ BalanceIsSum

RequestsOK ==
  /\ req \in [Requests -> RequestRecord]
  /\ \A r \in Requests : RequestOK(req[r])

(* The inductive invariant. *)
Consistent == DocsOK /\ RequestsOK

-----------------------------------------------------------------------------
LEMMA OperationType ==
  ASSUME NEW op \in Operations
  PROVE  /\ op \in Operation
         /\ op.acc \in Accounts /\ op.currency \in Currencies /\ op.amount \in Int
         /\ op.income \in Nat /\ op.expense \in Nat
         /\ op.nonce \in Nonces \cup {NoNonce} /\ op.selfAdjust \in BOOLEAN
         /\ IsTransfer(op) => op.to \in Accounts
BY AccountsAssumption DEF Operation

LEMMA GoneSound == Sound(Gone)
<1>1. (CHOOSE c \in Currencies : TRUE) \in Currencies
  BY LedgerAssumption
<1>2. << >> \in Seq(Tx)
  BY EmptySeq
<1>3. Gone \in Account
  BY <1>1, <1>2 DEF Gone, Account
<1>4. Gone.balance = 0 /\ Gone.txs = << >>
  BY DEF Gone
<1> QED
  BY <1>3, <1>4, SumEmpty DEF Sound, BalanceMatches

LEMMA NoSnapshotOK ==
  /\ NoSnapshot \in [Accounts -> Account]
  /\ \A a \in Accounts : BalanceMatches(NoSnapshot[a])
BY GoneSound DEF NoSnapshot, Sound

-----------------------------------------------------------------------------
(* How the four ways to update a request keep it well formed. *)

LEMMA UpdateOK ==
  ASSUME RequestsOK, NEW r \in Requests, NEW q, RequestOK(q),
         req' = [req EXCEPT ![r] = q]
  PROVE  RequestsOK'
<1>1. q \in RequestRecord
  BY DEF RequestOK
<1>2. req' \in [Requests -> RequestRecord]
  BY <1>1 DEF RequestsOK
<1>3. ASSUME NEW p \in Requests PROVE RequestOK(req'[p])
  <2>1. CASE p = r
    BY <2>1 DEF RequestsOK
  <2>2. CASE p # r
    BY <2>2 DEF RequestsOK
  <2> QED  BY <2>1, <2>2
<1>4. ASSUME NEW p \in Requests PROVE RequestOK(req[p])'
  BY <1>3 DEF RequestOK
<1> QED
  BY <1>2, <1>4 DEF RequestsOK

LEMMA FinishOK ==
  ASSUME RequestsOK, NEW r \in Requests, NEW answer \in Answers, Finish(r, answer)
  PROVE  RequestsOK'
<1> DEFINE q == [req[r] EXCEPT !.pc = "done", !.answer = answer,
                               !.snap = NoSnapshot, !.delta = 0]
<1>1. req[r] \in RequestRecord /\ RequestOK(req[r])
  BY DEF RequestsOK
<1>2. q \in RequestRecord
  <2>1. "done" \in Places /\ 0 \in Int
    BY DEF Places
  <2>2. NoSnapshot \in [Accounts -> Account]
    BY NoSnapshotOK
  <2> QED  BY <1>1, <2>1, <2>2 DEF RequestRecord
<1>3. q.snap = NoSnapshot /\ q.pc = "done"
  BY <1>1 DEF RequestRecord
<1>4. RequestOK(q)
  BY <1>2, <1>3, NoSnapshotOK DEF RequestOK, PlaceOK, TransferPlaces
<1>5. req' = [req EXCEPT ![r] = q]
  BY DEF Finish, RequestsOK
<1> QED
  BY <1>4, <1>5, UpdateOK

LEMMA GotoOK ==
  ASSUME RequestsOK, NEW r \in Requests, NEW place \in Places,
         PlaceOK(Op(r), place, req[r].snap), Goto(r, place)
  PROVE  RequestsOK'
<1> DEFINE q == [req[r] EXCEPT !.pc = place]
<1>1. req[r] \in RequestRecord /\ RequestOK(req[r])
  BY DEF RequestsOK
<1>2. q \in RequestRecord /\ q.snap = req[r].snap /\ q.op = Op(r) /\ q.pc = place
  BY <1>1 DEF RequestRecord, Op
<1>3. RequestOK(q)
  BY <1>1, <1>2 DEF RequestOK
<1>4. req' = [req EXCEPT ![r] = q]
  BY DEF Goto, RequestsOK
<1> QED
  BY <1>3, <1>4, UpdateOK

LEMMA RememberOK ==
  ASSUME DocsOK, RequestsOK, NEW r \in Requests, NEW names \in SUBSET Accounts,
         NEW place \in Places, Remember(r, names, place),
         place = "write" => Op(r).acc \in names /\ Source(r).txs # << >>,
         place = "write" /\ Op(r).kind = "convert" => Rate[Op(r).currency] > 0,
         place \in TransferPlaces => IsTransfer(Op(r))
  PROVE  RequestsOK'
<1> DEFINE snap == [a \in Accounts |-> IF a \in names THEN accounts[a]
                                       ELSE req[r].snap[a]]
           q == [req[r] EXCEPT !.pc = place, !.snap = snap]
<1>1. req[r] \in RequestRecord /\ RequestOK(req[r])
  BY DEF RequestsOK
<1>2. /\ snap \in [Accounts -> Account]
      /\ \A a \in Accounts : BalanceMatches(snap[a])
  BY <1>1 DEF DocsOK, BalanceIsSum, RequestOK, RequestRecord
<1>3. place = "write" => snap[Op(r).acc].txs # << >>
  BY DEF Source
<1>4. req' = [req EXCEPT ![r] = q]
  BY DEF Remember, RequestsOK
<1> HIDE DEF snap
<1>5. q \in RequestRecord /\ q.snap = snap /\ q.op = Op(r) /\ q.pc = place
  BY <1>1, <1>2 DEF RequestRecord, Op
<1>6. RequestOK(q)
  BY <1>2, <1>3, <1>5 DEF RequestOK, PlaceOK
<1> QED
  BY <1>4, <1>6, UpdateOK

LEMMA PutOK ==
  ASSUME DocsOK, NEW a \in Accounts, NEW doc, Sound(doc), Put(a, doc)
  PROVE  DocsOK'
<1>1. accounts' = [accounts EXCEPT ![a] = doc]
  BY DEF Put
<1>2. accounts' \in [Accounts -> Account]
  BY <1>1 DEF DocsOK, Sound
<1>3. \A b \in Accounts : BalanceMatches(accounts'[b])
  BY <1>1 DEF DocsOK, BalanceIsSum, Sound
<1> QED
  BY <1>2, <1>3 DEF DocsOK, BalanceIsSum, BalanceMatches

LEMMA KeepDocs == DocsOK /\ UNCHANGED accounts => DocsOK'
BY DEF DocsOK, BalanceIsSum, BalanceMatches

-----------------------------------------------------------------------------
(* Facts about the documents a step works on. *)

LEMMA DocFacts ==
  ASSUME DocsOK, RequestsOK, NEW r \in Requests
  PROVE  /\ Op(r) \in Operations /\ Op(r).acc \in Accounts
         /\ Sound(Source(r)) /\ Sound(req[r].snap[Op(r).acc])
         /\ IsTransfer(Op(r)) => Op(r).to \in Accounts /\ Sound(Target(r))
<1>1. Op(r) \in Operations /\ RequestOK(req[r])
  BY DEF RequestsOK, RequestRecord, Op
<1>2. Op(r).acc \in Accounts /\ (IsTransfer(Op(r)) => Op(r).to \in Accounts)
  BY <1>1, OperationType
<1> QED
  BY <1>1, <1>2 DEF DocsOK, BalanceIsSum, Sound, Source, Target, RequestOK,
                    RequestRecord

LEMMA StampType ==
  ASSUME NEW acc \in Account, NEW s \in Stamps(acc)
  PROVE  s \in Nat
BY DEF Stamps, Account

LEMMA PlainTxType ==
  ASSUME NEW r \in Requests, NEW delta \in Int
  PROVE  PlainTx(<<r, "single">>, delta) \in Tx
BY AccountsAssumption DEF PlainTx, Tx, Legs

LEMMA LegTypes ==
  ASSUME RequestsOK, NEW r \in Requests, IsTransfer(Op(r))
  PROVE  OutTx(r) \in Tx /\ InTx(r) \in Tx /\ RevertTx(r) \in Tx
<1>1. Op(r) \in Operations
  BY DEF RequestsOK, RequestRecord, Op
<1>2. /\ <<r, "out">> \in TxIds /\ <<r, "in">> \in TxIds /\ <<r, "revert">> \in TxIds
  BY AccountsAssumption DEF Legs
<1>3. /\ Op(r).amount \in Int /\ Op(r).nonce \in Nonces \cup {NoNonce}
      /\ Op(r).to \in Accounts /\ Op(r).acc \in Accounts
  BY <1>1, OperationType
<1> QED
  BY <1>2, <1>3 DEF OutTx, InTx, RevertTx, Tx

(* Changing fields other than the history keeps a document sound. *)
LEMMA FieldsSound ==
  ASSUME NEW acc, Sound(acc), NEW doc \in Account,
         doc.txs = acc.txs, doc.balance = acc.balance
  PROVE  Sound(doc)
BY DEF Sound, BalanceMatches

-----------------------------------------------------------------------------
(* One lemma per group of actions: adjust and addMonthly. *)

LEMMA GateOK ==
  ASSUME DocsOK, RequestsOK, NEW r \in Requests, NEW place \in {"append", "read"},
         Gate(r, place)
  PROVE  DocsOK' /\ RequestsOK'
<1>1. UNCHANGED accounts
  BY DEF Gate, Reject
<1>2. RequestsOK'
  <2>1. CASE \E answer \in Answers : Finish(r, answer)
    BY <2>1, FinishOK
  <2>2. CASE req' = [req EXCEPT ![r].pc = place, ![r].delta = Op(r).amount]
    <3> DEFINE q == [req[r] EXCEPT !.pc = place, !.delta = Op(r).amount]
    <3>1. req[r] \in RequestRecord /\ RequestOK(req[r])
      BY DEF RequestsOK
    <3>2. Op(r).amount \in Int /\ place \in Places
      BY DocFacts, OperationType DEF Places
    <3>3. q \in RequestRecord /\ q.snap = req[r].snap /\ q.pc = place
      BY <3>1, <3>2 DEF RequestRecord
    <3>4. RequestOK(q)
      BY <3>1, <3>3 DEF RequestOK, PlaceOK, TransferPlaces
    <3>5. req' = [req EXCEPT ![r] = q]
      BY <2>2 DEF RequestsOK
    <3> QED  BY <3>4, <3>5, UpdateOK
  <2>3. "not_found" \in Answers /\ "refused" \in Answers
    BY DEF Answers
  <2> QED  BY <2>1, <2>2, <2>3 DEF Gate, Reject
<1> QED
  BY <1>1, <1>2, KeepDocs

LEMMA MonthlyReadOK ==
  ASSUME DocsOK, RequestsOK, NEW r \in Requests, MonthlyRead(r)
  PROVE  DocsOK' /\ RequestsOK'
<1>1. UNCHANGED accounts
  BY DEF MonthlyRead, Reject
<1>2. CASE Reject(r, "not_found")
  BY <1>1, <1>2, FinishOK, KeepDocs DEF Reject, Answers
<1>3. CASE req' = [req EXCEPT ![r].pc = "append",
                              ![r].delta = Source(r).income - Source(r).expense]
  <2> DEFINE delta == Source(r).income - Source(r).expense
             q == [req[r] EXCEPT !.pc = "append", !.delta = delta]
  <2>1. req[r] \in RequestRecord /\ RequestOK(req[r])
    BY DEF RequestsOK
  <2>2. delta \in Int /\ "append" \in Places
    BY DocFacts DEF Sound, Account, Places
  <2> HIDE DEF delta
  <2>3. q \in RequestRecord /\ q.snap = req[r].snap /\ q.pc = "append"
    BY <2>1, <2>2 DEF RequestRecord
  <2>4. RequestOK(q)
    BY <2>1, <2>3 DEF RequestOK, PlaceOK, TransferPlaces
  <2>5. req' = [req EXCEPT ![r] = q]
    BY <1>3 DEF RequestsOK, delta
  <2> QED  BY <1>1, <2>4, <2>5, UpdateOK, KeepDocs
<1> QED
  BY <1>2, <1>3 DEF MonthlyRead

LEMMA AppendStepOK ==
  ASSUME DocsOK, RequestsOK, NEW r \in Requests, AppendStep(r)
  PROVE  DocsOK' /\ RequestsOK'
<1>1. RequestsOK'
  BY FinishOK DEF AppendStep, Reject, Answers
<1>2. CASE UNCHANGED accounts
  BY <1>1, <1>2, KeepDocs
<1>3. CASE \E s \in Stamps(Source(r)) :
             Put(Op(r).acc, AppendTransaction(Source(r),
                              PlainTx(<<r, "single">>, req[r].delta), s))
  <2>1. PICK s \in Stamps(Source(r)) :
             Put(Op(r).acc, AppendTransaction(Source(r),
                              PlainTx(<<r, "single">>, req[r].delta), s))
    BY <1>3
  <2>2. PlainTx(<<r, "single">>, req[r].delta) \in Tx
    BY PlainTxType DEF RequestsOK, RequestRecord
  <2>3. s \in Nat /\ Sound(Source(r)) /\ Op(r).acc \in Accounts
    BY DocFacts, StampType DEF Sound
  <2> QED  BY <1>1, <2>1, <2>2, <2>3, AppendSound, PutOK
<1> QED
  BY <1>2, <1>3 DEF AppendStep, Reject

-----------------------------------------------------------------------------
(* undo *)

LEMMA UndoReadOK ==
  ASSUME DocsOK, RequestsOK, NEW r \in Requests, UndoRead(r)
  PROVE  DocsOK' /\ RequestsOK'
<1>1. DocsOK'
  BY KeepDocs DEF UndoRead
<1>2. CASE \E answer \in Answers : Finish(r, answer)
  BY <1>1, <1>2, FinishOK
<1>3. CASE Remember(r, {Op(r).acc}, "write") /\ Source(r).txs # << >>
  <2>1. "write" \in Places /\ "write" \notin TransferPlaces
    BY DEF Places, TransferPlaces
  <2>2. Op(r).kind # "convert"
    BY DEF UndoRead
  <2>3. {Op(r).acc} \in SUBSET Accounts
    BY DocFacts
  <2> QED  BY <1>1, <1>3, <2>1, <2>2, <2>3, RememberOK
<1>4. "not_found" \in Answers /\ "ok" \in Answers /\ "conflict" \in Answers
  BY DEF Answers
<1> QED
  BY <1>2, <1>3, <1>4 DEF UndoRead

LEMMA UndoRetryOK ==
  ASSUME DocsOK, RequestsOK, NEW r \in Requests, UndoRetry(r)
  PROVE  DocsOK' /\ RequestsOK'
<1>1. "read" \in Places /\ PlaceOK(Op(r), "read", req[r].snap)
  BY DEF Places, PlaceOK, TransferPlaces
<1> QED
  BY <1>1, GotoOK, KeepDocs DEF UndoRetry

LEMMA UndoWriteOK ==
  ASSUME DocsOK, RequestsOK, NEW r \in Requests, UndoWrite(r)
  PROVE  DocsOK' /\ RequestsOK'
<1>1. RequestsOK'
  BY FinishOK DEF UndoWrite, Answers
<1>2. CASE UNCHANGED accounts
  BY <1>1, <1>2, KeepDocs
<1>3. CASE \E s \in Stamps(Source(r)) :
             Put(Op(r).acc, UndoLast(Source(r), req[r].snap[Op(r).acc], s))
  <2>1. PICK s \in Stamps(Source(r)) :
             Put(Op(r).acc, UndoLast(Source(r), req[r].snap[Op(r).acc], s))
    BY <1>3
  <2>2. s \in Nat /\ Sound(Source(r)) /\ Sound(req[r].snap[Op(r).acc])
        /\ Op(r).acc \in Accounts
    BY DocFacts, StampType DEF Sound
  <2>3. req[r].snap[Op(r).acc].txs # << >>
    BY DEF UndoWrite, At, RequestsOK, RequestOK, PlaceOK, Op
  <2> QED  BY <1>1, <2>1, <2>2, <2>3, UndoSound, PutOK
<1> QED
  BY <1>2, <1>3 DEF UndoWrite

-----------------------------------------------------------------------------
(* changeCurrency, the settings, the content, deletion *)

LEMMA CurrencyReadOK ==
  ASSUME DocsOK, RequestsOK, NEW r \in Requests, CurrencyRead(r)
  PROVE  DocsOK' /\ RequestsOK'
<1>1. DocsOK'
  BY KeepDocs DEF CurrencyRead
<1>2. CASE \E answer \in Answers : Finish(r, answer)
  BY <1>1, <1>2, FinishOK
<1>3. "write" \in Places /\ "write" \notin TransferPlaces
  BY DEF Places, TransferPlaces
<1>4. CASE Op(r).kind = "relabel" /\ Goto(r, "write")
  BY <1>1, <1>3, <1>4, GotoOK DEF PlaceOK
<1>5. CASE /\ Op(r).kind = "convert" /\ Rate[Op(r).currency] > 0
           /\ Remember(r, {Op(r).acc}, "write")
  <2> DEFINE snap == [a \in Accounts |-> IF a \in {Op(r).acc} THEN accounts[a]
                                         ELSE req[r].snap[a]]
             q == [req[r] EXCEPT !.pc = "write", !.snap = snap]
  <2>1. req[r] \in RequestRecord /\ RequestOK(req[r])
    BY DEF RequestsOK
  <2>2. /\ snap \in [Accounts -> Account]
        /\ \A a \in Accounts : BalanceMatches(snap[a])
    BY <2>1 DEF DocsOK, BalanceIsSum, RequestOK, RequestRecord
  <2>3. req' = [req EXCEPT ![r] = q]
    BY <1>5 DEF Remember, RequestsOK
  <2> HIDE DEF snap
  <2>4. q \in RequestRecord /\ q.snap = snap /\ q.op = Op(r) /\ q.pc = "write"
    BY <1>3, <2>1, <2>2 DEF RequestRecord, Op
  <2>5. RequestOK(q)
    BY <1>3, <1>5, <2>2, <2>4 DEF RequestOK, PlaceOK
  <2> QED  BY <1>1, <2>3, <2>5, UpdateOK
<1>6. "not_found" \in Answers /\ "ok" \in Answers /\ "refused" \in Answers
  BY DEF Answers
<1> QED
  BY <1>2, <1>4, <1>5, <1>6 DEF CurrencyRead

LEMMA PlainWriteOK ==
  ASSUME DocsOK, RequestsOK, NEW r \in Requests,
         RelabelWrite(r) \/ SettingsWrite(r) \/ ContentWrite(r)
  PROVE  DocsOK' /\ RequestsOK'
<1>1. RequestsOK'
  BY FinishOK DEF RelabelWrite, SettingsWrite, ContentWrite, Reject, Answers
<1>2. CASE UNCHANGED accounts
  BY <1>1, <1>2, KeepDocs
<1> DEFINE acc == Source(r)
<1>3. acc \in Account /\ Sound(acc) /\ Op(r).acc \in Accounts
      /\ \A s \in Stamps(acc) : s \in Nat
  BY DocFacts, StampType DEF Sound
<1>4. /\ Op(r).currency \in Currencies /\ Op(r).selfAdjust \in BOOLEAN
      /\ Op(r).income \in Nat /\ Op(r).expense \in Nat
  BY DocFacts, OperationType
<1>5. ASSUME NEW doc, NEW s \in Stamps(acc),
             \/ doc = [acc EXCEPT !.currency = Op(r).currency, !.stamp = s]
             \/ doc = [acc EXCEPT !.currency = Op(r).currency,
                                  !.selfAdjust = Op(r).selfAdjust, !.stamp = s]
             \/ doc = [acc EXCEPT !.income = Op(r).income,
                                  !.expense = Op(r).expense, !.stamp = s]
      PROVE  Sound(doc)
  <2> HIDE DEF acc
  <2> DEFINE H == Seq(Tx)
  <2>1. Account = [exists: BOOLEAN, currency: Currencies, balance: Int, txs: H,
                   income: Nat, expense: Nat, selfAdjust: BOOLEAN, stamp: Nat]
    BY DEF Account
  <2> HIDE DEF H
  <2>2. doc \in Account /\ doc.txs = acc.txs /\ doc.balance = acc.balance
    BY <1>3, <1>4, <1>5, <2>1
  <2> QED  BY <1>3, <2>2, FieldsSound
<1>6. CASE \E s \in Stamps(acc) : \E doc : Put(Op(r).acc, doc) /\
             \/ doc = [acc EXCEPT !.currency = Op(r).currency, !.stamp = s]
             \/ doc = [acc EXCEPT !.currency = Op(r).currency,
                                  !.selfAdjust = Op(r).selfAdjust, !.stamp = s]
             \/ doc = [acc EXCEPT !.income = Op(r).income,
                                  !.expense = Op(r).expense, !.stamp = s]
  BY <1>1, <1>3, <1>5, <1>6, PutOK
<1> QED
  BY <1>2, <1>6 DEF RelabelWrite, SettingsWrite, ContentWrite, Reject

LEMMA ConvertWriteOK ==
  ASSUME DocsOK, RequestsOK, NEW r \in Requests, ConvertWrite(r)
  PROVE  DocsOK' /\ RequestsOK'
<1>1. RequestsOK'
  <2>1. "ok" \in Answers /\ "conflict" \in Answers /\ "not_found" \in Answers
    BY DEF Answers
  <2>2. \E answer \in Answers : Finish(r, answer)
    BY <2>1 DEF ConvertWrite, Reject
  <2> QED  BY <2>2, FinishOK
<1>2. CASE UNCHANGED accounts
  BY <1>1, <1>2, KeepDocs
<1> DEFINE new(s) == ReplaceMoneyFields(Source(r),
                       Recomputed(req[r].snap[Op(r).acc], Op(r).currency), s)
<1>3. CASE \E s \in Stamps(Source(r)) : Put(Op(r).acc, new(s))
  <2>1. PICK s \in Stamps(Source(r)) : Put(Op(r).acc, new(s))
    BY <1>3
  <2>2. s \in Nat /\ Sound(Source(r)) /\ Sound(req[r].snap[Op(r).acc])
        /\ Op(r).acc \in Accounts /\ Op(r).currency \in Currencies
    BY DocFacts, StampType, OperationType DEF Sound
  <2>3. Rate[Op(r).currency] > 0
    BY DEF ConvertWrite, At, RequestsOK, RequestOK, PlaceOK, Op
  <2>4. Sound(new(s))
    BY <2>2, <2>3, ReplaceSound
  <2> QED  BY <1>1, <2>1, <2>2, <2>4, PutOK
<1> QED
  BY <1>2, <1>3 DEF ConvertWrite, Reject

LEMMA DeleteOK ==
  ASSUME DocsOK, RequestsOK, NEW r \in Requests, DeleteRead(r) \/ DeleteWrite(r)
  PROVE  DocsOK' /\ RequestsOK'
<1>1. CASE DeleteRead(r) /\ Goto(r, "write")
  <2>1. "write" \in Places /\ PlaceOK(Op(r), "write", req[r].snap)
    BY <1>1 DEF Places, PlaceOK, TransferPlaces, DeleteRead
  <2> QED  BY <1>1, <2>1, GotoOK, KeepDocs DEF DeleteRead, Reject
<1>2. CASE DeleteRead(r) /\ Reject(r, "not_found")
  BY <1>2, FinishOK, KeepDocs DEF Reject, Answers
<1>3. CASE DeleteWrite(r)
  BY <1>3, FinishOK, PutOK, GoneSound, DocFacts DEF DeleteWrite, Answers
<1> QED
  BY <1>1, <1>2, <1>3 DEF DeleteRead

-----------------------------------------------------------------------------
(* transfer *)

LEMMA TransferReadsOK ==
  ASSUME DocsOK, RequestsOK, NEW r \in Requests,
         TransferReadFrom(r) \/ TransferReadTo(r) \/ TransferBegin(r)
           \/ TransferRetry(r) \/ ReplayRead(r) \/ ReplayTo(r) \/ LostRace(r)
  PROVE  DocsOK' /\ RequestsOK'
<1>1. DocsOK'
  BY KeepDocs DEF TransferReadFrom, TransferReadTo, TransferBegin,
                  TransferRetry, ReplayRead, ReplayTo, LostRace
<1>2. IsTransfer(Op(r))
  BY DEF TransferReadFrom, TransferReadTo, TransferBegin, TransferRetry,
         ReplayRead, ReplayTo, LostRace, At, RequestsOK, RequestOK, PlaceOK,
         TransferPlaces, Op
<1>3. CASE \E answer \in Answers : Finish(r, answer)
  BY <1>1, <1>3, FinishOK
<1>4. /\ TransferPlaces \subseteq Places /\ "write" \notin TransferPlaces
      /\ {Op(r).acc} \in SUBSET Accounts /\ {Op(r).acc, Op(r).to} \in SUBSET Accounts
  BY <1>2, DocFacts DEF Places, TransferPlaces
<1>5. CASE \E place \in TransferPlaces : Goto(r, place)
  <2>1. PICK place \in TransferPlaces : Goto(r, place)
    BY <1>5
  <2>2. place \in Places /\ PlaceOK(Op(r), place, req[r].snap)
    BY <1>2, <1>4 DEF PlaceOK
  <2> QED  BY <1>1, <2>1, <2>2, GotoOK
<1>6. CASE \E place \in TransferPlaces, names \in SUBSET Accounts :
             Remember(r, names, place)
  <2>1. PICK place \in TransferPlaces, names \in SUBSET Accounts :
             Remember(r, names, place)
    BY <1>6
  <2>2. place \in Places /\ place # "write"
    BY <1>4
  <2> QED  BY <1>1, <1>2, <2>1, <2>2, RememberOK
<1>7. CASE \E place \in {"begin", "debit"} :
             req' = [req EXCEPT ![r].pc = place, ![r].snap = NoSnapshot]
  <2>1. PICK place \in {"begin", "debit"} :
             req' = [req EXCEPT ![r].pc = place, ![r].snap = NoSnapshot]
    BY <1>7
  <2> DEFINE q == [req[r] EXCEPT !.pc = place, !.snap = NoSnapshot]
  <2>2. req[r] \in RequestRecord /\ place \in Places
    BY DEF RequestsOK, Places
  <2>3. q \in RequestRecord /\ q.snap = NoSnapshot /\ q.pc = place /\ q.op = Op(r)
    BY <2>2, NoSnapshotOK DEF RequestRecord, Op
  <2>4. RequestOK(q)
    BY <1>2, <2>3, NoSnapshotOK DEF RequestOK, PlaceOK
  <2>5. req' = [req EXCEPT ![r] = q]
    BY <2>1 DEF RequestsOK
  <2> QED  BY <1>1, <2>4, <2>5, UpdateOK
<1>8. /\ "not_found" \in Answers /\ "refused" \in Answers
      /\ "insufficient" \in Answers /\ "failed" \in Answers
      /\ "replayed" \in Answers
  BY DEF Answers
<1>9. /\ "readTo" \in TransferPlaces /\ "replayTo" \in TransferPlaces
      /\ "replay" \in TransferPlaces /\ "commit" \in TransferPlaces
      /\ "begin" \in TransferPlaces
  BY DEF TransferPlaces
<1>a. CASE TransferReadFrom(r)
  BY <1>a, <1>4, <1>6, <1>9 DEF TransferReadFrom
<1>b. CASE TransferReadTo(r)
  BY <1>b, <1>3, <1>5, <1>7, <1>8, <1>9 DEF TransferReadTo
<1>c. CASE TransferBegin(r)
  BY <1>c, <1>3, <1>4, <1>5, <1>6, <1>8, <1>9 DEF TransferBegin
<1>d. CASE TransferRetry(r) \/ ReplayTo(r) \/ LostRace(r)
  BY <1>d, <1>3, <1>5, <1>8, <1>9 DEF TransferRetry, ReplayTo, LostRace
<1>e. CASE ReplayRead(r)
  BY <1>e, <1>3, <1>4, <1>6, <1>8, <1>9 DEF ReplayRead
<1> QED
  BY <1>a, <1>b, <1>c, <1>d, <1>e

LEMMA TransferCommitOK ==
  ASSUME DocsOK, RequestsOK, NEW r \in Requests, TransferCommit(r)
  PROVE  DocsOK' /\ RequestsOK'
<1>2. IsTransfer(Op(r))
  BY DEF TransferCommit, At, RequestsOK, RequestOK, PlaceOK, TransferPlaces, Op
<1>1. RequestsOK'
  <2> DEFINE q == [req[r] EXCEPT !.pc = "answer", !.snap = NoSnapshot]
  <2>1. req[r] \in RequestRecord /\ "answer" \in Places
    BY DEF RequestsOK, Places
  <2>2. q \in RequestRecord /\ q.snap = NoSnapshot /\ q.pc = "answer" /\ q.op = Op(r)
    BY <2>1, NoSnapshotOK DEF RequestRecord, Op
  <2>3. RequestOK(q)
    BY <1>2, <2>2, NoSnapshotOK DEF RequestOK, PlaceOK
  <2>4. req' = [req EXCEPT ![r] = q]
    BY DEF TransferCommit, RequestsOK
  <2> QED  BY <2>3, <2>4, UpdateOK
<1>3. PICK s \in Stamps(Source(r)), t \in Stamps(Target(r)) :
        accounts' = [accounts EXCEPT
                      ![Op(r).acc] = AppendTransaction(@, OutTx(r), s),
                      ![Op(r).to]  = AppendTransaction(@, InTx(r), t)]
  BY DEF TransferCommit
<1>4. /\ Op(r).acc \in Accounts /\ Op(r).to \in Accounts /\ Op(r).to # Op(r).acc
      /\ Sound(Source(r)) /\ Sound(Target(r)) /\ s \in Nat /\ t \in Nat
      /\ OutTx(r) \in Tx /\ InTx(r) \in Tx
  BY <1>2, DocFacts, StampType, LegTypes, AccountsAssumption DEF Sound
<1> DEFINE from == AppendTransaction(Source(r), OutTx(r), s)
           to == AppendTransaction(Target(r), InTx(r), t)
<1>5. Sound(from) /\ Sound(to)
  BY <1>4, AppendSound
<1>6. accounts' = [[accounts EXCEPT ![Op(r).acc] = from] EXCEPT ![Op(r).to] = to]
  BY <1>3, <1>4 DEF Source, Target, DocsOK
<1> HIDE DEF from, to
<1>7. accounts' \in [Accounts -> Account]
      /\ \A a \in Accounts : BalanceMatches(accounts'[a])
  BY <1>4, <1>5, <1>6 DEF DocsOK, BalanceIsSum, Sound
<1>8. DocsOK'
  BY <1>7 DEF DocsOK, BalanceIsSum, BalanceMatches
<1> QED
  BY <1>1, <1>8

LEMMA FallbackOK ==
  ASSUME DocsOK, RequestsOK, NEW r \in Requests,
         TransferDebit(r) \/ TransferCredit(r) \/ FreeNonce(r) \/ TransferRevert(r)
  PROVE  DocsOK' /\ RequestsOK'
<1>1. IsTransfer(Op(r))
  BY DEF TransferDebit, TransferCredit, FreeNonce, TransferRevert, At,
         RequestsOK, RequestOK, PlaceOK, TransferPlaces, Op
<1>2. /\ Op(r).acc \in Accounts /\ Op(r).to \in Accounts
      /\ Sound(Source(r)) /\ Sound(Target(r))
      /\ \A s \in Stamps(Source(r)) : s \in Nat
      /\ \A s \in Stamps(Target(r)) : s \in Nat
      /\ OutTx(r) \in Tx /\ InTx(r) \in Tx /\ RevertTx(r) \in Tx
  BY <1>1, DocFacts, StampType, LegTypes DEF Sound
<1>3. RequestsOK'
  <2>1. CASE \E answer \in Answers : Finish(r, answer)
    BY <2>1, FinishOK
  <2>2. CASE \E place \in TransferPlaces : Goto(r, place)
    <3>1. PICK place \in TransferPlaces : Goto(r, place)
      BY <2>2
    <3>2. place \in Places /\ PlaceOK(Op(r), place, req[r].snap)
      BY <1>1 DEF PlaceOK, TransferPlaces, Places
    <3> QED  BY <3>1, <3>2, GotoOK
  <2>3. /\ "answer" \in TransferPlaces /\ "insufficient" \in Answers
        /\ "failed" \in Answers
        /\ "repair" \in Answers /\ "credit" \in TransferPlaces /\ "lost" \in TransferPlaces
        /\ "clear" \in TransferPlaces /\ "revert" \in TransferPlaces
    BY DEF Answers, TransferPlaces
  <2> QED
    BY <2>1, <2>2, <2>3 DEF TransferDebit, TransferCredit, FreeNonce, TransferRevert,
                             Reject
<1>4. CASE UNCHANGED accounts
  BY <1>3, <1>4, KeepDocs
<1>5. ASSUME NEW a \in Accounts, NEW doc, Sound(doc), Put(a, doc)
      PROVE  DocsOK' /\ RequestsOK'
  BY <1>3, <1>5, PutOK
<1>6. CASE \E s \in Stamps(Source(r)) :
             Put(Op(r).acc, AppendTransaction(Source(r), OutTx(r), s))
  BY <1>2, <1>5, <1>6, AppendSound
<1>7. CASE \E s \in Stamps(Target(r)) :
             Put(Op(r).to, AppendTransaction(Target(r), InTx(r), s))
  BY <1>2, <1>5, <1>7, AppendSound
<1>8. CASE \E s \in Stamps(Source(r)) :
             Put(Op(r).acc, ClearTransactionNonce(Source(r), <<r, "out">>, s))
  BY <1>2, <1>5, <1>8, ClearNonceSound
<1>9. CASE \E s \in Stamps(Source(r)) :
             Put(Op(r).acc, AppendTransaction(Source(r), RevertTx(r), s))
  BY <1>2, <1>5, <1>9, AppendSound
<1> QED
  BY <1>4, <1>6, <1>7, <1>8, <1>9
     DEF TransferDebit, TransferCredit, FreeNonce, TransferRevert, Reject

-----------------------------------------------------------------------------
LEMMA InitConsistent == Init => Consistent
<1> SUFFICES ASSUME Init PROVE Consistent
  OBVIOUS
<1>1. DocsOK
  BY AccountsAssumption DEF Init, DocsOK, BalanceIsSum
<1>2. ASSUME NEW r \in Requests PROVE RequestOK(req[r])
  <2>1. /\ req[r].op \in Operations /\ req[r].pc = "start" /\ req[r].delta = 0
        /\ req[r].snap = NoSnapshot /\ req[r].answer = "none"
        /\ req[r] \in [op: Operations, pc: {"start"}, delta: {0},
                       snap: {NoSnapshot}, answer: {"none"}]
    BY DEF Init
  <2>2. "start" \in Places /\ "none" \in Answers /\ 0 \in Int
    BY DEF Places, Answers
  <2>3. req[r] \in RequestRecord
    BY <2>1, <2>2, NoSnapshotOK DEF RequestRecord
  <2> QED
    BY <2>1, <2>3, NoSnapshotOK DEF RequestOK, PlaceOK, TransferPlaces
<1>3. req \in [Requests -> RequestRecord]
  BY <1>2 DEF Init, RequestOK
<1> QED
  BY <1>1, <1>2, <1>3 DEF Consistent, RequestsOK

LEMMA NextConsistent == Consistent /\ [Next]_vars => Consistent'
<1> SUFFICES ASSUME DocsOK, RequestsOK, [Next]_vars PROVE DocsOK' /\ RequestsOK'
  BY DEF Consistent
<1>1. CASE UNCHANGED vars
  <2>1. DocsOK'
    BY <1>1, KeepDocs DEF vars
  <2>2. RequestsOK'
    BY <1>1 DEF vars, RequestsOK, RequestOK
  <2> QED  BY <2>1, <2>2
<1>2. ASSUME NEW r \in Requests, Step(r) PROVE DocsOK' /\ RequestsOK'
  <2>1. CASE AdjustGate(r)
    BY <2>1, GateOK DEF AdjustGate
  <2>2. CASE MonthlyRead(r)
    BY <2>2, MonthlyReadOK
  <2>3. CASE AppendStep(r)
    BY <2>3, AppendStepOK
  <2>4. CASE UndoGate(r)
    BY <2>4, GateOK DEF UndoGate
  <2>5. CASE UndoRead(r)
    BY <2>5, UndoReadOK
  <2>6. CASE UndoRetry(r)
    BY <2>6, UndoRetryOK
  <2>7. CASE UndoWrite(r)
    BY <2>7, UndoWriteOK
  <2>8. CASE CurrencyRead(r)
    BY <2>8, CurrencyReadOK
  <2>9. CASE RelabelWrite(r) \/ SettingsWrite(r) \/ ContentWrite(r)
    BY <2>9, PlainWriteOK
  <2>10. CASE ConvertWrite(r)
    BY <2>10, ConvertWriteOK
  <2>11. CASE DeleteRead(r) \/ DeleteWrite(r)
    BY <2>11, DeleteOK
  <2>12. CASE TransferReadFrom(r) \/ TransferReadTo(r) \/ TransferBegin(r)
              \/ TransferRetry(r) \/ ReplayRead(r) \/ ReplayTo(r) \/ LostRace(r)
    BY <2>12, TransferReadsOK
  <2>13. CASE TransferCommit(r)
    BY <2>13, TransferCommitOK
  <2>14. CASE TransferDebit(r) \/ TransferCredit(r) \/ FreeNonce(r)
              \/ TransferRevert(r)
    BY <2>14, FallbackOK
  <2>15. CASE AnswerTransfer(r)
    BY <2>15, FinishOK, KeepDocs DEF AnswerTransfer, Answers
  <2> QED
    BY <1>2, <2>1, <2>2, <2>3, <2>4, <2>5, <2>6, <2>7, <2>8, <2>9, <2>10,
       <2>11, <2>12, <2>13, <2>14, <2>15 DEF Step
<1>3. ASSUME NEW r \in Requests, Crash(r) PROVE DocsOK' /\ RequestsOK'
  BY <1>3, FinishOK, KeepDocs DEF Crash, Answers
<1> QED
  BY <1>1, <1>2, <1>3 DEF Next

THEOREM AlwaysConsistent == Spec => []Consistent
BY InitConsistent, NextConsistent, PTL DEF Spec

(* Documents and requests keep their types. *)
THEOREM TypeCorrect == Spec => []TypeOK
<1>1. Consistent => TypeOK
  BY DEF Consistent, DocsOK, RequestsOK, RequestRecord, TypeOK
<1> QED
  BY <1>1, AlwaysConsistent, PTL

(* Whatever interleaves, crashes or fails, balance = sum of deltas. *)
THEOREM BalanceAlwaysSum == Spec => []BalanceIsSum
<1>1. Consistent => BalanceIsSum
  BY DEF Consistent, DocsOK
<1> QED
  BY <1>1, AlwaysConsistent, PTL

-----------------------------------------------------------------------------
(***************************************************************************)
(* What a step does to one document.  The stamp moves with every write, so *)
(* it tells whether the document a request read is still there; the        *)
(* history keeps its entries, gains one at the end or loses the last one;  *)
(* only deleteAccount takes a document away.                               *)
(***************************************************************************)

(* The entries a transfer writes. *)
MoneyLegs == {"out", "in", "revert"}

(* The same history up to amounts; only the fallback clears nonces. *)
SameEntries(s, t) ==
  /\ Len(t) = Len(s)
  /\ \A i \in 1..Len(s) :
       /\ t[i].id = s[i].id /\ t[i].ref = s[i].ref
       /\ t[i].nonce = s[i].nonce \/ (~ReplicaSet /\ t[i].nonce = NoNonce)

(* A document written to, with a later timestamp. *)
Advanced(a) ==
  accounts[a].exists /\ accounts'[a].exists /\ accounts'[a].stamp > accounts[a].stamp

Rewritten(a) == Advanced(a) /\ SameEntries(accounts[a].txs, accounts'[a].txs)

Added(a, tx) == Advanced(a) /\ accounts'[a].txs = Append(accounts[a].txs, tx)

TakenOff(a) ==
  /\ Advanced(a) /\ accounts[a].txs # << >>
  /\ Last(accounts[a].txs).ref = NoAccount
  /\ accounts'[a].txs = Front(accounts[a].txs)

Closed(a) ==
  accounts'[a] = Gone /\ \E r \in Requests : DeleteWrite(r) /\ Op(r).acc = a

(* One step's effect on a document; `new' are the entries it may append. *)
Changed(a, new) ==
  \/ accounts'[a] = accounts[a]
  \/ Rewritten(a) \/ TakenOff(a) \/ Closed(a)
  \/ \E tx \in new : Added(a, tx)

(* What r may append: an entry of its own, or a leg of its transfer. *)
PlainTxs(r) == {tx \in Tx : tx.id = <<r, "single">> /\ tx.nonce = NoNonce}

LegTxs(r) == {tx \in Tx : tx.id \in {r} \X MoneyLegs /\ tx.ref # NoAccount}

(* r leaves all legs alone; r writes at most its own legs. *)
Quiet(a, r) == Changed(a, PlainTxs(r))

Written(a, r) == Changed(a, PlainTxs(r) \cup LegTxs(r))

(* A leg names the other account, which keeps undo away from it. *)
LegsLinked ==
  \A a \in Accounts : \A i \in DOMAIN accounts[a].txs :
    accounts[a].txs[i].id \in Requests \X MoneyLegs =>
      accounts[a].txs[i].ref # NoAccount

(* An account that is gone has no legs. *)
GoneBare ==
  \A a \in Accounts : ~accounts[a].exists =>
    TxsById(accounts[a]) \cap (Requests \X MoneyLegs) = {}

LEMMA AppendIs ==
  ASSUME NEW txs \in Seq(Tx), NEW tx \in Tx, NEW new, new = Append(txs, tx)
  PROVE  /\ Len(txs) \in Nat /\ DOMAIN txs = 1..Len(txs)
         /\ Len(new) = Len(txs) + 1 /\ DOMAIN new = 1..(Len(txs) + 1)
         /\ \A i \in 1..Len(txs) : new[i] = txs[i]
         /\ new[Len(txs) + 1] = tx
<1>1. Len(txs) \in Nat /\ DOMAIN txs = 1..Len(txs)
  BY LenProperties
<1>2. new \in Seq(Tx) /\ Len(new) = Len(txs) + 1
      /\ \A i \in 1..Len(txs) : new[i] = txs[i]
  BY AppendProperties
<1>3. new[Len(txs) + 1] = tx
  BY AppendProperties
<1>4. DOMAIN new = 1..Len(new)
  BY <1>2, LenProperties
<1> QED
  BY <1>1, <1>2, <1>3, <1>4

LEMMA FrontIs ==
  ASSUME NEW txs \in Seq(Tx), txs # << >>, NEW new, new = Front(txs)
  PROVE  /\ Len(txs) \in Nat \ {0} /\ DOMAIN txs = 1..Len(txs)
         /\ new \in Seq(Tx)
         /\ Len(new) = Len(txs) - 1 /\ DOMAIN new = 1..(Len(txs) - 1)
         /\ \A i \in 1..(Len(txs) - 1) : new[i] = txs[i]
         /\ txs[Len(txs)] = Last(txs)
<1>1. Len(txs) \in Nat \ {0} /\ DOMAIN txs = 1..Len(txs)
  BY LenProperties, EmptySeq
<1>2. 1 \in 1..(Len(txs) + 1) /\ Len(txs) - 1 \in (1 - 1)..Len(txs)
  BY <1>1
<1>3. /\ new \in Seq(Tx) /\ Len(new) = Len(txs) - 1
      /\ \A i \in 1..(Len(txs) - 1) : new[i] = txs[i]
  BY <1>1, <1>2, SubSeqProperties DEF Front
<1>4. DOMAIN new = 1..Len(new)
  BY <1>3, LenProperties
<1> QED
  BY <1>1, <1>3, <1>4 DEF Last

-----------------------------------------------------------------------------
(* What such a change means for entries, legs and deleted accounts. *)

LEMMA ChangedForward ==
  ASSUME NEW a, NEW new, Changed(a, new), accounts'[a].exists
  PROVE  /\ accounts[a].exists
         /\ accounts'[a] = accounts[a] \/ accounts'[a].stamp > accounts[a].stamp
<1>1. ~Gone.exists
  BY DEF Gone
<1> QED
  BY <1>1 DEF Changed, Closed, Rewritten, TakenOff, Added, Advanced

(* Where the entries of a history come from, and what becomes of them. *)
LEMMA ChangedEntries ==
  ASSUME DocsOK, DocsOK', NEW a \in Accounts, NEW more \in SUBSET Tx,
         Changed(a, more)
  PROVE  /\ \A i \in DOMAIN accounts'[a].txs :
              \/ \E j \in DOMAIN accounts[a].txs :
                   /\ accounts'[a].txs[i].id = accounts[a].txs[j].id
                   /\ accounts'[a].txs[i].ref = accounts[a].txs[j].ref
                   /\ \/ accounts'[a].txs[i].nonce = accounts[a].txs[j].nonce
                      \/ ~ReplicaSet /\ accounts'[a].txs[i].nonce = NoNonce
              \/ Advanced(a) /\ accounts'[a].txs[i] \in more
         /\ accounts'[a].exists =>
              \A j \in DOMAIN accounts[a].txs :
                \/ accounts[a].txs[j].ref = NoAccount
                \/ \E i \in DOMAIN accounts'[a].txs :
                     accounts'[a].txs[i].id = accounts[a].txs[j].id
<1> DEFINE old == accounts[a].txs
           new == accounts'[a].txs
<1>1. old \in Seq(Tx) /\ new \in Seq(Tx)
  BY DEF DocsOK, Account
<1>2. /\ Len(old) \in Nat /\ DOMAIN old = 1..Len(old)
      /\ Len(new) \in Nat /\ DOMAIN new = 1..Len(new)
  BY <1>1, LenProperties
<1>3. CASE accounts'[a] = accounts[a]
  BY <1>3
<1>4. CASE Rewritten(a)
  <2>1. SameEntries(old, new)
    BY <1>4 DEF Rewritten
  <2> QED  BY <1>2, <2>1 DEF SameEntries
<1>5. CASE TakenOff(a)
  <2>1. old # << >> /\ new = Front(old) /\ Last(old).ref = NoAccount
    BY <1>5 DEF TakenOff
  <2> HIDE DEF old, new
  <2>2. /\ Len(old) \in Nat \ {0} /\ DOMAIN new = 1..(Len(old) - 1)
        /\ \A i \in 1..(Len(old) - 1) : new[i] = old[i]
        /\ old[Len(old)].ref = NoAccount
    BY <1>1, <2>1, FrontIs
  <2>3. \A i \in DOMAIN new : i \in DOMAIN old /\ new[i] = old[i]
    BY <1>2, <2>2
  <2>4. \A j \in DOMAIN old : old[j].ref = NoAccount \/ j \in DOMAIN new
    BY <1>2, <2>2
  <2> QED  BY <2>3, <2>4 DEF old, new
<1>6. CASE accounts'[a] = Gone
  <2>1. ~accounts'[a].exists /\ new = << >>
    BY <1>6 DEF Gone
  <2>2. DOMAIN new = {}
    BY <1>2, <2>1, EmptySeq
  <2> QED  BY <2>1, <2>2
<1>7. CASE \E tx \in more : Added(a, tx)
  <2>1. PICK tx \in more : Added(a, tx)
    BY <1>7
  <2>2. new = Append(old, tx) /\ Advanced(a) /\ tx \in Tx
    BY <2>1 DEF Added
  <2> HIDE DEF old, new
  <2>3. /\ DOMAIN new = 1..(Len(old) + 1) /\ new[Len(old) + 1] = tx
        /\ \A i \in 1..Len(old) : new[i] = old[i]
    BY <1>1, <2>2, AppendIs
  <2>4. \A i \in DOMAIN new : (i \in DOMAIN old /\ new[i] = old[i]) \/ new[i] = tx
    BY <1>2, <2>3
  <2>5. \A j \in DOMAIN old : j \in DOMAIN new /\ new[j] = old[j]
    BY <1>2, <2>3
  <2> QED  BY <2>1, <2>2, <2>4, <2>5 DEF old, new
<1> QED
  BY <1>3, <1>4, <1>5, <1>6, <1>7 DEF Changed, Closed

(* Legs stay while the account lives; only new entries bring more of them. *)
LEMMA ChangedLegs ==
  ASSUME DocsOK, DocsOK', LegsLinked, NEW a \in Accounts,
         NEW more \in SUBSET Tx, Changed(a, more),
         NEW q \in Requests, NEW leg \in MoneyLegs
  PROVE  /\ accounts'[a].exists /\ HasLeg(accounts[a], q, leg)
              => HasLeg(accounts'[a], q, leg)
         /\ HasLeg(accounts'[a], q, leg)
              => \/ HasLeg(accounts[a], q, leg)
                 \/ Advanced(a) /\ \E tx \in more : tx.id = <<q, leg>>
<1>1. ASSUME accounts'[a].exists, HasLeg(accounts[a], q, leg)
      PROVE  HasLeg(accounts'[a], q, leg)
  <2>1. PICK j \in DOMAIN accounts[a].txs : accounts[a].txs[j].id = <<q, leg>>
    BY <1>1 DEF HasLeg, TxsById
  <2>2. accounts[a].txs[j].ref # NoAccount
    <3>1. <<q, leg>> \in Requests \X MoneyLegs
      OBVIOUS
    <3> QED  BY <2>1, <3>1 DEF LegsLinked
  <2>3. PICK i \in DOMAIN accounts'[a].txs :
          accounts'[a].txs[i].id = accounts[a].txs[j].id
    BY <1>1, <2>2, ChangedEntries
  <2> QED  BY <2>1, <2>3 DEF HasLeg, TxsById
<1>2. ASSUME HasLeg(accounts'[a], q, leg)
      PROVE  \/ HasLeg(accounts[a], q, leg)
             \/ Advanced(a) /\ \E tx \in more : tx.id = <<q, leg>>
  <2>1. PICK i \in DOMAIN accounts'[a].txs : accounts'[a].txs[i].id = <<q, leg>>
    BY <1>2 DEF HasLeg, TxsById
  <2>2. CASE \E j \in DOMAIN accounts[a].txs : accounts[a].txs[j].id = <<q, leg>>
    BY <2>2 DEF HasLeg, TxsById
  <2> QED  BY <2>1, <2>2, ChangedEntries
<1> QED
  BY <1>1, <1>2

LEMMA NewTxs ==
  ASSUME NEW r
  PROVE  PlainTxs(r) \in SUBSET Tx /\ PlainTxs(r) \cup LegTxs(r) \in SUBSET Tx
BY DEF PlainTxs, LegTxs

(* What one request writes leaves the legs of all others alone. *)
LEMMA WrittenLegs ==
  ASSUME DocsOK, DocsOK', LegsLinked, NEW a \in Accounts,
         NEW r \in Requests, NEW q \in Requests, NEW leg \in MoneyLegs
  PROVE  /\ Written(a, r) /\ accounts'[a].exists /\ HasLeg(accounts[a], q, leg)
              => HasLeg(accounts'[a], q, leg)
         /\ Written(a, r) /\ q # r /\ HasLeg(accounts'[a], q, leg)
              => HasLeg(accounts[a], q, leg)
         /\ Quiet(a, r) /\ HasLeg(accounts'[a], q, leg)
              => HasLeg(accounts[a], q, leg)
<1>1. leg # "single"
  BY DEF MoneyLegs
<1>2. ASSUME NEW tx \in PlainTxs(r) PROVE tx.id # <<q, leg>>
  BY <1>1, <1>2 DEF PlainTxs
<1>3. ASSUME q # r, NEW tx \in LegTxs(r) PROVE tx.id # <<q, leg>>
  BY <1>3 DEF LegTxs
<1>4. ASSUME Written(a, r), accounts'[a].exists, HasLeg(accounts[a], q, leg)
      PROVE  HasLeg(accounts'[a], q, leg)
  BY <1>4, NewTxs, ChangedLegs DEF Written
<1>5. ASSUME Written(a, r), q # r, HasLeg(accounts'[a], q, leg)
      PROVE  HasLeg(accounts[a], q, leg)
  BY <1>2, <1>3, <1>5, NewTxs, ChangedLegs DEF Written
<1>6. ASSUME Quiet(a, r), HasLeg(accounts'[a], q, leg)
      PROVE  HasLeg(accounts[a], q, leg)
  BY <1>2, <1>6, NewTxs, ChangedLegs DEF Quiet
<1> QED
  BY <1>4, <1>5, <1>6

LEMMA LegsStayLinked ==
  ASSUME DocsOK, DocsOK', LegsLinked, NEW r \in Requests,
         \A a \in Accounts : Written(a, r)
  PROVE  LegsLinked'
<1> SUFFICES ASSUME NEW a \in Accounts, NEW i \in DOMAIN accounts'[a].txs,
                    accounts'[a].txs[i].id \in Requests \X MoneyLegs
             PROVE  accounts'[a].txs[i].ref # NoAccount
  BY DEF LegsLinked
<1>1. CASE \E j \in DOMAIN accounts[a].txs :
             /\ accounts'[a].txs[i].id = accounts[a].txs[j].id
             /\ accounts'[a].txs[i].ref = accounts[a].txs[j].ref
  BY <1>1 DEF LegsLinked
<1>2. CASE accounts'[a].txs[i] \in PlainTxs(r) \cup LegTxs(r)
  <2>1. <<r, "single">> \notin Requests \X MoneyLegs
    BY DEF MoneyLegs
  <2>2. accounts'[a].txs[i] \in LegTxs(r)
    BY <1>2, <2>1 DEF PlainTxs
  <2> QED  BY <2>2 DEF LegTxs
<1> QED
  BY <1>1, <1>2, NewTxs, ChangedEntries DEF Written

LEMMA GoneStayBare ==
  ASSUME DocsOK, DocsOK', GoneBare, NEW r \in Requests,
         \A a \in Accounts : Written(a, r)
  PROVE  GoneBare'
<1> SUFFICES ASSUME NEW a \in Accounts, ~accounts'[a].exists
             PROVE  TxsById(accounts'[a]) \cap (Requests \X MoneyLegs) = {}
  BY DEF GoneBare, TxsById
<1>1. CASE accounts'[a] = accounts[a]
  BY <1>1 DEF GoneBare
<1>2. CASE accounts'[a] = Gone
  <2>1. Gone.txs = << >>
    BY DEF Gone
  <2>2. TxsById(accounts'[a]) = {}
    BY <1>2, <2>1, EmptySeq DEF TxsById
  <2> QED  BY <2>2
<1> QED
  BY <1>1, <1>2 DEF Written, Changed, Closed, Rewritten, TakenOff, Added, Advanced

-----------------------------------------------------------------------------
(* ... and for the order of the history. *)

LEMMA IdsFront ==
  ASSUME NEW s, NEW n \in Nat, s \in [1..(n + 1) -> TxIds]
  PROVE  Front(s) = [i \in 1..n |-> s[i]]
<1>1. s \in Seq(TxIds) /\ Len(s) = n + 1 /\ DOMAIN s = 1..(n + 1)
  <2>1. n + 1 \in Nat
    OBVIOUS
  <2>2. s \in Seq(TxIds)
    BY <2>1, IsASeq
  <2> QED  BY <2>1, <2>2, LenProperties
<1>2. \A i \in 1..n : s[i] \in TxIds
  OBVIOUS
<1>3. Front(s) = SubSeq(s, 1, n)
  BY <1>1 DEF Front
<1>4. /\ Front(s) \in Seq(TxIds) /\ Len(Front(s)) = n
      /\ \A i \in 1..n : Front(s)[i] = s[i]
  <2>1. /\ SubSeq(s, 1, n) \in Seq(TxIds)
        /\ Len(SubSeq(s, 1, n)) = IF 1 <= n THEN n - 1 + 1 ELSE 0
        /\ \A i \in 1..(n - 1 + 1) : SubSeq(s, 1, n)[i] = s[1 + i - 1]
    BY <1>2, SubSeqProperties
  <2>2. n - 1 + 1 = n /\ \A i \in 1..n : 1 + i - 1 = i
    OBVIOUS
  <2> QED  BY <1>3, <2>1, <2>2
<1>5. Front(s) \in [1..n -> TxIds]
  BY <1>4, LenProperties
<1> QED
  BY <1>4, <1>5

LEMMA ChangedHistory ==
  ASSUME DocsOK, DocsOK', NEW a \in Accounts, NEW more \in SUBSET Tx,
         Changed(a, more), Survives(a)
  PROVE  HistoryStep(a)
<1> DEFINE old == accounts[a].txs
           new == accounts'[a].txs
           ids == Ids(accounts[a])
           nextIds == Ids(accounts'[a])
<1>1. old \in Seq(Tx) /\ new \in Seq(Tx)
  BY DEF DocsOK, Account
<1>2. /\ Len(old) \in Nat /\ DOMAIN old = 1..Len(old)
      /\ Len(new) \in Nat /\ DOMAIN new = 1..Len(new)
  BY <1>1, LenProperties
<1>3. /\ ids = [i \in 1..Len(old) |-> old[i].id]
      /\ nextIds = [i \in 1..Len(new) |-> new[i].id]
  BY <1>2 DEF Ids
<1>4. /\ \A i \in 1..Len(old) : old[i].id \in TxIds
      /\ \A i \in 1..Len(new) : new[i].id \in TxIds
  <2> HIDE DEF old, new
  <2>1. /\ \A i \in 1..Len(old) : old[i] \in Tx
        /\ \A i \in 1..Len(new) : new[i] \in Tx
    BY <1>1, <1>2, ElementOfSeq
  <2> QED  BY <2>1 DEF Tx
<1>5. SUFFICES \/ nextIds = ids
               \/ nextIds # << >> /\ Front(nextIds) = ids
               \/ ids # << >> /\ Front(ids) = nextIds
  BY DEF HistoryStep
<1>6. CASE accounts'[a] = accounts[a]
  BY <1>6
<1>7. CASE Rewritten(a)
  <2>1. Len(new) = Len(old) /\ \A i \in 1..Len(old) : new[i].id = old[i].id
    BY <1>7 DEF Rewritten, SameEntries
  <2> QED  BY <1>3, <2>1
<1>8. CASE TakenOff(a)
  <2>1. old # << >> /\ new = Front(old)
    BY <1>8 DEF TakenOff
  <2> HIDE DEF old, new, ids, nextIds
  <2>2. /\ Len(old) \in Nat \ {0} /\ Len(new) = Len(old) - 1
        /\ \A i \in 1..Len(new) : new[i] = old[i]
    <3>1. /\ Len(old) \in Nat \ {0} /\ Len(new) = Len(old) - 1
          /\ \A i \in 1..(Len(old) - 1) : new[i] = old[i]
      BY <1>1, <2>1, FrontIs
    <3> QED  BY <3>1
  <2>3. ids \in [1..(Len(new) + 1) -> TxIds] /\ Len(new) \in Nat
    BY <1>2, <1>3, <1>4, <2>2
  <2>4. Front(ids) = [i \in 1..Len(new) |-> ids[i]]
    BY <2>3, IdsFront
  <2>5. [i \in 1..Len(new) |-> ids[i]] = nextIds
    BY <1>2, <1>3, <2>2
  <2>6. ids # << >>
    <3>1. 1 \in DOMAIN ids /\ DOMAIN << >> = {}
      BY <2>3
    <3> QED  BY <3>1
  <2> QED  BY <2>4, <2>5, <2>6
<1>9. CASE accounts'[a] = Gone
  BY <1>9 DEF Gone, Survives
<1>10. CASE \E tx \in more : Added(a, tx)
  <2>1. PICK tx \in more : Added(a, tx)
    BY <1>10
  <2>2. new = Append(old, tx) /\ tx \in Tx
    BY <2>1 DEF Added
  <2> HIDE DEF old, new, ids, nextIds
  <2>3. /\ Len(new) = Len(old) + 1
        /\ \A i \in 1..Len(old) : new[i] = old[i]
    BY <1>1, <2>2, AppendIs
  <2>4. nextIds \in [1..(Len(old) + 1) -> TxIds]
    BY <1>2, <1>3, <1>4, <2>3
  <2>5. Front(nextIds) = [i \in 1..Len(old) |-> nextIds[i]]
    BY <1>2, <2>4, IdsFront
  <2>6. [i \in 1..Len(old) |-> nextIds[i]] = ids
    BY <1>2, <1>3, <2>3
  <2>7. nextIds # << >>
    <3>1. 1 \in DOMAIN nextIds /\ DOMAIN << >> = {}
      BY <1>2, <2>4
    <3> QED  BY <3>1
  <2> QED  BY <2>5, <2>6, <2>7
<1> QED
  BY <1>6, <1>7, <1>8, <1>9, <1>10 DEF Changed, Closed

-----------------------------------------------------------------------------
(***************************************************************************)
(* Every step changes documents this way.  Serial is what that needs: two  *)
(* writes carry different timestamps, and undo either runs in a            *)
(* transaction or is not among the operations.                             *)
(***************************************************************************)

Serial ==
  /\ ~SameMillisecond
  /\ ReplicaSet \/ \A op \in Operations : op.kind # "undo"

(* What a request holds at each place; q is its record, docs the accounts. *)
HeldOK(q, docs) ==
  LET acc == docs[q.op.acc]
      read == q.snap[q.op.acc]
  IN
  /\ q.pc = "done" <=> q.answer # "none"
  /\ q.pc = "append" => ~IsTransfer(q.op)
  /\ q.pc = "write" /\ q.op.kind = "convert" /\ acc.exists =>
       read.stamp <= acc.stamp /\ (read.stamp = acc.stamp => read.txs = acc.txs)
  /\ q.pc = "write" /\ q.op.kind = "undo" => Last(read.txs).ref = NoAccount
  /\ q.pc = "commit" =>
       /\ read.exists /\ q.snap[q.op.to].exists
       /\ q.op.nonce # NoNonce => ~HasNonce(read, q.op.nonce)
  /\ q.pc \in {"begin", "commit"} => ReplicaSet
  /\ q.pc \in {"debit", "lost", "credit", "clear", "revert"} => ~ReplicaSet
  /\ q.pc \in {"lost", "replay"} => q.op.nonce # NoNonce

AllHeld == \A r \in Requests : HeldOK(req[r], accounts)

MoneySteps(r) ==
  TransferCommit(r) \/ TransferDebit(r) \/ TransferCredit(r) \/ TransferRevert(r)

LEMMA PutIs ==
  ASSUME DocsOK, NEW a \in Accounts, NEW doc, Put(a, doc)
  PROVE  accounts'[a] = doc /\ \A b \in Accounts : b # a => accounts'[b] = accounts[b]
BY DEF DocsOK, Put

LEMMA LaterStamp ==
  ASSUME ~SameMillisecond, NEW acc \in Account, NEW s \in Stamps(acc)
  PROVE  s \in Nat /\ s > acc.stamp
BY DEF Stamps, Account

LEMMA AppendFields ==
  ASSUME NEW acc \in Account, NEW tx, NEW s
  PROVE  /\ AppendTransaction(acc, tx, s).txs = Append(acc.txs, tx)
         /\ AppendTransaction(acc, tx, s).exists = acc.exists
         /\ AppendTransaction(acc, tx, s).stamp = s
BY DEF AppendTransaction, Account

LEMMA AppendAdds ==
  ASSUME DocsOK, ~SameMillisecond, NEW a \in Accounts, accounts[a].exists,
         NEW tx, NEW s \in Stamps(accounts[a]),
         accounts'[a] = AppendTransaction(accounts[a], tx, s)
  PROVE  Added(a, tx)
<1>1. accounts[a] \in Account
  BY DEF DocsOK
<1>2. s \in Nat /\ s > accounts[a].stamp
  BY <1>1, LaterStamp
<1> QED
  BY <1>1, <1>2, AppendFields DEF Added, Advanced

LEMMA QuietIfSame ==
  ASSUME NEW r, NEW a, accounts'[a] = accounts[a]
  PROVE  Quiet(a, r)
BY DEF Quiet, Changed

LEMMA AppendStepQuiet ==
  ASSUME DocsOK, RequestsOK, ~SameMillisecond, NEW r \in Requests, AppendStep(r)
  PROVE  \A a \in Accounts : Quiet(a, r)
<1>1. CASE UNCHANGED accounts
  BY <1>1, QuietIfSame
<1>2. CASE /\ Source(r).exists
           /\ \E s \in Stamps(Source(r)) :
                Put(Op(r).acc, AppendTransaction(Source(r),
                                 PlainTx(<<r, "single">>, req[r].delta), s))
  <2> DEFINE tx == PlainTx(<<r, "single">>, req[r].delta)
  <2>1. PICK s \in Stamps(Source(r)) :
             Put(Op(r).acc, AppendTransaction(Source(r), tx, s))
    BY <1>2
  <2>2. tx \in Tx
    BY PlainTxType DEF RequestsOK, RequestRecord
  <2>3. tx \in PlainTxs(r)
    BY <2>2 DEF PlainTxs, PlainTx
  <2> HIDE DEF tx
  <2>4. Op(r).acc \in Accounts
    BY DocFacts
  <2>5. Added(Op(r).acc, tx)
    BY <1>2, <2>1, <2>4, PutIs, AppendAdds DEF Source
  <2> QED  BY <2>1, <2>3, <2>4, <2>5, PutIs DEF Quiet, Changed
<1> QED
  BY <1>1, <1>2 DEF AppendStep, Reject

LEMMA RewriteQuiet ==
  ASSUME DocsOK, DocsOK', NEW r, NEW a \in Accounts, NEW doc, Put(a, doc),
         accounts[a].exists, doc.exists, doc.stamp > accounts[a].stamp,
         SameEntries(accounts[a].txs, doc.txs)
  PROVE  \A b \in Accounts : Quiet(b, r)
<1>1. accounts'[a] = doc /\ \A b \in Accounts : b # a => accounts'[b] = accounts[b]
  BY PutIs
<1>2. Rewritten(a)
  BY <1>1 DEF Rewritten, Advanced
<1> QED
  BY <1>1, <1>2 DEF Quiet, Changed

LEMMA SameIsSame ==
  ASSUME NEW s
  PROVE  SameEntries(s, s)
BY DEF SameEntries

LEMMA PlainWriteQuiet ==
  ASSUME DocsOK, DocsOK', RequestsOK, ~SameMillisecond, NEW r \in Requests,
         RelabelWrite(r) \/ SettingsWrite(r) \/ ContentWrite(r)
  PROVE  \A a \in Accounts : Quiet(a, r)
<1>1. CASE UNCHANGED accounts
  BY <1>1, QuietIfSame
<1>2. ASSUME Source(r).exists, NEW s \in Stamps(Source(r)), NEW doc, Put(Op(r).acc, doc),
             \/ doc = [Source(r) EXCEPT !.currency = Op(r).currency, !.stamp = s]
             \/ doc = [Source(r) EXCEPT !.currency = Op(r).currency,
                                  !.selfAdjust = Op(r).selfAdjust, !.stamp = s]
             \/ doc = [Source(r) EXCEPT !.income = Op(r).income,
                                  !.expense = Op(r).expense, !.stamp = s]
      PROVE  \A a \in Accounts : Quiet(a, r)
  <2> DEFINE a == Op(r).acc
  <2>1. a \in Accounts /\ accounts[a] \in Account /\ Source(r) = accounts[a]
    BY DocFacts DEF Sound, Source
  <2>2. s \in Nat /\ s > accounts[a].stamp
    BY <2>1, LaterStamp
  <2>3. doc.exists = accounts[a].exists /\ doc.stamp = s /\ doc.txs = accounts[a].txs
    BY <1>2, <2>1 DEF Account
  <2> QED  BY <1>2, <2>1, <2>2, <2>3, SameIsSame, RewriteQuiet
<1> QED
  BY <1>1, <1>2 DEF RelabelWrite, SettingsWrite, ContentWrite, Reject

LEMMA SameRange ==
  ASSUME NEW m \in Nat, NEW n \in Nat, 1..m = 1..n
  PROVE  m = n
<1>1. m > 0 => m \in 1..n
  OBVIOUS
<1>2. n > 0 => n \in 1..m
  OBVIOUS
<1> QED
  BY <1>1, <1>2

LEMMA ConvertWriteQuiet ==
  ASSUME DocsOK, DocsOK', RequestsOK, AllHeld, ~SameMillisecond,
         NEW r \in Requests, ConvertWrite(r)
  PROVE  \A a \in Accounts : Quiet(a, r)
<1>1. CASE UNCHANGED accounts
  BY <1>1, QuietIfSame
<1> DEFINE a == Op(r).acc
           read == req[r].snap[a]
           new(s) == ReplaceMoneyFields(Source(r), Recomputed(read, Op(r).currency), s)
<1>2. ASSUME ConvertLock(r), NEW s \in Stamps(Source(r)), Put(a, new(s))
      PROVE  \A b \in Accounts : Quiet(b, r)
  <2>1. /\ a \in Accounts /\ accounts[a] \in Account /\ Source(r) = accounts[a]
        /\ read \in Account
    BY DocFacts DEF Sound, Source
  <2>2. accounts[a].exists /\ accounts[a].stamp = read.stamp
    BY <1>2, <2>1 DEF ConvertLock, Unchanged
  <2>3. read.txs = accounts[a].txs
    BY <2>2 DEF ConvertWrite, At, Op, AllHeld, HeldOK
  <2>4. s \in Nat /\ s > accounts[a].stamp
    BY <2>1, LaterStamp
  <2> DEFINE t == RecomputeTxs(read.txs, read.currency, Op(r).currency)
  <2>5. new(s).exists = accounts[a].exists /\ new(s).stamp = s /\ new(s).txs = t
    BY <2>1 DEF ReplaceMoneyFields, Recomputed, Account
  <2>6. accounts'[a] = new(s)
    BY <1>2, <2>1, PutIs
  <2>7. t \in Seq(Tx) /\ read.txs \in Seq(Tx)
    BY <2>1, <2>5, <2>6 DEF DocsOK, Account
  <2>8. /\ DOMAIN t = DOMAIN read.txs
        /\ \A i \in DOMAIN read.txs :
             t[i] = [read.txs[i] EXCEPT
                       !.delta = Recompute(@, read.currency, Op(r).currency)]
    BY DEF RecomputeTxs
  <2>9. SameEntries(read.txs, t)
    <3> DEFINE old == read.txs
    <3>1. /\ Len(t) \in Nat /\ DOMAIN t = 1..Len(t)
          /\ Len(old) \in Nat /\ DOMAIN old = 1..Len(old)
      <4> HIDE DEF t, old
      <4> QED  BY <2>7, LenProperties DEF old
    <3>2. Len(t) = Len(old)
      BY <2>8, <3>1, SameRange
    <3>3. ASSUME NEW i \in DOMAIN old
          PROVE t[i].id = old[i].id /\ t[i].ref = old[i].ref /\ t[i].nonce = old[i].nonce
      <4>1. old[i] \in Tx
        BY <2>7, <3>1, ElementOfSeq
      <4> QED  BY <2>8, <4>1 DEF Tx
    <3> QED  BY <3>1, <3>2, <3>3 DEF SameEntries
  <2> QED  BY <1>2, <2>1, <2>2, <2>3, <2>4, <2>5, <2>9, RewriteQuiet
<1> QED
  BY <1>1, <1>2 DEF ConvertWrite, Reject

LEMMA DeleteQuiet ==
  ASSUME DocsOK, RequestsOK, NEW r \in Requests, DeleteRead(r) \/ DeleteWrite(r)
  PROVE  \A a \in Accounts : Quiet(a, r)
<1>1. CASE DeleteRead(r)
  BY <1>1, QuietIfSame DEF DeleteRead, Reject
<1>2. CASE DeleteWrite(r)
  <2>1. Op(r).acc \in Accounts /\ Put(Op(r).acc, Gone)
    BY <1>2, DocFacts DEF DeleteWrite
  <2>2. /\ accounts'[Op(r).acc] = Gone
        /\ \A b \in Accounts : b # Op(r).acc => accounts'[b] = accounts[b]
    BY <2>1, PutIs
  <2> QED  BY <1>2, <2>2 DEF Quiet, Changed, Closed
<1> QED
  BY <1>1, <1>2

LEMMA UndoWriteQuiet ==
  ASSUME DocsOK, DocsOK', RequestsOK, AllHeld, Serial, NEW r \in Requests, UndoWrite(r)
  PROVE  \A a \in Accounts : Quiet(a, r)
<1>1. CASE UNCHANGED accounts
  BY <1>1, QuietIfSame
<1> DEFINE a == Op(r).acc
           read == req[r].snap[a]
<1>2. ASSUME Source(r).exists, NEW s \in Stamps(Source(r)),
             Put(a, UndoLast(Source(r), read, s))
      PROVE  \A b \in Accounts : Quiet(b, r)
  <2>1. /\ a \in Accounts /\ accounts[a] \in Account /\ Source(r) = accounts[a]
        /\ Op(r) \in Operations
    BY DocFacts DEF Sound, Source
  <2>2. ReplicaSet
    BY <2>1 DEF UndoWrite, Serial
  <2>3. read = accounts[a]
    BY <2>1, <2>2 DEF UndoWrite, UndoMayWrite, Conflict
  <2>4. read.txs # << >>
    BY DEF UndoWrite, At, RequestsOK, RequestOK, PlaceOK, Op
  <2>5. Last(read.txs).ref = NoAccount
    BY DEF UndoWrite, At, Op, AllHeld, HeldOK
  <2>6. s \in Nat /\ s > accounts[a].stamp
    BY <2>1, LaterStamp DEF Serial
  <2> DEFINE doc == UndoLast(Source(r), read, s)
  <2>7. doc.exists = accounts[a].exists /\ doc.stamp = s /\ doc.txs = Front(read.txs)
    BY <2>1 DEF UndoLast, Account
  <2>8. accounts'[a] = doc /\ \A b \in Accounts : b # a => accounts'[b] = accounts[b]
    BY <1>2, <2>1, PutIs
  <2> HIDE DEF doc
  <2>9. TakenOff(a)
    BY <1>2, <2>1, <2>3, <2>4, <2>5, <2>6, <2>7, <2>8 DEF TakenOff, Advanced
  <2> QED  BY <2>8, <2>9 DEF Quiet, Changed
<1> QED
  BY <1>1, <1>2 DEF UndoWrite

LEMMA FreeNonceQuiet ==
  ASSUME DocsOK, DocsOK', RequestsOK, AllHeld, ~SameMillisecond,
         NEW r \in Requests, FreeNonce(r)
  PROVE  \A a \in Accounts : Quiet(a, r)
<1>1. CASE UNCHANGED accounts
  BY <1>1, QuietIfSame
<1> DEFINE a == Op(r).acc
           new(s) == ClearTransactionNonce(Source(r), <<r, "out">>, s)
<1>2. ASSUME Source(r).exists, NEW s \in Stamps(Source(r)), Put(a, new(s))
      PROVE  \A b \in Accounts : Quiet(b, r)
  <2>1. a \in Accounts /\ accounts[a] \in Account /\ Source(r) = accounts[a]
    BY DocFacts DEF Sound, Source
  <2>2. ~ReplicaSet
    BY DEF FreeNonce, At, AllHeld, HeldOK
  <2>3. s \in Nat /\ s > accounts[a].stamp
    BY <2>1, LaterStamp
  <2> DEFINE old == accounts[a].txs
             t == [i \in DOMAIN old |->
                     IF old[i].id = <<r, "out">>
                     THEN [old[i] EXCEPT !.nonce = NoNonce] ELSE old[i]]
  <2>4. new(s).exists = accounts[a].exists /\ new(s).stamp = s /\ new(s).txs = t
    BY <2>1 DEF ClearTransactionNonce, Account
  <2>5. accounts'[a] = new(s)
    BY <1>2, <2>1, PutIs
  <2>6. t \in Seq(Tx) /\ old \in Seq(Tx)
    BY <2>1, <2>4, <2>5 DEF DocsOK, Account
  <2>7. SameEntries(old, t)
    <3>1. DOMAIN t = DOMAIN old
      OBVIOUS
    <3>2. ASSUME NEW i \in DOMAIN old, old[i] \in Tx
          PROVE  /\ t[i].id = old[i].id /\ t[i].ref = old[i].ref
                 /\ t[i].nonce = old[i].nonce \/ t[i].nonce = NoNonce
      BY <3>2 DEF Tx
    <3> HIDE DEF t, old
    <3>3. /\ Len(t) \in Nat /\ DOMAIN t = 1..Len(t)
          /\ Len(old) \in Nat /\ DOMAIN old = 1..Len(old)
      BY <2>6, LenProperties
    <3>4. Len(t) = Len(old)
      BY <3>1, <3>3, SameRange
    <3>5. \A i \in DOMAIN old : old[i] \in Tx
      BY <2>6, <3>3, ElementOfSeq
    <3> QED  BY <2>2, <3>2, <3>3, <3>4, <3>5 DEF SameEntries
  <2> QED  BY <1>2, <2>1, <2>3, <2>4, <2>7, RewriteQuiet
<1> QED
  BY <1>1, <1>2 DEF FreeNonce

LEMMA QuietSteps ==
  ASSUME DocsOK, DocsOK', RequestsOK, AllHeld, Serial, NEW r \in Requests,
         Step(r) \/ Crash(r), ~MoneySteps(r)
  PROVE  \A a \in Accounts : Quiet(a, r)
<1>1. CASE UNCHANGED accounts
  BY <1>1, QuietIfSame
<1>2. CASE \/ AppendStep(r) \/ UndoWrite(r) \/ ConvertWrite(r) \/ FreeNonce(r)
           \/ RelabelWrite(r) \/ SettingsWrite(r) \/ ContentWrite(r)
           \/ DeleteRead(r) \/ DeleteWrite(r)
  BY <1>2, AppendStepQuiet, UndoWriteQuiet, ConvertWriteQuiet, FreeNonceQuiet,
     PlainWriteQuiet, DeleteQuiet DEF Serial
<1> QED
  BY <1>1, <1>2
     DEF Step, Crash, MoneySteps, AdjustGate, UndoGate, Gate, MonthlyRead, UndoRead,
         UndoRetry, CurrencyRead, TransferReadFrom, TransferReadTo, TransferBegin,
         TransferRetry, ReplayRead, ReplayTo, LostRace, AnswerTransfer, Reject

-----------------------------------------------------------------------------
(* The four steps that write a leg of a transfer. *)

OnlyAdded(r, a, tx) ==
  /\ Added(a, tx) /\ tx \in LegTxs(r)
  /\ \A b \in Accounts : b # a => accounts'[b] = accounts[b]

(* The three legs of a transfer, as entries. *)
LEMMA LegsAre ==
  ASSUME DocsOK, RequestsOK, NEW r \in Requests, IsTransfer(Op(r))
  PROVE  /\ OutTx(r) \in LegTxs(r) /\ InTx(r) \in LegTxs(r) /\ RevertTx(r) \in LegTxs(r)
         /\ OutTx(r).id = <<r, "out">> /\ OutTx(r).nonce = Op(r).nonce
         /\ InTx(r).id = <<r, "in">> /\ InTx(r).nonce = NoNonce
         /\ RevertTx(r).id = <<r, "revert">> /\ RevertTx(r).nonce = NoNonce
         /\ Op(r).acc \in Accounts /\ Op(r).to \in Accounts /\ Op(r).acc # Op(r).to
<1>1. /\ Op(r).acc \in Accounts /\ Op(r).to \in Accounts /\ Op(r).acc # Op(r).to
  BY DocFacts, AccountsAssumption
<1>2. Op(r).acc # NoAccount /\ Op(r).to # NoAccount
  BY <1>1, LedgerAssumption
<1>3. OutTx(r) \in Tx /\ InTx(r) \in Tx /\ RevertTx(r) \in Tx
  BY LegTypes
<1> QED
  BY <1>1, <1>2, <1>3 DEF OutTx, InTx, RevertTx, LegTxs, MoneyLegs

LEMMA PutLeg ==
  ASSUME DocsOK, ~SameMillisecond, NEW r \in Requests, NEW a \in Accounts,
         accounts[a].exists, NEW tx \in LegTxs(r), NEW s \in Stamps(accounts[a]),
         Put(a, AppendTransaction(accounts[a], tx, s))
  PROVE  OnlyAdded(r, a, tx)
BY PutIs, AppendAdds DEF OnlyAdded

LEMMA CommitAdds ==
  ASSUME DocsOK, RequestsOK, AllHeld, ~SameMillisecond, NEW r \in Requests,
         TransferCommit(r)
  PROVE  /\ ReplicaSet /\ IsTransfer(Op(r))
         /\ Source(r).exists /\ Target(r).exists
         /\ Op(r).nonce # NoNonce => ~HasNonce(Source(r), Op(r).nonce)
         /\ Added(Op(r).acc, OutTx(r)) /\ Added(Op(r).to, InTx(r))
         /\ \A b \in Accounts : b \notin {Op(r).acc, Op(r).to}
                                  => accounts'[b] = accounts[b]
<1>1. IsTransfer(Op(r))
  BY DEF TransferCommit, At, RequestsOK, RequestOK, PlaceOK, TransferPlaces, Op
<1>2. /\ ReplicaSet /\ req[r].snap[Op(r).acc].exists /\ req[r].snap[Op(r).to].exists
      /\ Op(r).nonce # NoNonce => ~HasNonce(req[r].snap[Op(r).acc], Op(r).nonce)
  BY DEF TransferCommit, At, Op, AllHeld, HeldOK
<1>3. /\ accounts[Op(r).acc] = req[r].snap[Op(r).acc]
      /\ accounts[Op(r).to] = req[r].snap[Op(r).to]
  BY DEF TransferCommit, TransferMayCommit, Conflict
<1>4. PICK s \in Stamps(Source(r)), t \in Stamps(Target(r)) :
        accounts' = [accounts EXCEPT
                      ![Op(r).acc] = AppendTransaction(@, OutTx(r), s),
                      ![Op(r).to]  = AppendTransaction(@, InTx(r), t)]
  BY DEF TransferCommit
<1>5. /\ Op(r).acc \in Accounts /\ Op(r).to \in Accounts /\ Op(r).acc # Op(r).to
  BY <1>1, LegsAre
<1>6. /\ accounts'[Op(r).acc] = AppendTransaction(accounts[Op(r).acc], OutTx(r), s)
      /\ accounts'[Op(r).to] = AppendTransaction(accounts[Op(r).to], InTx(r), t)
      /\ \A b \in Accounts : b \notin {Op(r).acc, Op(r).to} => accounts'[b] = accounts[b]
  BY <1>4, <1>5 DEF DocsOK
<1> QED
  BY <1>1, <1>2, <1>3, <1>5, <1>6, AppendAdds DEF Source, Target

LEMMA DebitAdds ==
  ASSUME DocsOK, RequestsOK, AllHeld, ~SameMillisecond, NEW r \in Requests,
         TransferDebit(r)
  PROVE  /\ ~ReplicaSet /\ IsTransfer(Op(r))
         /\ \/ OnlyAdded(r, Op(r).acc, OutTx(r)) /\ Goto(r, "credit")
            \/ UNCHANGED accounts /\ (Goto(r, "lost") \/ Finish(r, "insufficient"))
<1>1. IsTransfer(Op(r)) /\ ~ReplicaSet
  BY DEF TransferDebit, At, RequestsOK, RequestOK, PlaceOK, TransferPlaces, Op,
         AllHeld, HeldOK
<1> QED
  BY <1>1, LegsAre, PutLeg DEF TransferDebit, Source, Sufficient

LEMMA CreditAdds ==
  ASSUME DocsOK, RequestsOK, AllHeld, ~SameMillisecond, NEW r \in Requests,
         TransferCredit(r)
  PROVE  /\ ~ReplicaSet /\ IsTransfer(Op(r))
         /\ \/ OnlyAdded(r, Op(r).to, InTx(r)) /\ Goto(r, "answer")
            \/ UNCHANGED accounts /\ (Goto(r, "clear") \/ Goto(r, "revert"))
<1>1. IsTransfer(Op(r)) /\ ~ReplicaSet
  BY DEF TransferCredit, At, RequestsOK, RequestOK, PlaceOK, TransferPlaces, Op,
         AllHeld, HeldOK
<1> QED
  BY <1>1, LegsAre, PutLeg DEF TransferCredit, Target

LEMMA RevertAdds ==
  ASSUME DocsOK, RequestsOK, AllHeld, ~SameMillisecond, NEW r \in Requests,
         TransferRevert(r)
  PROVE  /\ ~ReplicaSet /\ IsTransfer(Op(r))
         /\ \/ OnlyAdded(r, Op(r).acc, RevertTx(r)) /\ Finish(r, "failed")
            \/ UNCHANGED accounts /\ ~Source(r).exists /\ Finish(r, "failed")
            \/ UNCHANGED accounts /\ Finish(r, "repair")
<1>1. IsTransfer(Op(r)) /\ ~ReplicaSet
  BY DEF TransferRevert, At, RequestsOK, RequestOK, PlaceOK, TransferPlaces, Op,
         AllHeld, HeldOK
<1> QED
  BY <1>1, LegsAre, PutLeg DEF TransferRevert, Source, Reject

LEMMA OnlyAddedWritten ==
  ASSUME NEW r, NEW a, NEW tx, OnlyAdded(r, a, tx)
  PROVE  \A b \in Accounts : Written(b, r)
BY DEF OnlyAdded, Written, Changed

LEMMA QuietWritten ==
  ASSUME NEW r, NEW a, Quiet(a, r)
  PROVE  Written(a, r)
BY DEF Quiet, Written, Changed

(* Every step changes documents in the way `Written' says. *)
LEMMA StepsWrite ==
  ASSUME DocsOK, DocsOK', RequestsOK, AllHeld, Serial, NEW r \in Requests,
         Step(r) \/ Crash(r)
  PROVE  \A a \in Accounts : Written(a, r)
<1>1. CASE ~MoneySteps(r)
  BY <1>1, QuietSteps, QuietWritten
<1>2. CASE UNCHANGED accounts
  BY <1>2, QuietIfSame, QuietWritten
<1>3. CASE TransferCommit(r)
  <2>1. OutTx(r) \in LegTxs(r) /\ InTx(r) \in LegTxs(r)
    BY <1>3, CommitAdds, LegsAre DEF Serial
  <2> QED
    BY <1>3, <2>1, CommitAdds DEF Serial, Written, Changed
<1>4. CASE TransferDebit(r)
  BY <1>2, <1>4, DebitAdds, OnlyAddedWritten DEF Serial
<1>5. CASE TransferCredit(r)
  BY <1>2, <1>5, CreditAdds, OnlyAddedWritten DEF Serial
<1>6. CASE TransferRevert(r)
  BY <1>2, <1>6, RevertAdds, OnlyAddedWritten DEF Serial
<1> QED
  BY <1>1, <1>3, <1>4, <1>5, <1>6 DEF MoneySteps

-----------------------------------------------------------------------------
(* What a request holds stays true: its own steps, then those of others. *)

(* A step of r changes r's record only, and never what r was asked. *)
Turn(r) ==
  /\ \A q \in Requests : q # r => req'[q] = req[q]
  /\ req'[r].op = req[r].op

LEMMA FinishIs ==
  ASSUME RequestsOK, NEW r \in Requests, NEW answer, Finish(r, answer)
  PROVE  Turn(r) /\ req'[r].pc = "done" /\ req'[r].answer = answer
BY DEF Finish, Turn, RequestsOK, RequestRecord

LEMMA GotoIs ==
  ASSUME RequestsOK, NEW r \in Requests, NEW place, Goto(r, place)
  PROVE  /\ Turn(r) /\ req'[r].pc = place /\ req'[r].answer = req[r].answer
         /\ req'[r].snap = req[r].snap
BY DEF Goto, Turn, RequestsOK, RequestRecord

LEMMA RememberIs ==
  ASSUME RequestsOK, NEW r \in Requests, NEW names, NEW place, Remember(r, names, place)
  PROVE  /\ Turn(r) /\ req'[r].pc = place /\ req'[r].answer = req[r].answer
         /\ \A a \in Accounts : a \in names => req'[r].snap[a] = accounts[a]
         /\ \A a \in Accounts : a \notin names => req'[r].snap[a] = req[r].snap[a]
BY DEF Remember, Turn, RequestsOK, RequestRecord

LEMMA SetDeltaIs ==
  ASSUME RequestsOK, NEW r \in Requests, NEW place, NEW delta,
         req' = [req EXCEPT ![r].pc = place, ![r].delta = delta]
  PROVE  Turn(r) /\ req'[r].pc = place /\ req'[r].answer = req[r].answer
BY DEF Turn, RequestsOK, RequestRecord

LEMMA DropSnapIs ==
  ASSUME RequestsOK, NEW r \in Requests, NEW place,
         req' = [req EXCEPT ![r].pc = place, ![r].snap = NoSnapshot]
  PROVE  Turn(r) /\ req'[r].pc = place /\ req'[r].answer = req[r].answer
BY DEF Turn, RequestsOK, RequestRecord

(* Only a request that has not been answered takes a step. *)
LEMMA StepsWaiting ==
  ASSUME AllHeld, NEW r \in Requests, Step(r) \/ Crash(r)
  PROVE  req[r].pc # "done" /\ req[r].answer = "none"
<1>1. req[r].pc # "done"
  BY DEF Step, Crash, AdjustGate, UndoGate, Gate, MonthlyRead, AppendStep, UndoRead,
         UndoRetry, UndoWrite, CurrencyRead, RelabelWrite, ConvertWrite, SettingsWrite,
         ContentWrite, DeleteRead, DeleteWrite, TransferReadFrom, TransferReadTo,
         TransferBegin, TransferRetry, TransferCommit, ReplayRead, ReplayTo,
         TransferDebit, LostRace, TransferCredit, FreeNonce, TransferRevert,
         AnswerTransfer, At
<1> QED
  BY <1>1 DEF AllHeld, HeldOK

LEMMA HeldOther ==
  ASSUME DocsOK, DocsOK', RequestsOK, NEW q \in Requests, HeldOK(req[q], accounts),
         NEW r, \A a \in Accounts : Written(a, r)
  PROVE  HeldOK(req[q], accounts')
<1> DEFINE a == req[q].op.acc
<1>1. a \in Accounts /\ accounts[a] \in Account /\ accounts'[a] \in Account
      /\ req[q].snap[a] \in Account
  BY OperationType DEF DocsOK, RequestsOK, RequestRecord
<1>2. /\ accounts[a].stamp \in Nat /\ accounts'[a].stamp \in Nat
      /\ req[q].snap[a].stamp \in Nat
  BY <1>1 DEF Account
<1>3. accounts'[a].exists =>
        /\ accounts[a].exists
        /\ accounts'[a] = accounts[a] \/ accounts'[a].stamp > accounts[a].stamp
  BY <1>1, ChangedForward DEF Written
<1>4. req[q].pc = "write" /\ req[q].op.kind = "convert" /\ accounts'[a].exists =>
        /\ req[q].snap[a].stamp <= accounts'[a].stamp
        /\ req[q].snap[a].stamp = accounts'[a].stamp => req[q].snap[a].txs = accounts'[a].txs
  BY <1>2, <1>3 DEF HeldOK
<1> HIDE DEF a
<1> QED
  BY <1>4 DEF HeldOK, a

LEMMA HeldDone ==
  ASSUME RequestsOK, NEW r \in Requests, NEW answer, Finish(r, answer),
         answer # "none", NEW docs
  PROVE  HeldOK(req'[r], docs)
BY FinishIs DEF HeldOK

(* Places about which HeldOK says nothing more than that r is not done. *)
LEMMA HeldSingle ==
  ASSUME DocsOK, RequestsOK, AllHeld, NEW r \in Requests,
         req[r].pc # "done", req[r].answer = "none",
         \/ AdjustGate(r) \/ MonthlyRead(r) \/ AppendStep(r) \/ UndoGate(r)
         \/ UndoRead(r) \/ UndoRetry(r) \/ UndoWrite(r)
         \/ RelabelWrite(r) \/ ConvertWrite(r) \/ SettingsWrite(r)
         \/ ContentWrite(r) \/ DeleteRead(r) \/ DeleteWrite(r)
  PROVE  HeldOK(req'[r], accounts')
<1>1. ASSUME \E answer \in Answers \ {"none"} : Finish(r, answer)
      PROVE  HeldOK(req'[r], accounts')
  BY <1>1, HeldDone
<1>2. /\ "ok" # "none" /\ "not_found" # "none" /\ "refused" # "none"
      /\ "conflict" # "none" /\ {"ok", "not_found", "refused", "conflict"} \subseteq Answers
  BY DEF Answers
<1>3. CASE AppendStep(r) \/ UndoWrite(r) \/ RelabelWrite(r) \/ ConvertWrite(r)
           \/ SettingsWrite(r) \/ ContentWrite(r) \/ DeleteWrite(r)
  BY <1>1, <1>2, <1>3 DEF AppendStep, UndoWrite, RelabelWrite, ConvertWrite,
     SettingsWrite, ContentWrite, DeleteWrite, Reject
<1>4. CASE AdjustGate(r)
  <2>1. CASE req' = [req EXCEPT ![r].pc = "append", ![r].delta = Op(r).amount]
    <3>1. /\ req'[r].pc = "append" /\ req'[r].answer = "none"
          /\ req'[r].op.kind = "adjust"
      BY <1>4, <2>1, SetDeltaIs DEF AdjustGate, Turn, Op
    <3> QED  BY <3>1 DEF HeldOK, IsTransfer
  <2> QED  BY <1>1, <1>2, <1>4, <2>1 DEF AdjustGate, Gate, Reject
<1>5. CASE UndoGate(r)
  <2>1. CASE req' = [req EXCEPT ![r].pc = "read", ![r].delta = Op(r).amount]
    <3>1. req'[r].pc = "read" /\ req'[r].answer = "none"
      BY <2>1, SetDeltaIs
    <3> QED  BY <3>1 DEF HeldOK
  <2> QED  BY <1>1, <1>2, <1>5, <2>1 DEF UndoGate, Gate, Reject
<1>6. CASE MonthlyRead(r)
  <2>1. CASE req' = [req EXCEPT ![r].pc = "append",
                               ![r].delta = Source(r).income - Source(r).expense]
    <3>1. /\ req'[r].pc = "append" /\ req'[r].answer = "none"
          /\ req'[r].op.kind = "monthly"
      BY <1>6, <2>1, SetDeltaIs DEF MonthlyRead, Turn, Op
    <3> QED  BY <3>1 DEF HeldOK, IsTransfer
  <2> QED  BY <1>1, <1>2, <1>6, <2>1 DEF MonthlyRead, Reject
<1>7. CASE UndoRead(r)
  <2>1. CASE Remember(r, {Op(r).acc}, "write") /\ ~Linked(Last(Source(r).txs))
    <3>1. Op(r).acc \in Accounts
      BY DocFacts
    <3>2. /\ req'[r].op.kind = "undo" /\ req'[r].op.acc = Op(r).acc
          /\ req'[r].snap[Op(r).acc] = Source(r)
          /\ req'[r].pc = "write" /\ req'[r].answer = "none"
      BY <1>7, <2>1, <3>1, RememberIs DEF UndoRead, Turn, Op, Source
    <3> QED  BY <2>1, <3>2 DEF HeldOK, Linked
  <2> QED  BY <1>1, <1>2, <1>7, <2>1 DEF UndoRead
<1>8. CASE UndoRetry(r)
  BY <1>8, GotoIs DEF UndoRetry, HeldOK
<1>9. CASE DeleteRead(r)
  <2>1. CASE Goto(r, "write")
    BY <1>9, <2>1, GotoIs DEF DeleteRead, HeldOK, Turn, Op
  <2> QED  BY <1>1, <1>2, <1>9, <2>1 DEF DeleteRead, Reject
<1> QED
  BY <1>3, <1>4, <1>5, <1>6, <1>7, <1>8, <1>9

LEMMA HeldCurrency ==
  ASSUME DocsOK, RequestsOK, NEW r \in Requests, req[r].answer = "none", CurrencyRead(r)
  PROVE  HeldOK(req'[r], accounts')
<1>1. CASE Finish(r, "not_found") \/ Finish(r, "ok") \/ Finish(r, "refused")
  BY <1>1, HeldDone
<1>2. CASE Op(r).kind = "relabel" /\ Goto(r, "write")
  BY <1>2, GotoIs DEF HeldOK, Turn, Op
<1>3. CASE Op(r).kind = "convert" /\ Remember(r, {Op(r).acc}, "write")
  <2>1. Op(r).acc \in Accounts /\ Source(r) \in Account
    BY DocFacts DEF Sound
  <2>2. /\ req'[r].op.kind = "convert" /\ req'[r].op.acc = Op(r).acc
        /\ req'[r].snap[Op(r).acc] = Source(r)
        /\ req'[r].pc = "write" /\ req'[r].answer = "none"
    BY <1>3, <2>1, RememberIs DEF Turn, Op, Source
  <2>3. accounts'[Op(r).acc] = Source(r) /\ Source(r).stamp \in Nat
    BY <2>1 DEF CurrencyRead, Source, Account
  <2> QED  BY <2>2, <2>3 DEF HeldOK
<1> QED
  BY <1>1, <1>2, <1>3 DEF CurrencyRead

LEMMA HeldTransfer ==
  ASSUME DocsOK, RequestsOK, AllHeld, NEW r \in Requests,
         req[r].pc # "done", req[r].answer = "none",
         \/ TransferReadFrom(r) \/ TransferReadTo(r) \/ TransferBegin(r)
         \/ TransferRetry(r) \/ TransferCommit(r) \/ ReplayRead(r) \/ ReplayTo(r)
         \/ TransferDebit(r) \/ LostRace(r) \/ TransferCredit(r) \/ FreeNonce(r)
         \/ TransferRevert(r) \/ AnswerTransfer(r) \/ Crash(r)
  PROVE  HeldOK(req'[r], accounts')
<1>1. ASSUME NEW answer \in {"ok", "not_found", "refused", "insufficient", "failed",
                             "repair", "replayed", "crashed", "unheard"},
             Finish(r, answer)
      PROVE  HeldOK(req'[r], accounts')
  BY <1>1, HeldDone
<1>2. HeldOK(req[r], accounts)
  BY DEF AllHeld
<1>3. ASSUME NEW place \in {"replayTo", "begin", "credit", "lost", "clear", "revert",
                            "replay", "answer"},
             Goto(r, place), place = "begin" => ReplicaSet,
             place \in {"credit", "lost", "clear", "revert"} => ~ReplicaSet,
             place \in {"lost", "replay"} => Op(r).nonce # NoNonce
      PROVE  HeldOK(req'[r], accounts')
  BY <1>3, GotoIs DEF HeldOK, Turn, Op
<1>4. CASE TransferReadFrom(r)
  BY <1>4, RememberIs DEF TransferReadFrom, HeldOK
<1>5. CASE TransferReadTo(r)
  <2>1. ASSUME NEW place, req' = [req EXCEPT ![r].pc = place, ![r].snap = NoSnapshot],
               place = IF ReplicaSet THEN "begin" ELSE "debit"
        PROVE  HeldOK(req'[r], accounts')
    <3>1. req'[r].pc = place /\ req'[r].answer = "none"
      BY <2>1, DropSnapIs
    <3> QED  BY <2>1, <3>1 DEF HeldOK
  <2> QED  BY <1>1, <1>3, <1>5, <2>1 DEF TransferReadTo
<1>6. CASE TransferBegin(r)
  <2>1. ReplicaSet /\ IsTransfer(Op(r))
    BY <1>2, <1>6 DEF TransferBegin, At, HeldOK, RequestsOK, RequestOK, PlaceOK,
       TransferPlaces, Op
  <2>2. CASE /\ Remember(r, {Op(r).acc, Op(r).to}, "commit") /\ Target(r).exists
             /\ Sufficient(Source(r), Op(r).amount, Op(r).nonce)
    <3>1. Op(r).acc \in Accounts /\ Op(r).to \in Accounts
      BY <2>1, LegsAre
    <3>2. /\ req'[r].pc = "commit" /\ req'[r].answer = "none" /\ req'[r].op = Op(r)
          /\ req'[r].snap[Op(r).acc] = Source(r) /\ req'[r].snap[Op(r).to] = Target(r)
      BY <2>2, <3>1, RememberIs DEF Turn, Op, Source, Target
    <3> QED  BY <2>1, <2>2, <3>2 DEF HeldOK, Sufficient
  <2>3. CASE Spent(Source(r), Op(r)) /\ Goto(r, "replay")
    BY <1>3, <2>3 DEF Spent
  <2> QED  BY <1>1, <1>6, <2>2, <2>3 DEF TransferBegin
<1>7. CASE TransferRetry(r)
  BY <1>2, <1>3, <1>7 DEF TransferRetry, At, HeldOK
<1>8. CASE ReplayRead(r)
  <2>1. CASE Remember(r, {Op(r).acc}, "replayTo")
    BY <2>1, RememberIs DEF HeldOK
  <2> QED  BY <1>1, <1>8, <2>1 DEF ReplayRead
<1>9. CASE TransferDebit(r)
  <2>1. ~ReplicaSet
    BY <1>2, <1>9 DEF TransferDebit, At, HeldOK
  <2> QED  BY <1>1, <1>3, <1>9, <2>1 DEF TransferDebit
<1>10. CASE LostRace(r)
  <2>1. Op(r).nonce # NoNonce
    BY <1>2, <1>10 DEF LostRace, At, HeldOK, Op
  <2> QED  BY <1>1, <1>3, <1>10, <2>1 DEF LostRace
<1>11. CASE TransferCredit(r)
  <2>1. ~ReplicaSet
    BY <1>2, <1>11 DEF TransferCredit, At, HeldOK
  <2> QED  BY <1>1, <1>3, <1>11, <2>1 DEF TransferCredit
<1>12. CASE FreeNonce(r)
  BY <1>2, <1>3, <1>12 DEF FreeNonce, At, HeldOK
<1>13. CASE ReplayTo(r) \/ TransferRevert(r) \/ AnswerTransfer(r) \/ Crash(r)
  BY <1>1, <1>13 DEF ReplayTo, TransferRevert, AnswerTransfer, Crash, Reject
<1>14. CASE TransferCommit(r)
  <2>1. req'[r].pc = "answer" /\ req'[r].answer = "none"
    BY <1>14, DropSnapIs DEF TransferCommit
  <2> QED  BY <2>1 DEF HeldOK
<1> QED
  BY <1>4, <1>5, <1>6, <1>7, <1>8, <1>9, <1>10, <1>11, <1>12, <1>13, <1>14

-----------------------------------------------------------------------------
(* Where a transfer stands says which legs are on which account. *)

LEMMA StepTurn ==
  ASSUME RequestsOK, NEW r \in Requests, Step(r) \/ Crash(r)
  PROVE  Turn(r)
<1>1. CASE \E answer : Finish(r, answer)
  BY <1>1, FinishIs
<1>2. CASE \E place : Goto(r, place)
  BY <1>2, GotoIs
<1>3. CASE \E names, place : Remember(r, names, place)
  BY <1>3, RememberIs
<1>4. CASE \E place, delta : req' = [req EXCEPT ![r].pc = place, ![r].delta = delta]
  BY <1>4, SetDeltaIs
<1>5. CASE \E place : req' = [req EXCEPT ![r].pc = place, ![r].snap = NoSnapshot]
  BY <1>5, DropSnapIs
<1>6. CASE AdjustGate(r) \/ UndoGate(r) \/ MonthlyRead(r)
  BY <1>1, <1>4, <1>6 DEF AdjustGate, UndoGate, Gate, MonthlyRead, Reject
<1>7. CASE \/ AppendStep(r) \/ UndoRead(r) \/ UndoRetry(r) \/ UndoWrite(r)
           \/ CurrencyRead(r) \/ RelabelWrite(r) \/ ConvertWrite(r)
           \/ SettingsWrite(r) \/ ContentWrite(r) \/ DeleteRead(r) \/ DeleteWrite(r)
  BY <1>1, <1>2, <1>3, <1>7 DEF AppendStep, UndoRead, UndoRetry, UndoWrite,
     CurrencyRead, RelabelWrite, ConvertWrite, SettingsWrite, ContentWrite,
     DeleteRead, DeleteWrite, Reject
<1>8. CASE TransferReadTo(r)
  BY <1>1, <1>2, <1>5, <1>8 DEF TransferReadTo
<1>9. CASE \/ TransferReadFrom(r) \/ TransferBegin(r) \/ TransferRetry(r)
           \/ TransferCommit(r) \/ ReplayRead(r) \/ ReplayTo(r) \/ TransferDebit(r)
           \/ LostRace(r) \/ TransferCredit(r) \/ FreeNonce(r) \/ TransferRevert(r)
           \/ AnswerTransfer(r) \/ Crash(r)
  BY <1>1, <1>2, <1>3, <1>5, <1>9 DEF TransferReadFrom, TransferBegin, TransferRetry,
     TransferCommit, ReplayRead, ReplayTo, TransferDebit, LostRace, TransferCredit,
     FreeNonce, TransferRevert, AnswerTransfer, Crash, Reject
<1> QED
  BY <1>6, <1>7, <1>8, <1>9 DEF Step

LEMMA HeldKept ==
  ASSUME DocsOK, DocsOK', RequestsOK, AllHeld, Serial, NEW r \in Requests,
         Step(r) \/ Crash(r)
  PROVE  AllHeld'
<1>1. \A a \in Accounts : Written(a, r)
  BY StepsWrite
<1>2. req[r].pc # "done" /\ req[r].answer = "none"
  BY StepsWaiting
<1>3. HeldOK(req'[r], accounts')
  BY <1>2, HeldSingle, HeldCurrency, HeldTransfer DEF Step
<1>4. ASSUME NEW q \in Requests PROVE HeldOK(req'[q], accounts')
  <2>1. CASE q = r
    BY <1>3, <2>1
  <2>2. CASE q # r
    <3>1. req'[q] = req[q]
      BY <2>2, StepTurn DEF Turn
    <3>2. HeldOK(req[q], accounts')
      BY <1>1, HeldOther DEF AllHeld
    <3> QED  BY <3>1, <3>2
  <2> QED  BY <2>1, <2>2
<1>5. ASSUME NEW q \in Requests PROVE HeldOK(req[q], accounts)'
  BY <1>4 DEF HeldOK
<1> QED
  BY <1>5 DEF AllHeld

(* Which legs of request r are on its two accounts, by the place it is at. *)
Before == {"start", "readTo", "begin", "commit", "debit", "lost", "replay", "replayTo"}

Between == {"credit", "clear", "revert"}

(***************************************************************************)
(* Before its debit a transfer has no legs; after it the debit is on the   *)
(* source, if that still exists, and neither credit nor revert are; an     *)
(* answer of failure leaves debit and revert both there or both absent.    *)
(***************************************************************************)
CourseOK(r, q, docs) ==
  LET from == docs[q.op.acc]
      to == docs[q.op.to]
  IN
  IsTransfer(q.op) =>
    /\ q.pc \in Before =>
         ~HasLeg(from, r, "out") /\ ~HasLeg(from, r, "revert") /\ ~HasLeg(to, r, "in")
    /\ q.pc \in Between =>
         /\ ~HasLeg(to, r, "in")
         /\ from.exists => HasLeg(from, r, "out") /\ ~HasLeg(from, r, "revert")
    /\ q.answer \in {"failed", "repair"} => ~HasLeg(to, r, "in")
    /\ q.answer = "failed" /\ from.exists =>
         (HasLeg(from, r, "out") <=> HasLeg(from, r, "revert"))

AllOnCourse == \A r \in Requests : CourseOK(r, req[r], accounts)

(* The legs of r on a document that changed without gaining any. *)
LegsHere(r, a) ==
  \A leg \in MoneyLegs :
    /\ HasLeg(accounts'[a], r, leg) => HasLeg(accounts[a], r, leg)
    /\ accounts'[a].exists =>
         accounts[a].exists /\ (HasLeg(accounts[a], r, leg) => HasLeg(accounts'[a], r, leg))

LEMMA LegsHereOther ==
  ASSUME DocsOK, DocsOK', LegsLinked, NEW r \in Requests, NEW q \in Requests,
         NEW a \in Accounts, (Written(a, r) /\ q # r) \/ Quiet(a, r)
  PROVE  LegsHere(q, a)
<1>1. Written(a, r)
  BY QuietWritten
<1>2. accounts'[a].exists => accounts[a].exists
  BY <1>1, ChangedForward DEF Written
<1> QED
  BY <1>1, <1>2, WrittenLegs DEF LegsHere

LEMMA CourseStays ==
  ASSUME RequestsOK, NEW q \in Requests, CourseOK(q, req[q], accounts),
         \A a \in Accounts : LegsHere(q, a)
  PROVE  CourseOK(q, req[q], accounts')
<1>1. req[q].op \in Operations
  BY DEF RequestsOK, RequestRecord
<1>2. req[q].op.acc \in Accounts /\ (IsTransfer(req[q].op) => req[q].op.to \in Accounts)
  BY <1>1, OperationType
<1>3. "out" \in MoneyLegs /\ "in" \in MoneyLegs /\ "revert" \in MoneyLegs
  BY DEF MoneyLegs
<1> QED
  BY <1>2, <1>3 DEF CourseOK, LegsHere

(* A step that adds no leg: r's place moves on as its legs allow. *)
LEMMA CourseQuiet ==
  ASSUME RequestsOK, AllHeld, NEW r \in Requests, CourseOK(r, req[r], accounts'),
         Step(r) \/ Crash(r), ~MoneySteps(r)
  PROVE  CourseOK(r, req'[r], accounts')
<1>1. req'[r].op = req[r].op
  BY StepTurn DEF Turn
<1>2. CASE ~IsTransfer(req[r].op)
  BY <1>1, <1>2 DEF CourseOK
<1>3. SUFFICES ASSUME IsTransfer(req[r].op) PROVE CourseOK(r, req'[r], accounts')
  BY <1>2
<1>4. req[r].answer = "none"
  BY StepsWaiting
<1>5. ASSUME NEW answer, answer \notin {"failed", "repair"}, Finish(r, answer)
      PROVE  CourseOK(r, req'[r], accounts')
  <2>1. req'[r].pc = "done" /\ req'[r].answer = answer
    BY <1>5, FinishIs
  <2> QED  BY <1>5, <2>1 DEF CourseOK, Before, Between
<1>6. ASSUME req'[r].answer = "none",
             \/ req[r].pc \in Before /\ req'[r].pc \in Before
             \/ req[r].pc \in Between /\ req'[r].pc \in Between
      PROVE  CourseOK(r, req'[r], accounts')
  BY <1>1, <1>6 DEF CourseOK, Before, Between
<1>7. CASE TransferReadFrom(r)
  BY <1>4, <1>6, <1>7, RememberIs DEF TransferReadFrom, At, Before
<1>8. CASE TransferReadTo(r)
  <2>1. ASSUME NEW place \in {"begin", "debit"},
               req' = [req EXCEPT ![r].pc = place, ![r].snap = NoSnapshot]
        PROVE  CourseOK(r, req'[r], accounts')
    BY <1>4, <1>6, <1>8, <2>1, DropSnapIs DEF TransferReadTo, At, Before
  <2>2. CASE Goto(r, "replayTo")
    BY <1>4, <1>6, <1>8, <2>2, GotoIs DEF TransferReadTo, At, Before
  <2> QED  BY <1>5, <1>8, <2>1, <2>2 DEF TransferReadTo
<1>9. CASE TransferBegin(r)
  <2>1. CASE Goto(r, "replay")
    BY <1>4, <1>6, <1>9, <2>1, GotoIs DEF TransferBegin, At, Before
  <2>2. CASE Remember(r, {Op(r).acc, Op(r).to}, "commit")
    BY <1>4, <1>6, <1>9, <2>2, RememberIs DEF TransferBegin, At, Before
  <2> QED  BY <1>5, <1>9, <2>1, <2>2 DEF TransferBegin
<1>10. CASE TransferRetry(r)
  BY <1>4, <1>6, <1>10, GotoIs DEF TransferRetry, At, Before
<1>11. CASE ReplayRead(r)
  <2>1. CASE Remember(r, {Op(r).acc}, "replayTo")
    BY <1>4, <1>6, <1>11, <2>1, RememberIs DEF ReplayRead, At, Before
  <2>2. CASE Finish(r, "failed")
    <3>1. req'[r].pc = "done" /\ req'[r].answer = "failed" /\ req[r].pc = "replay"
      BY <1>11, <2>2, FinishIs DEF ReplayRead, At
    <3> QED  BY <1>1, <3>1 DEF CourseOK, Before, Between
  <2> QED  BY <1>5, <1>11, <2>1, <2>2 DEF ReplayRead
<1>12. CASE LostRace(r)
  <2>1. CASE Goto(r, "replay")
    BY <1>4, <1>6, <1>12, <2>1, GotoIs DEF LostRace, At, Before
  <2> QED  BY <1>5, <1>12, <2>1 DEF LostRace
<1>13. CASE FreeNonce(r)
  BY <1>4, <1>6, <1>13, GotoIs DEF FreeNonce, At, Between
<1>14. CASE ReplayTo(r) \/ AnswerTransfer(r) \/ Crash(r)
  BY <1>5, <1>14 DEF ReplayTo, AnswerTransfer, Crash, Reject
<1>15. req[r].pc # "append"
  BY <1>3 DEF AllHeld, HeldOK
<1> QED
  BY <1>3, <1>7, <1>8, <1>9, <1>10, <1>11, <1>12, <1>13, <1>14, <1>15
     DEF Step, MoneySteps, IsTransfer, Op, At, AdjustGate, MonthlyRead, AppendStep,
         UndoGate, UndoRead, UndoRetry, UndoWrite, CurrencyRead, RelabelWrite,
         ConvertWrite, SettingsWrite, ContentWrite, DeleteRead, DeleteWrite

-----------------------------------------------------------------------------
(* Legs and the steps that write them. *)

LEMMA AddedLegs ==
  ASSUME DocsOK, DocsOK', LegsLinked, NEW r \in Requests, NEW a \in Accounts,
         NEW leg \in MoneyLegs, NEW tx \in Tx, Added(a, tx), tx.id = <<r, leg>>
  PROVE  /\ HasLeg(accounts'[a], r, leg) /\ accounts[a].exists /\ accounts'[a].exists
         /\ \A l \in MoneyLegs : l # leg =>
              (HasLeg(accounts'[a], r, l) <=> HasLeg(accounts[a], r, l))
<1>1. accounts[a].exists /\ accounts'[a].exists
  BY DEF Added, Advanced
<1>2. HasLeg(accounts'[a], r, leg)
  <2> DEFINE old == accounts[a].txs
             new == accounts'[a].txs
  <2>1. old \in Seq(Tx) /\ new = Append(old, tx)
    BY DEF Added, DocsOK, Account
  <2> HIDE DEF old, new
  <2>2. /\ Len(old) \in Nat /\ DOMAIN new = 1..(Len(old) + 1)
        /\ new[Len(old) + 1] = tx
    BY <2>1, AppendIs
  <2>3. Len(old) + 1 \in DOMAIN new
    BY <2>2
  <2> QED  BY <2>2, <2>3 DEF HasLeg, TxsById, new
<1>3. ASSUME NEW l \in MoneyLegs, l # leg
      PROVE  HasLeg(accounts'[a], r, l) <=> HasLeg(accounts[a], r, l)
  <2>1. {tx} \in SUBSET Tx /\ Changed(a, {tx})
    BY DEF Changed
  <2>2. \A ty \in {tx} : ty.id # <<r, l>>
    BY <1>3
  <2>3. HasLeg(accounts'[a], r, l) => HasLeg(accounts[a], r, l)
    BY <2>1, <2>2, ChangedLegs
  <2>4. HasLeg(accounts[a], r, l) => HasLeg(accounts'[a], r, l)
    BY <1>1, <2>1, ChangedLegs
  <2> QED  BY <2>3, <2>4
<1> QED
  BY <1>1, <1>2, <1>3

LEMMA CourseMoney ==
  ASSUME DocsOK, DocsOK', RequestsOK, AllHeld, LegsLinked, ~SameMillisecond,
         NEW r \in Requests, CourseOK(r, req[r], accounts), MoneySteps(r)
  PROVE  CourseOK(r, req'[r], accounts')
<1> DEFINE from == Op(r).acc
           to == Op(r).to
<1>1. IsTransfer(Op(r))
  BY CommitAdds, DebitAdds, CreditAdds, RevertAdds DEF MoneySteps
<1>2. /\ from \in Accounts /\ to \in Accounts /\ from # to
      /\ OutTx(r) \in Tx /\ InTx(r) \in Tx /\ RevertTx(r) \in Tx
      /\ OutTx(r).id = <<r, "out">> /\ InTx(r).id = <<r, "in">>
      /\ RevertTx(r).id = <<r, "revert">>
  BY <1>1, LegsAre DEF LegTxs
<1>3. "out" \in MoneyLegs /\ "in" \in MoneyLegs /\ "revert" \in MoneyLegs
  BY DEF MoneyLegs
<1>4. req'[r].op = req[r].op /\ req[r].op = Op(r)
  <2>1. Step(r)
    BY DEF MoneySteps, Step
  <2> QED  BY <2>1, StepTurn DEF Turn, Op
<1>5. req[r].answer = "none"
  <2>1. Step(r)
    BY DEF MoneySteps, Step
  <2> QED  BY <2>1, StepsWaiting
<1>6. ASSUME NEW answer, answer \notin {"failed", "repair"}, Finish(r, answer)
      PROVE  CourseOK(r, req'[r], accounts')
  <2>1. req'[r].pc = "done" /\ req'[r].answer = answer
    BY <1>6, FinishIs
  <2> QED  BY <1>6, <2>1 DEF CourseOK, Before, Between
<1>7. ASSUME UNCHANGED accounts, NEW place, Goto(r, place),
             \/ req[r].pc \in Before /\ place \in Before
             \/ req[r].pc \in Between /\ place \in Between
      PROVE  CourseOK(r, req'[r], accounts')
  <2>1. req'[r].pc = place /\ req'[r].answer = "none"
    BY <1>5, <1>7, GotoIs
  <2> QED  BY <1>4, <1>7, <2>1 DEF CourseOK, Before, Between
<1>12. ASSUME req'[r].pc = "answer", req'[r].answer = "none"
       PROVE  CourseOK(r, req'[r], accounts')
  BY <1>12 DEF CourseOK, Before, Between
<1>8. CASE TransferCommit(r)
  BY <1>5, <1>8, <1>12, DropSnapIs DEF TransferCommit
<1>9. CASE TransferDebit(r)
  <2>1. req[r].pc = "debit"
    BY <1>9 DEF TransferDebit, At
  <2>2. CASE OnlyAdded(r, from, OutTx(r)) /\ Goto(r, "credit")
    <3>1. accounts'[to] = accounts[to] /\ Added(from, OutTx(r))
      BY <1>2, <2>2 DEF OnlyAdded
    <3>2. /\ ~HasLeg(accounts[from], r, "revert") /\ ~HasLeg(accounts[to], r, "in")
      BY <1>1, <1>4, <2>1 DEF CourseOK, Before
    <3>3. /\ HasLeg(accounts'[from], r, "out") /\ ~HasLeg(accounts'[from], r, "revert")
      BY <1>2, <1>3, <3>1, <3>2, AddedLegs
    <3>4. req'[r].pc = "credit" /\ req'[r].answer = "none"
      BY <1>5, <2>2, GotoIs
    <3> QED  BY <1>4, <3>1, <3>2, <3>3, <3>4 DEF CourseOK, Before, Between
  <2>3. CASE UNCHANGED accounts /\ Goto(r, "lost")
    BY <1>7, <2>1, <2>3 DEF Before
  <2> QED  BY <1>6, <1>9, <2>2, <2>3, DebitAdds
<1>10. CASE TransferCredit(r)
  <2>1. req[r].pc = "credit"
    BY <1>10 DEF TransferCredit, At
  <2>2. CASE UNCHANGED accounts /\ (Goto(r, "clear") \/ Goto(r, "revert"))
    BY <1>7, <2>1, <2>2 DEF Between
  <2>3. CASE Goto(r, "answer")
    BY <1>5, <1>12, <2>3, GotoIs
  <2> QED  BY <1>10, <2>2, <2>3, CreditAdds
<1>11. CASE TransferRevert(r)
  <2>1. req[r].pc = "revert"
    BY <1>11 DEF TransferRevert, At
  <2>2. /\ ~HasLeg(accounts[to], r, "in")
        /\ accounts[from].exists => HasLeg(accounts[from], r, "out")
    BY <1>1, <1>4, <2>1 DEF CourseOK, Between
  <2>3. req'[r].pc = "done"
    BY <1>11, FinishIs DEF TransferRevert, Reject
  <2>4. CASE OnlyAdded(r, from, RevertTx(r))
    <3>1. accounts'[to] = accounts[to] /\ Added(from, RevertTx(r))
      BY <1>2, <2>4 DEF OnlyAdded
    <3>2. HasLeg(accounts'[from], r, "out") /\ HasLeg(accounts'[from], r, "revert")
      BY <1>2, <1>3, <2>2, <3>1, AddedLegs
    <3> QED  BY <1>4, <2>2, <2>3, <3>1, <3>2 DEF CourseOK, Before, Between
  <2>5. CASE UNCHANGED accounts /\ (~Source(r).exists \/ Finish(r, "repair"))
    <3>1. ~Source(r).exists \/ req'[r].answer = "repair"
      BY <2>5, FinishIs
    <3> QED  BY <1>4, <2>2, <2>3, <2>5, <3>1 DEF CourseOK, Before, Between, Source
  <2> QED  BY <1>11, <2>4, <2>5, RevertAdds
<1> QED
  BY <1>8, <1>9, <1>10, <1>11 DEF MoneySteps

LEMMA CourseKept ==
  ASSUME DocsOK, DocsOK', RequestsOK, AllHeld, LegsLinked, AllOnCourse, Serial,
         NEW r \in Requests, Step(r) \/ Crash(r)
  PROVE  AllOnCourse'
<1>1. CourseOK(r, req'[r], accounts')
  <2>1. CASE MoneySteps(r)
    BY <2>1, CourseMoney DEF AllOnCourse, Serial
  <2>2. CASE ~MoneySteps(r)
    <3>1. \A a \in Accounts : LegsHere(r, a)
      BY <2>2, QuietSteps, LegsHereOther
    <3>2. CourseOK(r, req[r], accounts')
      BY <3>1, CourseStays DEF AllOnCourse
    <3> QED  BY <2>2, <3>2, CourseQuiet
  <2> QED  BY <2>1, <2>2
<1>2. ASSUME NEW q \in Requests, q # r PROVE CourseOK(q, req'[q], accounts')
  <2>1. \A a \in Accounts : LegsHere(q, a)
    BY <1>2, StepsWrite, LegsHereOther
  <2>2. CourseOK(q, req[q], accounts')
    BY <2>1, CourseStays DEF AllOnCourse
  <2>3. req'[q] = req[q]
    BY <1>2, StepTurn DEF Turn
  <2> QED  BY <2>2, <2>3
<1>3. ASSUME NEW q \in Requests PROVE CourseOK(q, req[q], accounts)'
  <2>1. CourseOK(q, req'[q], accounts')
    BY <1>1, <1>2
  <2> QED  BY <2>1 DEF CourseOK, HasLeg, TxsById
<1> QED
  BY <1>3 DEF AllOnCourse

-----------------------------------------------------------------------------
(* The inductive invariant of the two theorems on histories. *)

Traceable == Consistent /\ AllHeld /\ LegsLinked /\ GoneBare /\ AllOnCourse

LEMMA InitTraceable == Init => Traceable
<1> SUFFICES ASSUME Init PROVE Traceable
  OBVIOUS
<1>1. Consistent
  BY InitConsistent
<1>2. ASSUME NEW r \in Requests
      PROVE  req[r].op \in Operations /\ req[r].pc = "start" /\ req[r].answer = "none"
  BY DEF Init
<1>3. AllHeld
  BY <1>2 DEF AllHeld, HeldOK
<1>4. ASSUME NEW a \in Accounts, NEW i \in DOMAIN accounts[a].txs
      PROVE  accounts[a].txs[i].id \notin Requests \X MoneyLegs
  <2>1. accounts[a].txs[i].id \notin Requests \X Legs
    BY AccountsAssumption DEF Init
  <2> QED  BY <2>1 DEF MoneyLegs, Legs
<1>5. LegsLinked
  BY <1>4 DEF LegsLinked
<1>6. GoneBare
  BY <1>4 DEF GoneBare, TxsById
<1>7. ASSUME NEW a \in Accounts, NEW r \in Requests, NEW leg \in MoneyLegs
      PROVE  ~HasLeg(accounts[a], r, leg)
  <2>1. <<r, leg>> \in Requests \X MoneyLegs
    OBVIOUS
  <2> QED  BY <1>4, <2>1 DEF HasLeg, TxsById
<1>8. AllOnCourse
  <2> SUFFICES ASSUME NEW r \in Requests, IsTransfer(req[r].op)
               PROVE  CourseOK(r, req[r], accounts)
    BY DEF AllOnCourse, CourseOK
  <2>1. req[r].op.acc \in Accounts /\ req[r].op.to \in Accounts
    BY <1>2, OperationType
  <2>2. "out" \in MoneyLegs /\ "in" \in MoneyLegs /\ "revert" \in MoneyLegs
    BY DEF MoneyLegs
  <2> QED  BY <1>2, <1>7, <2>1, <2>2 DEF CourseOK, Before, Between
<1> QED
  BY <1>1, <1>3, <1>5, <1>6, <1>8 DEF Traceable

LEMMA NextTraceable ==
  ASSUME Serial, Traceable, [Next]_vars
  PROVE  Traceable'
<1>1. Consistent'
  BY NextConsistent DEF Traceable
<1>2. DocsOK /\ RequestsOK /\ DocsOK'
  BY <1>1 DEF Traceable, Consistent
<1>3. ASSUME NEW r \in Requests, Step(r) \/ Crash(r) PROVE Traceable'
  <2>1. \A a \in Accounts : Written(a, r)
    BY <1>2, <1>3, StepsWrite DEF Traceable
  <2>2. AllHeld' /\ LegsLinked' /\ GoneBare' /\ AllOnCourse'
    BY <1>2, <1>3, <2>1, HeldKept, LegsStayLinked, GoneStayBare, CourseKept DEF Traceable
  <2> QED  BY <1>1, <2>2 DEF Traceable
<1>4. CASE UNCHANGED vars
  <2>1. accounts' = accounts /\ req' = req
    BY <1>4 DEF vars
  <2>2. AllHeld'
    BY <2>1 DEF Traceable, AllHeld, HeldOK
  <2>3. LegsLinked' /\ GoneBare'
    BY <2>1 DEF Traceable, LegsLinked, GoneBare, TxsById
  <2>4. AllOnCourse'
    BY <2>1 DEF Traceable, AllOnCourse, CourseOK, HasLeg, TxsById
  <2> QED  BY <1>1, <2>2, <2>3, <2>4 DEF Traceable
<1> QED
  BY <1>3, <1>4 DEF Next

(* Documents, requests and legs agree in every reachable state. *)
THEOREM AlwaysTraceable ==
  ASSUME Serial
  PROVE  Spec => []Traceable
<1>1. Traceable /\ [Next]_vars => Traceable'
  BY NextTraceable
<1> QED
  BY <1>1, InitTraceable, PTL DEF Spec

(***************************************************************************)
(* RC-E3, RC-E7: whatever overlaps, with or without transactions, no step  *)
(* loses or reorders entries of an account that stays.                     *)
(***************************************************************************)
THEOREM HistoryNeverLost ==
  ASSUME Serial
  PROVE  Spec => HistoryKept
<1> DEFINE Kept == \A a \in Accounts : Survives(a) => HistoryStep(a)
<1>1. Traceable /\ Traceable' /\ [Next]_vars => [Kept]_vars
  <2> SUFFICES ASSUME Traceable, Traceable', NEW r \in Requests, Step(r) \/ Crash(r),
                      NEW a \in Accounts, Survives(a)
               PROVE  HistoryStep(a)
    BY DEF Next
  <2>1. DocsOK /\ DocsOK' /\ RequestsOK
    BY DEF Traceable, Consistent
  <2>2. Written(a, r)
    BY <2>1, StepsWrite DEF Traceable
  <2> QED  BY <2>1, <2>2, NewTxs, ChangedHistory DEF Written
<1> QED
  BY <1>1, AlwaysTraceable, PTL DEF Spec, HistoryKept

(***************************************************************************)
(* The compensation of the fallback: a transfer that failed credited       *)
(* nobody, and gave back what it took unless the log asks for repair.      *)
(***************************************************************************)
THEOREM FailuresCompensated ==
  ASSUME Serial
  PROVE  Spec => []FailureCompensated
<1>1. Traceable => FailureCompensated
  BY DEF Traceable, AllOnCourse, CourseOK, FailureCompensated, Transfers, Source,
         Target, Op
<1> QED
  BY <1>1, AlwaysTraceable, PTL

-----------------------------------------------------------------------------
(***************************************************************************)
(* The refinement.  With transactions a nonce in a history belongs to a    *)
(* transfer already made, so a replay has an original to report and a      *)
(* commit with that nonce is impossible.                                   *)
(***************************************************************************)

(* A transfer with this source and nonce has been carried out. *)
OriginalMade(acc, nonce, requests) ==
  \E q \in Requests :
    /\ IsTransfer(requests[q].op) /\ Carried(requests[q])
    /\ requests[q].op.acc = acc /\ requests[q].op.nonce = nonce

(* A debit carries its request's nonce; a nonce is that of a made transfer. *)
EntryMade(a, tx, requests) ==
  /\ \A q \in Requests : tx.id = <<q, "out">> => tx.nonce = requests[q].op.nonce
  /\ tx.nonce # NoNonce => OriginalMade(a, tx.nonce, requests)

(* A nonce in a history is that of a transfer that was made. *)
NoncesMade ==
  \A a \in Accounts : \A i \in DOMAIN accounts[a].txs :
    EntryMade(a, accounts[a].txs[i], req)

(* The same of the nonce a request is about to replay. *)
ReplayMade(q, requests) ==
  /\ q.pc = "readTo" /\ Spent(q.snap[q.op.acc], q.op) =>
       OriginalMade(q.op.acc, q.op.nonce, requests)
  /\ q.pc = "replayTo" =>
       q.op.nonce # NoNonce /\ OriginalMade(q.op.acc, q.op.nonce, requests)

(* A request about to answer "replayed" has an original to speak of. *)
ReplaysMade == \A r \in Requests : ReplayMade(req[r], req)

(* A transfer that was made stays made: only its answer is left to come. *)
LEMMA CarriedStays ==
  ASSUME RequestsOK, AllHeld, NEW r \in Requests, Step(r) \/ Crash(r), Carried(req[r])
  PROVE  /\ Carried(req'[r]) /\ req[r].pc = "answer"
         /\ AnswerTransfer(r) \/ Crash(r)
<1>1. req[r].pc = "answer"
  BY StepsWaiting DEF Carried
<1>2. AnswerTransfer(r) \/ Crash(r)
  BY <1>1 DEF Step, AdjustGate, UndoGate, Gate, MonthlyRead, AppendStep, UndoRead,
     UndoRetry, UndoWrite, CurrencyRead, RelabelWrite, ConvertWrite, SettingsWrite,
     ContentWrite, DeleteRead, DeleteWrite, TransferReadFrom, TransferReadTo,
     TransferBegin, TransferRetry, TransferCommit, ReplayRead, ReplayTo,
     TransferDebit, LostRace, TransferCredit, FreeNonce, TransferRevert, At
<1>3. req'[r].answer \in {"ok", "unheard"}
  BY <1>1, <1>2, FinishIs DEF AnswerTransfer, Crash, At
<1> QED
  BY <1>1, <1>2, <1>3 DEF Carried

LEMMA MadeStays ==
  ASSUME NEW r \in Requests, Turn(r), Carried(req[r]) => Carried(req'[r]),
         NEW acc, NEW nonce,
         OriginalMade(acc, nonce, req)
  PROVE  OriginalMade(acc, nonce, req')
<1>1. PICK q \in Requests :
        /\ IsTransfer(req[q].op) /\ Carried(req[q])
        /\ req[q].op.acc = acc /\ req[q].op.nonce = nonce
  BY DEF OriginalMade
<1>2. req'[q].op = req[q].op /\ Carried(req'[q])
  BY <1>1 DEF Turn
<1> QED
  BY <1>1, <1>2 DEF OriginalMade

LEMMA EntriesMade ==
  ASSUME DocsOK, DocsOK', ReplicaSet, NoncesMade, NEW r \in Requests, Turn(r),
         Carried(req[r]) => Carried(req'[r]), NEW a \in Accounts, NEW more \in SUBSET Tx,
         Changed(a, more), \A tx \in more : EntryMade(a, tx, req')
  PROVE  \A i \in DOMAIN accounts'[a].txs : EntryMade(a, accounts'[a].txs[i], req')
<1> SUFFICES ASSUME NEW i \in DOMAIN accounts'[a].txs
             PROVE  EntryMade(a, accounts'[a].txs[i], req')
  OBVIOUS
<1>1. ASSUME NEW j \in DOMAIN accounts[a].txs,
             accounts'[a].txs[i].id = accounts[a].txs[j].id,
             accounts'[a].txs[i].nonce = accounts[a].txs[j].nonce
      PROVE  EntryMade(a, accounts'[a].txs[i], req')
  <2>1. EntryMade(a, accounts[a].txs[j], req)
    BY DEF NoncesMade
  <2>2. \A q \in Requests : req'[q].op = req[q].op
    BY DEF Turn
  <2> QED  BY <1>1, <2>1, <2>2, MadeStays DEF EntryMade
<1> QED
  BY <1>1, ChangedEntries

LEMMA NoncesKept ==
  ASSUME DocsOK, DocsOK', RequestsOK, AllHeld, ReplicaSet, Serial, NoncesMade,
         NEW r \in Requests, Step(r) \/ Crash(r)
  PROVE  NoncesMade'
<1>1. Turn(r) /\ (Carried(req[r]) => Carried(req'[r]))
  BY StepTurn, CarriedStays
<1>2. ASSUME NEW a \in Accounts, Quiet(a, r)
      PROVE  \A i \in DOMAIN accounts'[a].txs : EntryMade(a, accounts'[a].txs[i], req')
  <2>1. ASSUME NEW tx \in PlainTxs(r) PROVE EntryMade(a, tx, req')
    BY DEF PlainTxs, EntryMade
  <2>2. Changed(a, PlainTxs(r)) /\ PlainTxs(r) \in SUBSET Tx
    BY <1>2, NewTxs DEF Quiet
  <2> QED  BY <1>1, <2>1, <2>2, EntriesMade
<1>3. ASSUME TransferCommit(r), NEW a \in Accounts
      PROVE  \A i \in DOMAIN accounts'[a].txs : EntryMade(a, accounts'[a].txs[i], req')
  <2>1. /\ IsTransfer(Op(r)) /\ Added(Op(r).acc, OutTx(r)) /\ Added(Op(r).to, InTx(r))
        /\ a \notin {Op(r).acc, Op(r).to} => accounts'[a] = accounts[a]
    BY <1>3, CommitAdds DEF Serial
  <2>2. /\ OutTx(r) \in Tx /\ OutTx(r).id = <<r, "out">> /\ OutTx(r).nonce = Op(r).nonce
        /\ InTx(r) \in Tx /\ InTx(r).id = <<r, "in">> /\ InTx(r).nonce = NoNonce
    BY <2>1, LegsAre DEF LegTxs
  <2>3. CASE a = Op(r).acc
    <3>1. req'[r].pc = "answer" /\ req'[r].op = Op(r)
      BY <1>1, <1>3, DropSnapIs DEF TransferCommit, Turn, Op
    <3>2. OriginalMade(a, Op(r).nonce, req')
      BY <2>1, <2>3, <3>1 DEF OriginalMade, Carried
    <3>3. EntryMade(a, OutTx(r), req')
      BY <2>2, <3>1, <3>2 DEF EntryMade
    <3>4. Changed(a, {OutTx(r)}) /\ {OutTx(r)} \in SUBSET Tx
      BY <2>1, <2>2, <2>3 DEF Changed
    <3> QED  BY <1>1, <3>3, <3>4, EntriesMade
  <2>4. CASE a = Op(r).to
    <3>1. EntryMade(a, InTx(r), req')
      BY <2>2 DEF EntryMade
    <3>2. Changed(a, {InTx(r)}) /\ {InTx(r)} \in SUBSET Tx
      BY <2>1, <2>2, <2>4 DEF Changed
    <3> QED  BY <1>1, <3>1, <3>2, EntriesMade
  <2>5. CASE accounts'[a] = accounts[a]
    BY <1>2, <2>5, QuietIfSame
  <2> QED  BY <2>1, <2>3, <2>4, <2>5
<1>4. ~TransferDebit(r) /\ ~TransferCredit(r) /\ ~TransferRevert(r)
  BY DebitAdds, CreditAdds, RevertAdds DEF Serial
<1>5. ASSUME NEW a \in Accounts
      PROVE  \A i \in DOMAIN accounts'[a].txs : EntryMade(a, accounts'[a].txs[i], req')
  <2>1. CASE TransferCommit(r)
    BY <1>3, <2>1
  <2>2. CASE ~TransferCommit(r)
    BY <1>2, <1>4, <2>2, QuietSteps DEF MoneySteps
  <2> QED  BY <2>1, <2>2
<1> QED
  BY <1>5 DEF NoncesMade, EntryMade, OriginalMade, Carried

LEMMA NonceSpoken ==
  ASSUME NoncesMade, NEW a \in Accounts, NEW nonce, nonce # NoNonce,
         HasNonce(accounts[a], nonce)
  PROVE  OriginalMade(a, nonce, req)
BY DEF NoncesMade, EntryMade, HasNonce

LEMMA ReplaysKept ==
  ASSUME DocsOK, RequestsOK, AllHeld, NoncesMade, ReplaysMade,
         NEW r \in Requests, Step(r) \/ Crash(r)
  PROVE  ReplaysMade'
<1>1. /\ Turn(r) /\ req'[r].op = req[r].op
      /\ Carried(req[r]) => Carried(req'[r])
  BY StepTurn, CarriedStays DEF Turn
<1>2. ReplayMade(req[r], req)
  BY DEF ReplaysMade
<1> DEFINE op == req[r].op
<1>3. op.acc \in Accounts
  BY DocFacts DEF Op
<1>4. ASSUME NEW place, place \notin {"readTo", "replayTo"}, req'[r].pc = place
      PROVE  ReplayMade(req'[r], req')
  BY <1>4 DEF ReplayMade
<1>5. ASSUME \/ \E answer : Finish(r, answer)
             \/ \E place : place \notin {"readTo", "replayTo"} /\ Goto(r, place)
             \/ \E place, delta : /\ place \notin {"readTo", "replayTo"}
                                  /\ req' = [req EXCEPT ![r].pc = place, ![r].delta = delta]
             \/ \E place : /\ place \notin {"readTo", "replayTo"}
                           /\ req' = [req EXCEPT ![r].pc = place, ![r].snap = NoSnapshot]
             \/ \E place, names : /\ place \notin {"readTo", "replayTo"}
                                  /\ Remember(r, names, place)
      PROVE  ReplayMade(req'[r], req')
  <2>1. CASE \E answer : Finish(r, answer)
    <3>1. req'[r].pc = "done"
      BY <2>1, FinishIs
    <3> QED  BY <1>4, <3>1
  <2>2. CASE \E place : place \notin {"readTo", "replayTo"} /\ Goto(r, place)
    BY <1>4, <2>2, GotoIs
  <2>3. CASE \E place, delta : /\ place \notin {"readTo", "replayTo"}
                               /\ req' = [req EXCEPT ![r].pc = place, ![r].delta = delta]
    BY <1>4, <2>3, SetDeltaIs
  <2>4. CASE \E place : /\ place \notin {"readTo", "replayTo"}
                        /\ req' = [req EXCEPT ![r].pc = place, ![r].snap = NoSnapshot]
    BY <1>4, <2>4, DropSnapIs
  <2>5. CASE \E place, names : /\ place \notin {"readTo", "replayTo"}
                               /\ Remember(r, names, place)
    BY <1>4, <2>5, RememberIs
  <2> QED  BY <1>5, <2>1, <2>2, <2>3, <2>4, <2>5
<1>12. ReplayMade(req'[r], req')
  <2>6. CASE TransferReadFrom(r)
    <3>1. req'[r].pc = "readTo" /\ req'[r].snap[op.acc] = accounts[op.acc]
      BY <1>3, <2>6, RememberIs DEF TransferReadFrom, Op
    <3>2. Spent(accounts[op.acc], op) => OriginalMade(op.acc, op.nonce, req')
      BY <1>1, <1>3, NonceSpoken, MadeStays DEF Spent
    <3> QED  BY <1>1, <3>1, <3>2 DEF ReplayMade
  <2>7. CASE TransferReadTo(r)
    <3>1. CASE Spent(req[r].snap[op.acc], op) /\ Goto(r, "replayTo")
      <4>1. req'[r].pc = "replayTo" /\ op.nonce # NoNonce
        BY <3>1, GotoIs DEF Spent
      <4>2. OriginalMade(op.acc, op.nonce, req')
        BY <1>1, <1>2, <2>7, <3>1, MadeStays DEF ReplayMade, TransferReadTo, At
      <4> QED  BY <1>1, <4>1, <4>2 DEF ReplayMade
    <3> QED  BY <1>5, <2>7, <3>1 DEF TransferReadTo, Op
  <2>8. CASE ReplayRead(r)
    <3>1. CASE HasNonce(accounts[op.acc], op.nonce) /\ Remember(r, {op.acc}, "replayTo")
      <4>1. req'[r].pc = "replayTo"
        BY <3>1, RememberIs
      <4>2. op.nonce # NoNonce
        BY <2>8 DEF ReplayRead, At, AllHeld, HeldOK
      <4>3. OriginalMade(op.acc, op.nonce, req')
        BY <1>1, <1>3, <3>1, <4>2, NonceSpoken, MadeStays
      <4> QED  BY <1>1, <4>1, <4>2, <4>3 DEF ReplayMade
    <3> QED  BY <1>5, <2>8, <3>1 DEF ReplayRead, Op, Source
  <2>9. CASE AdjustGate(r) \/ UndoGate(r) \/ MonthlyRead(r)
    BY <1>5, <2>9 DEF AdjustGate, UndoGate, Gate, MonthlyRead, Reject
  <2>10. CASE \/ AppendStep(r) \/ UndoRead(r) \/ UndoRetry(r) \/ UndoWrite(r)
             \/ CurrencyRead(r) \/ RelabelWrite(r) \/ ConvertWrite(r)
             \/ SettingsWrite(r) \/ ContentWrite(r) \/ DeleteRead(r) \/ DeleteWrite(r)
    BY <1>5, <2>10 DEF AppendStep, UndoRead, UndoRetry, UndoWrite,
       CurrencyRead, RelabelWrite, ConvertWrite, SettingsWrite, ContentWrite,
       DeleteRead, DeleteWrite, Reject
  <2>11. CASE \/ TransferBegin(r) \/ TransferRetry(r)
             \/ TransferCommit(r) \/ ReplayTo(r) \/ TransferDebit(r)
             \/ LostRace(r) \/ TransferCredit(r) \/ FreeNonce(r) \/ TransferRevert(r)
             \/ AnswerTransfer(r) \/ Crash(r)
    BY <1>5, <2>11 DEF TransferBegin, TransferRetry,
       TransferCommit, ReplayTo, TransferDebit, LostRace, TransferCredit,
       FreeNonce, TransferRevert, AnswerTransfer, Crash, Reject
  <2> QED  BY <2>6, <2>7, <2>8, <2>9, <2>10, <2>11 DEF Step
<1>13. ASSUME NEW q \in Requests, q # r PROVE ReplayMade(req'[q], req')
  <2>1. req'[q] = req[q] /\ ReplayMade(req[q], req)
    BY <1>1, <1>13 DEF Turn, ReplaysMade
  <2> QED  BY <1>1, <2>1, MadeStays DEF ReplayMade
<1>14. \A q \in Requests : ReplayMade(req'[q], req')
  BY <1>12, <1>13
<1> QED
  BY <1>14 DEF ReplaysMade, ReplayMade, OriginalMade, Carried, Spent

(* With a replica set the refinement mapping's argument needs this much. *)
PromiseInv ==
  /\ Traceable
  /\ ReplicaSet => NoncesMade /\ ReplaysMade

LEMMA PromiseInvariant ==
  ASSUME Serial
  PROVE  Spec => []PromiseInv
<1>1. Init => PromiseInv
  <2> SUFFICES ASSUME Init PROVE NoncesMade /\ ReplaysMade
    BY InitTraceable DEF PromiseInv
  <2>1. ASSUME NEW a \in Accounts, NEW i \in DOMAIN accounts[a].txs
        PROVE  EntryMade(a, accounts[a].txs[i], req)
    <3>1. /\ accounts[a].txs[i].nonce = NoNonce
          /\ accounts[a].txs[i].id \notin Requests \X Legs
      BY AccountsAssumption DEF Init
    <3>2. ASSUME NEW q \in Requests PROVE accounts[a].txs[i].id # <<q, "out">>
      <4>1. <<q, "out">> \in Requests \X Legs
        BY DEF Legs
      <4> QED  BY <3>1, <4>1
    <3> QED  BY <3>1, <3>2 DEF EntryMade
  <2>2. ASSUME NEW r \in Requests PROVE ReplayMade(req[r], req)
    <3>1. req[r].pc = "start"
      BY DEF Init
    <3> QED  BY <3>1 DEF ReplayMade
  <2> QED  BY <2>1, <2>2 DEF NoncesMade, ReplaysMade
<1>2. PromiseInv /\ [Next]_vars => PromiseInv'
  <2> SUFFICES ASSUME PromiseInv, [Next]_vars PROVE PromiseInv'
    OBVIOUS
  <2>1. Traceable /\ Traceable'
    BY NextTraceable DEF PromiseInv
  <2>2. DocsOK /\ DocsOK' /\ RequestsOK /\ AllHeld
    BY <2>1 DEF Traceable, Consistent
  <2>3. ASSUME ReplicaSet PROVE NoncesMade' /\ ReplaysMade'
    <3>1. NoncesMade /\ ReplaysMade
      BY <2>3 DEF PromiseInv
    <3>2. ASSUME NEW r \in Requests, Step(r) \/ Crash(r)
          PROVE  NoncesMade' /\ ReplaysMade'
      BY <2>2, <2>3, <3>1, <3>2, NoncesKept, ReplaysKept
    <3>3. CASE UNCHANGED vars
      <4>1. accounts' = accounts /\ req' = req
        BY <3>3 DEF vars
      <4>2. NoncesMade'
        BY <3>1, <4>1 DEF NoncesMade, EntryMade, OriginalMade, Carried
      <4>3. ReplaysMade'
        BY <3>1, <4>1 DEF ReplaysMade, ReplayMade, OriginalMade, Carried, Spent
      <4> QED  BY <4>2, <4>3
    <3> QED  BY <3>2, <3>3 DEF Next
  <2> QED  BY <2>1, <2>3 DEF PromiseInv
<1> QED
  BY <1>1, <1>2, PTL DEF Spec

(* The abstract variables. *)
Asked == [r \in Requests |-> [from |-> Op(r).acc, to |-> Op(r).to, nonce |-> Op(r).nonce]]
Open == {a \in Accounts : accounts[a].exists}
Debited == {r \in Transfers : HasLeg(Source(r), r, "out")}
Credited == {r \in Transfers : HasLeg(Target(r), r, "in")}
Made == {r \in Transfers : Carried(req[r])}
Told == [r \in Requests |-> PublicAnswer(r)]

LEMMA AskedFixed ==
  ASSUME NEW r \in Requests, Turn(r)
  PROVE  Asked' = Asked /\ Transfers' = Transfers
BY DEF Turn, Asked, Op, Transfers

LEMMA ToldTurn ==
  ASSUME NEW r \in Requests, Turn(r)
  PROVE  Told' = [Told EXCEPT ![r] = PublicAnswer(r)']
<1>1. \A q \in Requests : req'[q].op = req[q].op
  BY DEF Turn
<1>2. \A q \in Requests : q # r => PublicAnswer(q)' = PublicAnswer(q)
  BY <1>1 DEF Turn, PublicAnswer, Op
<1> QED
  BY <1>2 DEF Told

LEMMA MadeTurn ==
  ASSUME NEW r \in Requests, Turn(r)
  PROVE  /\ r \notin Transfers \/ (Carried(req'[r]) <=> Carried(req[r])) => Made' = Made
         /\ r \in Transfers /\ Carried(req'[r]) => Made' = Made \cup {r}
<1>1. Transfers' = Transfers
  BY AskedFixed
<1>2. \A q \in Transfers : q # r => (Carried(req[q])' <=> Carried(req[q]))
  BY DEF Turn, Carried, Transfers
<1>3. Carried(req[r])' <=> Carried(req'[r])
  BY DEF Carried
<1> QED
  BY <1>1, <1>2, <1>3 DEF Made

(* A step that opens or closes nothing and adds no leg. *)
LEMMA BooksSame ==
  ASSUME DocsOK, DocsOK', RequestsOK, LegsLinked, GoneBare,
         NEW r \in Requests, Turn(r), \A a \in Accounts : Quiet(a, r),
         ~ \E q \in Requests : DeleteWrite(q)
  PROVE  Open' = Open /\ Debited' = Debited /\ Credited' = Credited
<1>1. ASSUME NEW a \in Accounts PROVE accounts'[a].exists = accounts[a].exists
  <2>1. ~Closed(a)
    BY DEF Closed
  <2>2. Changed(a, PlainTxs(r))
    BY DEF Quiet
  <2>3. accounts'[a] = accounts[a] \/ Advanced(a)
    BY <2>1, <2>2 DEF Changed, Rewritten, TakenOff, Added
  <2>4. accounts \in [Accounts -> Account] /\ accounts' \in [Accounts -> Account]
    BY DEF DocsOK
  <2>5. accounts[a].exists \in BOOLEAN /\ accounts'[a].exists \in BOOLEAN
    BY <2>4 DEF Account
  <2> QED  BY <2>3, <2>5 DEF Advanced
<1>2. ASSUME NEW a \in Accounts, NEW q \in Requests, NEW leg \in MoneyLegs
      PROVE  HasLeg(accounts'[a], q, leg) <=> HasLeg(accounts[a], q, leg)
  <2>1. LegsHere(q, a)
    BY LegsHereOther
  <2>2. HasLeg(accounts[a], q, leg) => accounts[a].exists
    <3>1. <<q, leg>> \in Requests \X MoneyLegs
      OBVIOUS
    <3> QED  BY <3>1 DEF GoneBare, HasLeg
  <2> QED  BY <1>1, <2>1, <2>2 DEF LegsHere
<1>3. Transfers' = Transfers /\ \A q \in Requests : req'[q].op = req[q].op
  BY AskedFixed DEF Turn
<1>4. ASSUME NEW q \in Transfers
      PROVE  q \in Requests /\ Op(q).acc \in Accounts /\ Op(q).to \in Accounts
  BY DocFacts, OperationType DEF Transfers, RequestsOK, RequestRecord, Op
<1>5. "out" \in MoneyLegs /\ "in" \in MoneyLegs
  BY DEF MoneyLegs
<1>6. Open' = Open
  BY <1>1 DEF Open
<1>7. ASSUME NEW q \in Transfers
      PROVE  /\ HasLeg(Source(q), q, "out")' <=> HasLeg(Source(q), q, "out")
             /\ HasLeg(Target(q), q, "in")' <=> HasLeg(Target(q), q, "in")
  <2>1. req'[q].op = req[q].op /\ q \in Requests
        /\ Op(q).acc \in Accounts /\ Op(q).to \in Accounts
    BY <1>3, <1>4
  <2>2. /\ HasLeg(accounts'[Op(q).acc], q, "out")
             <=> HasLeg(accounts[Op(q).acc], q, "out")
        /\ HasLeg(accounts'[Op(q).to], q, "in") <=> HasLeg(accounts[Op(q).to], q, "in")
    BY <1>2, <1>5, <2>1
  <2>3. HasLeg(Source(q), q, "out")' <=> HasLeg(accounts'[Op(q).acc], q, "out")
    BY <2>1 DEF HasLeg, Source, Op, TxsById
  <2>4. HasLeg(Target(q), q, "in")' <=> HasLeg(accounts'[Op(q).to], q, "in")
    BY <2>1 DEF HasLeg, Target, Op, TxsById
  <2> QED  BY <2>2, <2>3, <2>4 DEF Source, Target
<1> QED
  BY <1>3, <1>6, <1>7 DEF Debited, Credited

(* The abstract step, in the names above. *)
Stutter == Asked' = Asked /\ Open' = Open /\ Debited' = Debited
             /\ Credited' = Credited /\ Made' = Made /\ Told' = Told

LEMMA StutterIs == Stutter => UNCHANGED Promise!vars
BY DEF Stutter, Asked, Open, Debited, Credited, Made, Told, Promise!vars

LEMMA TellIs ==
  ASSUME NEW r \in Requests, NEW answer, Turn(r), PublicAnswer(r) = "none",
         PublicAnswer(r)' = answer
  PROVE  Promise!Tell(r, answer)
<1>1. Told' = [Told EXCEPT ![r] = answer]
  BY ToldTurn
<1>2. Told[r] = "none"
  BY DEF Told
<1> QED
  BY <1>1, <1>2 DEF Promise!Tell, Told

(* Closing an account takes its legs away and no others. *)
LEMMA CloseStep ==
  ASSUME DocsOK, DocsOK', RequestsOK, AllHeld, GoneBare, NEW r \in Requests,
         DeleteWrite(r)
  PROVE  Promise!Next \/ UNCHANGED Promise!vars
<1>0. PICK a \in Accounts : a = Op(r).acc
  BY DocFacts
<1>1. a \in Accounts /\ IsTransfer(Op(r)) = FALSE
  BY DEF DeleteWrite, IsTransfer
<1>2. accounts'[a] = Gone /\ \A b \in Accounts : b # a => accounts'[b] = accounts[b]
  BY <1>0, <1>1, PutIs DEF DeleteWrite
<1>3. Turn(r)
  BY FinishIs DEF DeleteWrite
<1>4. /\ Asked' = Asked /\ Transfers' = Transfers
      /\ \A q \in Requests : req'[q].op = req[q].op
  BY <1>3, AskedFixed DEF Turn
<1>5. PublicAnswer(r)' = "none" /\ PublicAnswer(r) = "none"
  BY <1>1, <1>4 DEF PublicAnswer, Op
<1>6. Told' = Told
  <2>1. Told' = [Told EXCEPT ![r] = Told[r]]
    BY <1>3, <1>5, ToldTurn DEF Told
  <2> QED  BY <2>1 DEF Told
<1>14. Made' = Made
  BY <1>1, <1>3, MadeTurn DEF Transfers
<1>7. Open' = Open \ {a}
  <2>1. ~accounts'[a].exists
    BY <1>2 DEF Gone
  <2> QED  BY <1>1, <1>2, <2>1 DEF Open
<1>8. ASSUME NEW q \in Transfers
      PROVE  /\ q \in Requests /\ Op(q).acc \in Accounts /\ Op(q).to \in Accounts
             /\ HasLeg(Source(q), q, "out")' <=> HasLeg(accounts'[Op(q).acc], q, "out")
             /\ HasLeg(Target(q), q, "in")' <=> HasLeg(accounts'[Op(q).to], q, "in")
  <2>1. q \in Requests /\ Op(q).acc \in Accounts /\ Op(q).to \in Accounts
    BY DocFacts, OperationType DEF Transfers, RequestsOK, RequestRecord, Op
  <2>2. HasLeg(Source(q), q, "out")' <=> HasLeg(accounts'[Op(q).acc], q, "out")
    BY <1>4, <2>1 DEF HasLeg, Source, Op, TxsById
  <2>3. HasLeg(Target(q), q, "in")' <=> HasLeg(accounts'[Op(q).to], q, "in")
    BY <1>4, <2>1 DEF HasLeg, Target, Op, TxsById
  <2> QED  BY <2>1, <2>2, <2>3
<1>9. \A q, leg : ~HasLeg(accounts'[a], q, leg)
  BY <1>2 DEF HasLeg, TxsById, Gone
<1>10. Debited' = {q \in Debited : Asked[q].from # a}
  <2>1. \A q \in Transfers : Asked[q].from = Op(q).acc
    BY <1>8 DEF Asked
  <2> QED  BY <1>2, <1>4, <1>8, <1>9, <2>1 DEF Debited, Source
<1>11. Credited' = {q \in Credited : Asked[q].to # a}
  <2>1. \A q \in Transfers : Asked[q].to = Op(q).to
    BY <1>8 DEF Asked
  <2> QED  BY <1>2, <1>4, <1>8, <1>9, <2>1 DEF Credited, Target
<1>12. CASE a \in Open
  <2>1. Promise!Close(a)
    BY <1>4, <1>6, <1>7, <1>10, <1>11, <1>12, <1>14
       DEF Promise!Close, Asked, Open, Debited, Credited, Made, Told
  <2> QED  BY <2>1 DEF Promise!Next
<1>13. CASE a \notin Open
  <2>1. ~accounts[a].exists
    BY <1>1, <1>13 DEF Open
  <2>2. ASSUME NEW q \in Requests, NEW leg \in MoneyLegs
        PROVE  ~HasLeg(accounts[a], q, leg)
    <3>1. <<q, leg>> \in Requests \X MoneyLegs
      OBVIOUS
    <3> QED  BY <1>1, <2>1, <3>1 DEF GoneBare, HasLeg
  <2>3. "out" \in MoneyLegs /\ "in" \in MoneyLegs
    BY DEF MoneyLegs
  <2>4. \A q \in Transfers : Asked[q].from = Op(q).acc /\ Asked[q].to = Op(q).to
    BY <1>8 DEF Asked
  <2>5. \A q \in Debited : Asked[q].from # a
    BY <1>8, <2>2, <2>3, <2>4 DEF Debited, Source
  <2>6. \A q \in Credited : Asked[q].to # a
    BY <1>8, <2>2, <2>3, <2>4 DEF Credited, Target
  <2>7. Debited' = Debited
    BY <1>10, <2>5
  <2>8. Credited' = Credited
    BY <1>11, <2>6
  <2>9. Open' = Open
    BY <1>7, <1>13
  <2> QED  BY <1>4, <1>6, <1>14, <2>7, <2>8, <2>9, StutterIs DEF Stutter
<1> QED  BY <1>12, <1>13

(* The commit is both legs at once, with a nonce that was not spent. *)
LEMMA CommitStep ==
  ASSUME DocsOK, DocsOK', RequestsOK, AllHeld, LegsLinked, NoncesMade,
         ~SameMillisecond, NEW r \in Requests, TransferCommit(r)
  PROVE  Promise!Next
<1>1. /\ IsTransfer(Op(r)) /\ Source(r).exists /\ Target(r).exists
      /\ Op(r).nonce # NoNonce => ~HasNonce(Source(r), Op(r).nonce)
      /\ Added(Op(r).acc, OutTx(r)) /\ Added(Op(r).to, InTx(r))
      /\ \A b \in Accounts : b \notin {Op(r).acc, Op(r).to} => accounts'[b] = accounts[b]
  BY CommitAdds
<1>2. /\ OutTx(r).id = <<r, "out">> /\ InTx(r).id = <<r, "in">>
      /\ Op(r).acc \in Accounts /\ Op(r).to \in Accounts /\ Op(r).acc # Op(r).to
  BY <1>1, LegsAre
<1>3. OutTx(r) \in Tx /\ InTx(r) \in Tx
  BY <1>1, LegTypes
<1>4. "out" \in MoneyLegs /\ "in" \in MoneyLegs
  BY DEF MoneyLegs
<1>5. HasLeg(accounts'[Op(r).acc], r, "out") /\ accounts'[Op(r).acc].exists
  BY <1>1, <1>2, <1>3, <1>4, AddedLegs
<1>6. HasLeg(accounts'[Op(r).to], r, "in") /\ accounts'[Op(r).to].exists
  BY <1>1, <1>2, <1>3, <1>4, AddedLegs
<1>7. /\ Turn(r) /\ req[r].answer = "none" /\ req'[r].answer = "none"
      /\ req'[r].pc = "answer" /\ req[r].pc = "commit"
  <2>1. Step(r)
    BY DEF Step
  <2> QED  BY <2>1, DropSnapIs, StepsWaiting DEF TransferCommit, At
<1>8. Asked' = Asked /\ Transfers' = Transfers /\ req'[r].op = req[r].op
      /\ \A q \in Requests : req'[q].op = req[q].op
  BY <1>7, AskedFixed DEF Turn
<1>9. ASSUME NEW b \in Accounts
      PROVE  /\ Written(b, r) /\ accounts'[b].exists = accounts[b].exists
  <2>1. CASE b \in {Op(r).acc, Op(r).to}
    <3>1. \E tx \in LegTxs(r) : Added(b, tx)
      BY <1>1, <2>1, LegsAre
    <3>2. Written(b, r)
      BY <3>1 DEF Written, Changed
    <3> QED  BY <1>1, <1>5, <1>6, <2>1, <3>2, DocFacts DEF Source, Target, DocsOK, Account
  <2>2. CASE b \notin {Op(r).acc, Op(r).to}
    BY <1>1, <2>2 DEF Written, Changed
  <2> QED  BY <2>1, <2>2
<1>10. ASSUME NEW b \in Accounts, NEW q \in Requests, q # r, NEW leg \in MoneyLegs
       PROVE  HasLeg(accounts'[b], q, leg) <=> HasLeg(accounts[b], q, leg)
  <2>1. LegsHere(q, b)
    BY <1>9, <1>10, LegsHereOther
  <2>2. CASE b \in {Op(r).acc, Op(r).to}
    BY <1>5, <1>6, <2>1, <2>2 DEF LegsHere
  <2>3. CASE b \notin {Op(r).acc, Op(r).to}
    BY <1>1, <2>3
  <2> QED  BY <2>2, <2>3
<1>11. ASSUME NEW q \in Transfers
       PROVE  /\ q \in Requests /\ Op(q).acc \in Accounts /\ Op(q).to \in Accounts
              /\ HasLeg(Source(q), q, "out")' <=> HasLeg(accounts'[Op(q).acc], q, "out")
              /\ HasLeg(Target(q), q, "in")' <=> HasLeg(accounts'[Op(q).to], q, "in")
  <2>1. q \in Requests /\ Op(q).acc \in Accounts /\ Op(q).to \in Accounts
    BY DocFacts, OperationType DEF Transfers, RequestsOK, RequestRecord, Op
  <2>2. HasLeg(Source(q), q, "out")' <=> HasLeg(accounts'[Op(q).acc], q, "out")
    BY <1>8, <2>1 DEF HasLeg, Source, Op, TxsById
  <2>3. HasLeg(Target(q), q, "in")' <=> HasLeg(accounts'[Op(q).to], q, "in")
    BY <1>8, <2>1 DEF HasLeg, Target, Op, TxsById
  <2> QED  BY <2>1, <2>2, <2>3
<1>12. r \in Transfers
  BY <1>1 DEF Transfers
<1>13. Debited' = Debited \cup {r}
  <2>1. \A q \in Transfers : HasLeg(Source(q), q, "out")'
                               <=> (q = r \/ HasLeg(Source(q), q, "out"))
    BY <1>4, <1>5, <1>10, <1>11, <1>12 DEF Source
  <2> QED  BY <1>8, <1>12, <2>1 DEF Debited
<1>14. Credited' = Credited \cup {r}
  <2>1. \A q \in Transfers : HasLeg(Target(q), q, "in")'
                               <=> (q = r \/ HasLeg(Target(q), q, "in"))
    BY <1>4, <1>6, <1>10, <1>11, <1>12 DEF Target
  <2> QED  BY <1>8, <1>12, <2>1 DEF Credited
<1>15. Open' = Open /\ {Asked[r].from, Asked[r].to} \subseteq Open
  BY <1>1, <1>2, <1>9 DEF Open, Asked, Source, Target
<1>16. ASSUME NEW q \in Debited, Asked[r].nonce # NoNonce,
              Asked[q].nonce = Asked[r].nonce, Asked[q].from = Asked[r].from
       PROVE  FALSE
  <2>1. q \in Transfers /\ q \in Requests /\ HasLeg(Source(q), q, "out")
    BY <1>11 DEF Debited
  <2>2. Op(q).nonce = Op(r).nonce /\ Op(q).acc = Op(r).acc /\ Op(r).nonce # NoNonce
    BY <1>16, <2>1 DEF Asked
  <2>3. PICK i \in DOMAIN accounts[Op(r).acc].txs :
          accounts[Op(r).acc].txs[i].id = <<q, "out">>
    BY <2>1, <2>2 DEF HasLeg, TxsById, Source
  <2>4. accounts[Op(r).acc].txs[i].nonce = Op(q).nonce
    BY <1>2, <2>1, <2>3 DEF NoncesMade, EntryMade, Op
  <2>5. HasNonce(accounts[Op(r).acc], Op(r).nonce)
    BY <2>2, <2>3, <2>4 DEF HasNonce
  <2> QED  BY <1>1, <2>2, <2>5 DEF Source
<1>17. /\ Made' = Made \cup {r} /\ r \notin Made
       /\ Told' = Told /\ Told[r] = "none"
  <2>1. Carried(req'[r]) /\ ~Carried(req[r])
    BY <1>7 DEF Carried
  <2>2. PublicAnswer(r) = "none" /\ PublicAnswer(r)' = "none"
    BY <1>7 DEF PublicAnswer
  <2>3. Told' = [Told EXCEPT ![r] = Told[r]] /\ Told[r] = "none"
    BY <1>7, <2>2, ToldTurn DEF Told
  <2> QED  BY <1>7, <1>12, <2>1, <2>3, MadeTurn DEF Made, Told
<1>18. Promise!Execute(r)
  BY <1>8, <1>13, <1>14, <1>15, <1>16, <1>17
     DEF Promise!Execute, Promise!SameIntent, Asked, Open, Debited, Credited, Made, Told
<1> QED  BY <1>18 DEF Promise!Next

(* The answer to a transfer that was made, or the crash that loses it. *)
LEMMA AnswerStep ==
  ASSUME PromiseInv, DocsOK', Serial, NEW r \in Requests, Step(r) \/ Crash(r),
         Carried(req[r])
  PROVE  Promise!Next \/ UNCHANGED Promise!vars
<1>1. DocsOK /\ RequestsOK /\ AllHeld /\ LegsLinked /\ GoneBare
  BY DEF PromiseInv, Traceable, Consistent
<1>2. Carried(req'[r]) /\ req[r].pc = "answer" /\ (AnswerTransfer(r) \/ Crash(r))
  BY <1>1, CarriedStays
<1>3. Turn(r) /\ req[r].answer = "none" /\ UNCHANGED accounts
  BY <1>1, <1>2, StepTurn, StepsWaiting DEF AnswerTransfer, Crash
<1>4. Asked' = Asked /\ Made' = Made /\ r \in Made
  <2>1. IsTransfer(Op(r))
    BY <1>1, <1>2 DEF RequestsOK, RequestOK, PlaceOK, TransferPlaces, Op
  <2> QED  BY <1>2, <1>3, <2>1, AskedFixed, MadeTurn DEF Made, Transfers
<1>5. Open' = Open /\ Debited' = Debited /\ Credited' = Credited
  <2>1. \A a \in Accounts : Quiet(a, r)
    BY <1>3, QuietIfSame
  <2>2. ~ \E q \in Requests : DeleteWrite(q)
    <3>1. ASSUME NEW q \in Requests, DeleteWrite(q) PROVE FALSE
      <4>1. req[q].pc = "write" /\ req'[q].pc = "done"
        BY <1>1, <3>1, FinishIs DEF DeleteWrite, At
      <4>2. q = r
        BY <1>3, <4>1 DEF Turn
      <4> QED  BY <1>2, <4>1, <4>2
    <3> QED  BY <3>1
  <2> QED  BY <1>1, <1>3, <2>1, <2>2, BooksSame
<1>6. PublicAnswer(r) = "none"
  BY <1>3 DEF PublicAnswer
<1>7. CASE AnswerTransfer(r)
  <2>1. PublicAnswer(r)' = "ok"
    <3>1. req'[r].answer = "ok" /\ req'[r].op = req[r].op
      BY <1>1, <1>3, <1>7, FinishIs DEF AnswerTransfer, Turn
    <3>2. IsTransfer(req[r].op)
      BY <1>4 DEF Made, Transfers, Op
    <3> QED  BY <3>1, <3>2 DEF PublicAnswer, Op
  <2>2. Promise!Tell(r, "ok")
    BY <1>3, <1>6, <2>1, TellIs
  <2>3. Promise!Confirm(r)
    BY <1>4, <1>5, <2>2 DEF Promise!Confirm, Asked, Open, Debited, Credited, Made
  <2> QED  BY <2>3 DEF Promise!Next
<1>8. CASE Crash(r)
  <2>1. req'[r].answer = "unheard"
    BY <1>1, <1>2, <1>8, FinishIs DEF Crash, At
  <2>2. PublicAnswer(r)' = "none"
    BY <2>1 DEF PublicAnswer
  <2>3. Told' = [Told EXCEPT ![r] = Told[r]]
    BY <1>3, <1>6, <2>2, ToldTurn DEF Told
  <2>4. Told' = Told
    BY <2>3 DEF Told
  <2> QED  BY <1>4, <1>5, <2>4, StutterIs DEF Stutter
<1> QED
  BY <1>2, <1>7, <1>8

(* What the other steps of a transfer may answer. *)
LEMMA TransferAnswers ==
  ASSUME RequestsOK, AllHeld, ReplaysMade, ReplicaSet, NEW r \in Requests,
         IsTransfer(Op(r)), Step(r) \/ Crash(r), ~TransferCommit(r),
         ~Carried(req[r])
  PROVE  /\ ~Carried(req'[r])
         /\ \/ req'[r].answer \in Answers \ {"none", "ok", "replayed", "unheard"}
            \/ req'[r].answer = "none"
            \/ req'[r].answer = "replayed" /\ OriginalMade(Op(r).acc, Op(r).nonce, req)
                 /\ Op(r).nonce # NoNonce
<1> DEFINE bad == Answers \ {"none", "ok", "replayed", "unheard"}
           Expected(q) == /\ q.pc # "answer"
                          /\ \/ q.answer \in bad \cup {"none"}
                             \/ q.answer = "replayed" /\ Op(r).nonce # NoNonce
                                  /\ OriginalMade(Op(r).acc, Op(r).nonce, req)
<1>0. SUFFICES Expected(req'[r])
  BY DEF Carried
<1>1. req[r].answer = "none" /\ HeldOK(req[r], accounts) /\ ReplayMade(req[r], req)
  BY StepsWaiting DEF AllHeld, ReplaysMade
<1>2. ASSUME NEW answer \in bad, Finish(r, answer) PROVE Expected(req'[r])
  BY <1>2, FinishIs
<1>3. \A place : Goto(r, place) /\ place # "answer" => Expected(req'[r])
  BY <1>1, GotoIs
<1>4. \A names, place : Remember(r, names, place) /\ place # "answer" => Expected(req'[r])
  BY <1>1, RememberIs
<1>5. {"not_found", "refused", "insufficient", "failed", "crashed"} \subseteq bad
  BY DEF Answers
<1>6. CASE TransferReadFrom(r)
  BY <1>4, <1>6 DEF TransferReadFrom
<1>7. CASE TransferReadTo(r)
  <2>1. CASE Finish(r, "not_found") \/ Finish(r, "refused")
    BY <1>2, <1>5, <2>1
  <2>2. CASE Goto(r, "replayTo")
    BY <1>3, <2>2
  <2>3. CASE req' = [req EXCEPT ![r].pc = "begin", ![r].snap = NoSnapshot]
    <3>1. req'[r].pc = "begin" /\ req'[r].answer = "none"
      BY <1>1, <2>3, DropSnapIs
    <3> QED  BY <3>1
  <2> QED  BY <1>7, <2>1, <2>2, <2>3 DEF TransferReadTo
<1>8. CASE TransferBegin(r)
  BY <1>2, <1>3, <1>4, <1>5, <1>8 DEF TransferBegin
<1>9. CASE TransferRetry(r)
  BY <1>3, <1>9 DEF TransferRetry
<1>10. CASE ReplayRead(r)
  BY <1>2, <1>4, <1>5, <1>10 DEF ReplayRead
<1>11. CASE ReplayTo(r)
  <2>1. Op(r).nonce # NoNonce /\ OriginalMade(Op(r).acc, Op(r).nonce, req)
    BY <1>1, <1>11 DEF ReplayTo, At, ReplayMade, Op
  <2>2. CASE Finish(r, "replayed")
    BY <2>1, <2>2, FinishIs
  <2>3. CASE Finish(r, "not_found")
    BY <1>2, <1>5, <2>3
  <2> QED  BY <1>11, <2>2, <2>3 DEF ReplayTo
<1>12. CASE Crash(r)
  BY <1>2, <1>5, <1>12 DEF Crash, At, Carried
<1>13. req[r].pc \notin {"append", "debit", "lost", "credit", "clear", "revert", "answer"}
  BY <1>1 DEF HeldOK, Op, Carried
<1>14. Op(r).kind = "transfer"
  BY DEF IsTransfer
<1>15. Step(r) \/ Crash(r)
  OBVIOUS
<1> QED
  BY <1>6, <1>7, <1>8, <1>9, <1>10, <1>11, <1>12, <1>13, <1>14, <1>15
     DEF Step, At, AdjustGate, MonthlyRead, AppendStep, UndoGate, UndoRead,
         UndoRetry, UndoWrite, CurrencyRead, RelabelWrite, ConvertWrite,
         SettingsWrite, ContentWrite, DeleteRead, DeleteWrite,
         TransferDebit, LostRace, TransferCredit, FreeNonce, TransferRevert,
         AnswerTransfer

(* Everything else leaves both legs of every transfer where they are. *)
LEMMA OtherStep ==
  ASSUME PromiseInv, DocsOK', ReplicaSet, Serial, NEW r \in Requests,
         Step(r) \/ Crash(r), ~TransferCommit(r), ~Carried(req[r]),
         ~ \E q \in Requests : DeleteWrite(q)
  PROVE  Promise!Next \/ UNCHANGED Promise!vars
<1>1. DocsOK /\ RequestsOK /\ AllHeld /\ LegsLinked /\ GoneBare /\ ReplaysMade
  BY DEF PromiseInv, Traceable, Consistent
<1>2. ~MoneySteps(r)
  BY <1>1, DebitAdds, CreditAdds, RevertAdds DEF MoneySteps, Serial
<1>3. Turn(r) /\ req[r].answer = "none"
  BY <1>1, StepTurn, StepsWaiting
<1>4. Asked' = Asked
  BY <1>3, AskedFixed
<1>5. Open' = Open /\ Debited' = Debited /\ Credited' = Credited
  BY <1>1, <1>2, <1>3, QuietSteps, BooksSame
<1>6. PublicAnswer(r) = "none"
  BY <1>3 DEF PublicAnswer
<1>9. Made' = Made /\ r \notin Made
  <2>1. CASE IsTransfer(Op(r))
    BY <1>1, <1>3, <2>1, TransferAnswers, MadeTurn DEF Made
  <2>2. CASE ~IsTransfer(Op(r))
    BY <1>3, <2>2, MadeTurn DEF Made, Transfers
  <2> QED  BY <2>1, <2>2
<1>7. CASE PublicAnswer(r)' = "none"
  <2>1. Told' = [Told EXCEPT ![r] = Told[r]]
    BY <1>3, <1>6, <1>7, ToldTurn DEF Told
  <2>2. Told' = Told
    BY <2>1 DEF Told
  <2> QED  BY <1>4, <1>5, <1>9, <2>2, StutterIs DEF Stutter
<1>8. CASE PublicAnswer(r)' # "none"
  <2>1. IsTransfer(Op(r))
    BY <1>3, <1>8 DEF PublicAnswer, Turn, Op, IsTransfer
  <2>2. req'[r].answer # "none" /\ IsTransfer(Op(r))'
    BY <1>8 DEF PublicAnswer
  <2>3. CASE req'[r].answer \in Answers \ {"none", "ok", "replayed", "unheard"}
    <3>1. PublicAnswer(r)' = "error"
      BY <2>2, <2>3 DEF PublicAnswer
    <3>2. Promise!Fail(r)
      BY <1>3, <1>4, <1>5, <1>6, <1>9, <3>1, TellIs
         DEF Promise!Fail, Asked, Open, Debited, Credited, Made
    <3> QED  BY <3>2 DEF Promise!Next
  <2>4. CASE /\ req'[r].answer = "replayed" /\ Op(r).nonce # NoNonce
             /\ OriginalMade(Op(r).acc, Op(r).nonce, req)
    <3>1. PublicAnswer(r)' = "replayed"
      BY <2>2, <2>4 DEF PublicAnswer
    <3>2. PICK q \in Requests :
            /\ IsTransfer(req[q].op) /\ Carried(req[q])
            /\ req[q].op.acc = Op(r).acc /\ req[q].op.nonce = Op(r).nonce
      BY <2>4 DEF OriginalMade
    <3>3. q \in Made
      BY <3>2 DEF Made, Transfers, Op
    <3>4. /\ Asked[r].nonce # NoNonce /\ Asked[q].nonce = Asked[r].nonce
          /\ Asked[q].from = Asked[r].from
      BY <2>4, <3>2 DEF Asked, Op
    <3>5. Promise!Tell(r, "replayed")
      BY <1>3, <1>6, <3>1, TellIs
    <3>6. Promise!Replay(r)
      BY <1>4, <1>5, <1>9, <3>3, <3>4, <3>5
         DEF Promise!Replay, Promise!SameIntent, Asked, Open, Debited, Credited, Made
    <3> QED  BY <3>6 DEF Promise!Next
  <2> QED  BY <1>1, <2>1, <2>2, <2>3, <2>4, TransferAnswers
<1> QED  BY <1>7, <1>8

(***************************************************************************)
(* With transactions, every behaviour of the service is one of             *)
(* TransferPromise: both legs at once, at most once per nonce and source,  *)
(* "replayed" only of a transfer that was made, and no failure of one.     *)
(***************************************************************************)
THEOREM PromiseImplemented ==
  ASSUME ReplicaSet, ~SameMillisecond
  PROVE  Spec => KeepsPromise
<1>1. Serial
  BY DEF Serial
<1>2. Init => Promise!Init
  <2> SUFFICES ASSUME Init PROVE Promise!Init
    OBVIOUS
  <2>1. \A a \in Accounts : \A i \in DOMAIN accounts[a].txs :
          accounts[a].txs[i].id \notin Requests \X Legs
    BY AccountsAssumption DEF Init
  <2>2. ASSUME NEW a \in Accounts, NEW q \in Requests, NEW leg \in {"out", "in"}
        PROVE  ~HasLeg(accounts[a], q, leg)
    <3>1. <<q, leg>> \in Requests \X Legs
      BY DEF Legs
    <3> QED  BY <2>1, <3>1 DEF HasLeg, TxsById
  <2>3. ASSUME NEW q \in Transfers
        PROVE  q \in Requests /\ Op(q).acc \in Accounts /\ Op(q).to \in Accounts
    <3>1. q \in Requests /\ IsTransfer(Op(q)) /\ Op(q) \in Operations
      BY DEF Transfers, Init, Op
    <3> QED  BY <3>1, OperationType
  <2>4. Debited = {} /\ Credited = {}
    BY <2>2, <2>3 DEF Debited, Credited, Source, Target
  <2>5. Told = [r \in Requests |-> "none"]
    BY DEF Told, PublicAnswer, Init
  <2>6. Open \subseteq Accounts
    BY DEF Open
  <2>7. Made = {}
    BY DEF Made, Transfers, Carried, Init
  <2> QED  BY <2>4, <2>5, <2>6, <2>7 DEF Promise!Init, Open, Debited, Credited, Made, Told
<1>3. PromiseInv /\ PromiseInv' /\ [Next]_vars => [Promise!Next]_(Promise!vars)
  <2> SUFFICES ASSUME PromiseInv, PromiseInv', [Next]_vars
               PROVE  Promise!Next \/ UNCHANGED Promise!vars
    OBVIOUS
  <2>1. DocsOK /\ DocsOK' /\ RequestsOK /\ AllHeld /\ LegsLinked /\ GoneBare /\ NoncesMade
    BY DEF PromiseInv, Traceable, Consistent
  <2>2. CASE UNCHANGED vars
    BY <2>2 DEF vars, Promise!vars, PublicAnswer, Op, Transfers, HasLeg, Source,
                Target, TxsById, Carried
  <2>3. CASE \E q \in Requests : DeleteWrite(q)
    BY <2>1, <2>3, CloseStep
  <2>4. ASSUME NEW r \in Requests, Step(r) \/ Crash(r),
               ~ \E q \in Requests : DeleteWrite(q)
        PROVE  Promise!Next \/ UNCHANGED Promise!vars
    <3>1. CASE Carried(req[r])
      BY <1>1, <2>1, <2>4, <3>1, AnswerStep
    <3>2. CASE ~Carried(req[r])
      BY <1>1, <2>1, <2>4, <3>2, CommitStep, OtherStep DEF Serial
    <3> QED  BY <3>1, <3>2
  <2> QED  BY <2>2, <2>3, <2>4 DEF Next
<1>4. Spec => []PromiseInv
  BY <1>1, PromiseInvariant
<1> QED
  BY <1>2, <1>3, <1>4, PTL DEF Spec, KeepsPromise, Promise!Spec

=============================================================================
