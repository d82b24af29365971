------------------------ MODULE CampaignPurchaseProofs ------------------------
(***************************************************************************)
(* Purchases and refunds, for any number of accounts, buyers, requests and *)
(* currencies, whatever crashes: the documents keep their type, a purchase *)
(* is refunded once, and with transactions money and log agree.  Without   *)
(* transactions the compensations settle what failed requests took and     *)
(* what failed refunds flipped.  Bought items stay in the inventory.       *)
(***************************************************************************)
EXTENDS CampaignPurchase, AccountLedgerProofs

Record == [op: Operations, pc: Places, paid: Nat, why: Answers,
           copy: Inventory, answer: Answers, alarm: BOOLEAN]

(* Types, and balances that are the sums of their histories. *)
DocsOK ==
  /\ DOMAIN accounts = Accounts /\ accounts \in [Accounts -> Account]
  /\ \A a \in Accounts : Sound(accounts[a])
Typed == TypeOK /\ DocsOK

-----------------------------------------------------------------------------
LEMMA OpType ==
  ASSUME TypeOK, NEW r \in Requests
  PROVE  /\ Op(r) \in Operation /\ Op(r).acc \in Accounts /\ Op(r).amount \in Int
         /\ Op(r).currency \in Currencies /\ Op(r).purchase \in PurchaseIds
         /\ Op(r).nonce \in Nonces \cup {NoNonce}
         /\ Op(r).kind = "purchase" => Op(r).amount \in Nat
<1>1. Op(r) \in Operations
  BY DEF TypeOK, Op
<1> QED  BY <1>1, PurchaseAssumption DEF Operation

LEMMA NoInventoryType == NoInventory \in Inventory
BY DEF NoInventory, Inventory

(* The four ways in which a request changes keep its type. *)
LEMMA ReqTypes ==
  ASSUME TypeOK, NEW r \in Requests
  PROVE  /\ \A place \in Places : Goto(r, place) => req' \in [Requests -> Record]
         /\ \A answer \in Answers : Finish(r, answer) => req' \in [Requests -> Record]
         /\ \A answer \in Answers : \A place \in Places :
              Because(r, answer, place) => req' \in [Requests -> Record]
         /\ Alarm(r) => req' \in [Requests -> Record]
<1>1. req \in [Requests -> Record]
  BY DEF TypeOK, Record
<1>2. ASSUME NEW place \in Places, Goto(r, place)  PROVE req' \in [Requests -> Record]
  BY <1>1, <1>2 DEF Goto, Record
<1>3. ASSUME NEW answer \in Answers, Finish(r, answer)  PROVE req' \in [Requests -> Record]
  <2>1. /\ req[r] \in Record /\ "done" \in Places /\ "none" \in Answers
        /\ req' = [req EXCEPT ![r] = [req[r] EXCEPT !.pc = "done", !.answer = answer,
                                                  !.copy = NoInventory, !.why = "none"]]
    BY <1>1, <1>3 DEF Finish, Places, Answers
  <2>2. [req[r] EXCEPT !.pc = "done", !.answer = answer,
                       !.copy = NoInventory, !.why = "none"] \in Record
    BY <1>3, <2>1, NoInventoryType DEF Record
  <2> QED  BY <1>1, <2>1, <2>2
<1>4. ASSUME NEW answer \in Answers, NEW place \in Places, Because(r, answer, place)
      PROVE  req' \in [Requests -> Record]
  BY <1>1, <1>4 DEF Because, Record
<1>5. ASSUME Alarm(r)  PROVE req' \in [Requests -> Record]
  BY <1>1, <1>5 DEF Alarm, Record, Places
<1> QED  BY <1>2, <1>3, <1>4, <1>5

LEMMA PutSound ==
  ASSUME DocsOK, NEW a \in Accounts, NEW doc, Sound(doc), Put(a, doc)
  PROVE  DocsOK'
BY DEF DocsOK, Put, Sound, BalanceMatches

LEMMA AppendKeeps ==
  ASSUME DocsOK, NEW a \in Accounts, NEW tx \in Tx, Append1(a, tx)
  PROVE  DocsOK'
<1>1. Sound(accounts[a]) /\ accounts[a].stamp + 1 \in Nat
  BY DEF DocsOK, Account
<1>2. Sound(AppendTransaction(accounts[a], tx, accounts[a].stamp + 1))
  BY <1>1, AppendSound
<1> QED  BY <1>2, PutSound DEF Append1

LEMMA LegTypes ==
  ASSUME TypeOK, NEW r \in Requests
  PROVE  DebitTx(r) \in Tx /\ CreditTx(r) \in Tx /\ RevertTx(r) \in Tx
         /\ PlainTx(<<r, "adjust">>, Op(r).amount) \in Tx
<1>1. \A leg \in Legs : <<r, leg>> \in TxIds
  BY PurchaseAssumption
<1>2. /\ req[r].paid \in Int /\ -req[r].paid \in Int /\ Op(r).amount \in Int
      /\ purchases[Op(r).purchase].paid \in Int
  BY OpType DEF TypeOK, Purchase
<1>3. ASSUME NEW id \in TxIds, NEW delta \in Int, NEW origin \in {"none", "purchase"}
      PROVE  [id |-> id, delta |-> delta, ref |-> NoAccount, origin |-> origin,
              nonce |-> NoNonce] \in Tx
  BY DEF Tx
<1>4. DebitTx(r) \in Tx
  BY <1>1, <1>2, <1>3 DEF DebitTx, Legs
<1>5. CreditTx(r) \in Tx
  BY <1>1, <1>2, <1>3 DEF CreditTx, PlainTx, Legs
<1>6. RevertTx(r) \in Tx
  BY <1>1, <1>2, <1>3 DEF RevertTx, PlainTx, Legs
<1>7. PlainTx(<<r, "adjust">>, Op(r).amount) \in Tx
  BY <1>1, <1>2, <1>3 DEF PlainTx, Legs
<1> QED  BY <1>4, <1>5, <1>6, <1>7

-----------------------------------------------------------------------------
LEMMA TypedInit == Init => Typed
<1> SUFFICES ASSUME Init  PROVE Typed
  OBVIOUS
<1>1. DocsOK
  BY PurchaseAssumption DEF Init, DocsOK, Sound
<1>2. req \in [Requests -> Record]
  <2> DEFINE Start == [op: Operations, pc: {"start"}, paid: {0}, why: {"none"},
                       copy: {NoInventory}, answer: {"none"}, alarm: {FALSE}]
  <2>1. ASSUME NEW q \in Start  PROVE q \in Record
    <3>1. "start" \in Places /\ "none" \in Answers /\ 0 \in Nat /\ FALSE \in BOOLEAN
      BY DEF Places, Answers
    <3> HIDE DEF Places, Answers
    <3>2. /\ q = [op |-> q.op, pc |-> q.pc, paid |-> q.paid, why |-> q.why, copy |-> q.copy,
                  answer |-> q.answer, alarm |-> q.alarm]
          /\ q.op \in Operations /\ q.pc \in {"start"} /\ q.paid \in {0} /\ q.why \in {"none"}
          /\ q.copy \in {NoInventory} /\ q.answer \in {"none"} /\ q.alarm \in {FALSE}
      OBVIOUS
    <3>3. /\ q.pc \in Places /\ q.paid \in Nat /\ q.why \in Answers
          /\ q.copy \in Inventory /\ q.answer \in Answers
      BY <3>1, <3>2, NoInventoryType
    <3>4. q.alarm \in BOOLEAN
      BY <3>2
    <3> QED  BY <3>2, <3>3, <3>4 DEF Record
  <2>2. req \in [Requests -> Start]
    BY DEF Init
  <2> QED  BY <2>1, <2>2
<1>3. inventory \in Inventory
  BY PurchaseAssumption DEF Init
<1>4. \A r \in Requests : Unwritten(req[r].op) \in Purchase
  <2> SUFFICES ASSUME NEW r \in Requests  PROVE Unwritten(req[r].op) \in Purchase
    OBVIOUS
  <2>1. req[r].op \in Operation
    BY <1>2, PurchaseAssumption DEF Record
  <2> QED  BY <2>1 DEF Unwritten, Purchase, Operation
<1>5. purchases \in [PurchaseIds -> Purchase]
  BY <1>4, PurchaseAssumption DEF Init, PurchaseIds
<1> QED  BY <1>1, <1>2, <1>3, <1>5 DEF Typed, TypeOK, Record, DocsOK

(* The account and inventory operations of one purchase keep the types.    *)
LEMMA ItemTypes ==
  ASSUME TypeOK, NEW r \in Requests
  PROVE  /\ WithItem(r) \in Inventory
         /\ \A p \in PurchaseIds : [inventory EXCEPT !.items = @ \ {p}] \in Inventory
         /\ [NoInventory EXCEPT !.exists = TRUE] \in Inventory
         /\ r \in PurchaseIds
BY DEF TypeOK, WithItem, Inventory, NoInventory, PurchaseIds

LEMMA LogTypes ==
  ASSUME TypeOK, NEW r \in Requests
  PROVE  /\ LogPurchase(r) => purchases' \in [PurchaseIds -> Purchase]
         /\ \A p \in PurchaseIds : \A status \in {"active", "refunded"} :
              SetStatus(p, status) => purchases' \in [PurchaseIds -> Purchase]
<1>1. LogPurchase(r) => purchases' \in [PurchaseIds -> Purchase]
  <2> SUFFICES ASSUME LogPurchase(r)  PROVE purchases' \in [PurchaseIds -> Purchase]
    OBVIOUS
  <2> DEFINE new == [status |-> "active", acc |-> Op(r).acc, paid |-> req[r].paid,
                     nonce |-> Op(r).nonce]
  <2>1. req[r].paid \in Nat /\ purchases \in [PurchaseIds -> Purchase]
    BY DEF TypeOK
  <2>2. new \in Purchase
    BY <2>1, OpType DEF Purchase
  <2>3. purchases' = [purchases EXCEPT ![r] = new]
    BY DEF LogPurchase
  <2> QED  BY <2>1, <2>2, <2>3
<1>2. \A p \in PurchaseIds : \A status \in {"active", "refunded"} :
              SetStatus(p, status) => purchases' \in [PurchaseIds -> Purchase]
  BY DEF TypeOK, SetStatus, Purchase
<1> QED  BY <1>1, <1>2

LEMMA TypedFrom ==
  ASSUME DocsOK', purchases' \in [PurchaseIds -> Purchase], inventory' \in Inventory,
         req' \in [Requests -> Record]
  PROVE  Typed'
BY DEF Typed, TypeOK, DocsOK, Record

(* A step that changes nothing but its request. *)
LEMMA TypedReq ==
  ASSUME Typed, Only({}), req' \in [Requests -> Record]
  PROVE  Typed'
<1>1. UNCHANGED <<accounts, purchases, inventory>>
  BY DEF Only
<1>2. DocsOK' /\ purchases' \in [PurchaseIds -> Purchase] /\ inventory' \in Inventory
  BY <1>1 DEF Typed, DocsOK, TypeOK, Sound, BalanceMatches
<1> QED  BY <1>2, TypedFrom

LEMMA PaidType ==
  ASSUME Typed, NEW r \in Requests, Op(r).kind = "purchase",
         Convertible(Op(r).currency, Acc(r).currency)
  PROVE  PaidAmount(Op(r), Acc(r).currency) \in Nat
<1>1. Op(r).amount \in Nat /\ Op(r).currency \in Currencies /\ Acc(r).currency \in Currencies
  BY OpType DEF Typed, DocsOK, Acc, Account
<1> QED  BY <1>1, RecomputeType DEF PaidAmount, Convertible

LEMMA AccountOpDocs ==
  ASSUME Typed, NEW r \in Requests
  PROVE  /\ Acc(r) = accounts[Op(r).acc] /\ Op(r).acc \in Accounts /\ Sound(Acc(r))
         /\ NextStamp(r) \in Nat
         /\ Sound(AppendTransaction(Acc(r), PlainTx(<<r, "adjust">>, Op(r).amount), NextStamp(r)))
         /\ Acc(r).txs # << >> => Sound(UndoLast(Acc(r), Acc(r), NextStamp(r)))
         /\ Rate[Op(r).currency] > 0 =>
              Sound(ReplaceMoneyFields(Acc(r), Recomputed(Acc(r), Op(r).currency), NextStamp(r)))
         /\ Sound([Acc(r) EXCEPT !.selfAdjust = FALSE, !.stamp = @ + 1])
         /\ Sound([Acc(r) EXCEPT !.exists = FALSE, !.txs = << >>, !.balance = 0, !.stamp = 0])
<1>1. Acc(r) = accounts[Op(r).acc] /\ Op(r).acc \in Accounts /\ Op(r).currency \in Currencies
  BY OpType DEF Typed, Acc
<1>2. Sound(Acc(r)) /\ NextStamp(r) \in Nat
  BY <1>1 DEF Typed, DocsOK, Sound, Account, NextStamp
<1>3. Sound(AppendTransaction(Acc(r), PlainTx(<<r, "adjust">>, Op(r).amount), NextStamp(r)))
  BY <1>2, LegTypes, AppendSound DEF Typed
<1>4. Acc(r).txs # << >> => Sound(UndoLast(Acc(r), Acc(r), NextStamp(r)))
  BY <1>2, UndoSound
<1>5. Rate[Op(r).currency] > 0 =>
        Sound(ReplaceMoneyFields(Acc(r), Recomputed(Acc(r), Op(r).currency), NextStamp(r)))
  BY <1>1, <1>2, ReplaceSound
<1>6. Sound([Acc(r) EXCEPT !.selfAdjust = FALSE, !.stamp = @ + 1])
  <2> DEFINE doc == [Acc(r) EXCEPT !.selfAdjust = FALSE, !.stamp = @ + 1]
  <2>1. Acc(r) \in Account /\ BalanceMatches(Acc(r)) /\ Acc(r).stamp + 1 \in Nat
    BY <1>2 DEF Sound, NextStamp
  <2>2. doc \in Account
    BY <2>1 DEF Account
  <2>3. doc.txs = Acc(r).txs /\ doc.balance = Acc(r).balance
    BY <2>1 DEF Account
  <2> QED  BY <2>1, <2>2, <2>3 DEF Sound, BalanceMatches
<1>7. Sound([Acc(r) EXCEPT !.exists = FALSE, !.txs = << >>, !.balance = 0, !.stamp = 0])
  <2>1. << >> \in Seq(Tx)
    BY EmptySeq
  <2> DEFINE doc == [Acc(r) EXCEPT !.exists = FALSE, !.txs = << >>, !.balance = 0, !.stamp = 0]
  <2>2. Acc(r) \in Account
    BY <1>2 DEF Sound
  <2>3. doc \in Account
    <3>1. 0 \in Nat /\ 0 \in Int /\ FALSE \in BOOLEAN
      OBVIOUS
    <3>2. [[Acc(r) EXCEPT !.exists = FALSE] EXCEPT !.txs = << >>] \in Account
      BY <2>1, <2>2, <3>1 DEF Account
    <3>3. [[[[Acc(r) EXCEPT !.exists = FALSE] EXCEPT !.txs = << >>]
             EXCEPT !.balance = 0] EXCEPT !.stamp = 0] \in Account
      BY <3>1, <3>2 DEF Account
    <3>4. doc = [[[[Acc(r) EXCEPT !.exists = FALSE] EXCEPT !.txs = << >>]
             EXCEPT !.balance = 0] EXCEPT !.stamp = 0]
      BY <2>2 DEF Account
    <3> QED  BY <3>3, <3>4
  <2>4. doc.txs = << >> /\ doc.balance = 0
    BY <2>2 DEF Account
  <2> QED  BY <2>3, <2>4, SumEmpty DEF Sound, BalanceMatches
<1> QED  BY <1>1, <1>2, <1>3, <1>4, <1>5, <1>6, <1>7

LEMMA TypedAccountOp ==
  ASSUME Typed, NEW r \in Requests, NEW kind, NEW allowed, NEW doc,
         AccountOp(r, kind, allowed, doc), allowed => Sound(doc)
  PROVE  Typed'
<1>1. req' \in [Requests -> Record]
  BY ReqTypes DEF AccountOp, Answers, Typed
<1>2. CASE Only({})
  BY <1>1, <1>2, TypedReq
<1>3. CASE allowed /\ Put(Op(r).acc, doc) /\ Only({"accounts"})
  <2>1. DocsOK'
    BY <1>3, OpType, PutSound DEF Typed
  <2>2. UNCHANGED <<purchases, inventory>>
    BY <1>3 DEF Only
  <2> QED  BY <1>1, <2>1, <2>2, TypedFrom DEF Typed, TypeOK
<1> QED  BY <1>2, <1>3 DEF AccountOp

LEMMA TypedPurchase ==
  ASSUME Typed, NEW r \in Requests,
         \/ PurchaseReplay(r) \/ PurchaseGate(r) \/ PurchaseInventory(r)
         \/ CreateInventory(r) \/ PurchaseTx(r) \/ ReplayWinner(r)
  PROVE  Typed'
<1> USE DEF Places, Answers
<1> TypeOK
  BY DEF Typed
<1>1. CASE PurchaseReplay(r)
  BY <1>1, ReqTypes, TypedReq DEF PurchaseReplay
<1>2. CASE PurchaseGate(r)
  <2>1. CASE \E answer \in Answers : Finish(r, answer)
    BY <1>2, <2>1, ReqTypes, TypedReq DEF PurchaseGate
  <2>2. CASE /\ Convertible(Op(r).currency, Acc(r).currency)
             /\ req' = [req EXCEPT ![r].pc = "inventory",
                                   ![r].paid = PaidAmount(Op(r), Acc(r).currency)]
    <3>1. PaidAmount(Op(r), Acc(r).currency) \in Nat
      BY <1>2, <2>2, PaidType DEF PurchaseGate, Is
    <3>2. req' \in [Requests -> Record]
      <4> DEFINE new == [req[r] EXCEPT !.pc = "inventory",
                                       !.paid = PaidAmount(Op(r), Acc(r).currency)]
      <4>1. req \in [Requests -> Record] /\ req' = [req EXCEPT ![r] = new]
        BY <2>2 DEF TypeOK, Record
      <4>2. new \in Record
        BY <3>1, <4>1 DEF Record
      <4> QED  BY <4>1, <4>2
    <3> QED  BY <1>2, <3>2, TypedReq DEF PurchaseGate
  <2> QED  BY <1>2, <2>1, <2>2 DEF PurchaseGate
<1>3. CASE PurchaseInventory(r)
  BY <1>3, ReqTypes, TypedReq DEF PurchaseInventory, Ready
<1>4. CASE CreateInventory(r)
  <2>1. req' \in [Requests -> Record]
    BY <1>4, ReqTypes DEF CreateInventory, Ready
  <2>2. CASE Only({})
    BY <2>1, <2>2, TypedReq
  <2>3. CASE inventory' = [NoInventory EXCEPT !.exists = TRUE] /\ Only({"inventory"})
    BY <2>1, <2>3, ItemTypes, TypedFrom DEF Only, Typed, DocsOK, TypeOK, Sound, BalanceMatches
  <2> QED  BY <1>4, <2>2, <2>3 DEF CreateInventory
<1>5. CASE PurchaseTx(r)
  <2>1. req' \in [Requests -> Record]
    BY <1>5, ReqTypes DEF PurchaseTx
  <2>2. CASE Only({})
    BY <2>1, <2>2, TypedReq
  <2>3. CASE inventory' = WithItem(r) /\ DebitIn(r) /\ LogPurchase(r)
    <3>1. DocsOK'
      <4>1. CASE UNCHANGED accounts
        BY <4>1 DEF Typed, DocsOK, Sound, BalanceMatches
      <4>2. CASE Append1(Op(r).acc, DebitTx(r))
        BY <4>2, AppendKeeps, OpType, LegTypes DEF Typed
      <4> QED  BY <2>3, <4>1, <4>2 DEF DebitIn
    <3> QED  BY <2>1, <2>3, <3>1, ItemTypes, LogTypes, TypedFrom
  <2> QED  BY <1>5, <2>2, <2>3 DEF PurchaseTx
<1>6. CASE ReplayWinner(r)
  BY <1>6, ReqTypes, TypedReq DEF ReplayWinner
<1> QED  BY <1>1, <1>2, <1>3, <1>4, <1>5, <1>6

LEMMA TypedFallback ==
  ASSUME Typed, NEW r \in Requests,
         \/ PushItem(r) \/ PushSection(r) \/ PushAgain(r) \/ Debit(r)
         \/ ReadBalance(r) \/ CreateLog(r) \/ RevertGate(r) \/ Revert(r) \/ TakeBack(r)
  PROVE  Typed'
<1> USE DEF Places, Answers
<1> TypeOK
  BY DEF Typed
<1>1. ASSUME Only({"inventory"}), inventory' \in Inventory, req' \in [Requests -> Record]
      PROVE  Typed'
  BY <1>1, TypedFrom DEF Only, Typed, DocsOK, TypeOK, Sound, BalanceMatches
<1>2. ASSUME Only({"accounts"}), DocsOK', req' \in [Requests -> Record]
      PROVE  Typed'
  BY <1>2, TypedFrom DEF Only, TypeOK
<1>3. ASSUME Only({"purchases"}), purchases' \in [PurchaseIds -> Purchase],
             req' \in [Requests -> Record]
      PROVE  Typed'
  BY <1>3, TypedFrom DEF Only, Typed, DocsOK, TypeOK, Sound, BalanceMatches
<1>4. CASE PushItem(r)
  BY <1>1, <1>4, ReqTypes, ItemTypes, TypedReq DEF PushItem, AfterPush
<1>5. CASE PushSection(r)
  BY <1>1, <1>5, ReqTypes, ItemTypes, TypedReq DEF PushSection, AfterPush
<1>6. CASE PushAgain(r)
  BY <1>1, <1>6, ReqTypes, ItemTypes, TypedReq DEF PushAgain, AfterPush
<1>7. CASE Debit(r)
  <2>1. Append1(Op(r).acc, DebitTx(r)) => DocsOK'
    BY AppendKeeps, OpType, LegTypes DEF Typed
  <2> QED  BY <1>2, <1>7, <2>1, ReqTypes, TypedReq DEF Debit
<1>8. CASE ReadBalance(r)
  BY <1>8, ReqTypes, TypedReq DEF ReadBalance
<1>9. CASE CreateLog(r)
  BY <1>3, <1>9, ReqTypes, LogTypes, TypedReq DEF CreateLog
<1>10. CASE RevertGate(r)
  BY <1>10, ReqTypes, TypedReq DEF RevertGate
<1>11. CASE Revert(r)
  <2>1. Append1(Op(r).acc, RevertTx(r)) => DocsOK'
    BY AppendKeeps, OpType, LegTypes DEF Typed
  <2> QED  BY <1>2, <1>11, <2>1, ReqTypes, TypedReq DEF Revert
<1>12. CASE TakeBack(r)
  <2>1. req[r].why \in Answers
    BY DEF TypeOK
  <2>2. req' \in [Requests -> Record]
    BY <1>12, <2>1, ReqTypes DEF TakeBack
  <2>3. CASE inventory' = [inventory EXCEPT !.items = @ \ {r}]
    BY <1>1, <1>12, <2>2, <2>3, ItemTypes DEF TakeBack
  <2>4. CASE UNCHANGED inventory
    BY <1>12, <2>2, <2>4, TypedReq DEF TakeBack, Only
  <2> QED  BY <1>12, <2>3, <2>4 DEF TakeBack, TakeOut
<1> QED  BY <1>4, <1>5, <1>6, <1>7, <1>8, <1>9, <1>10, <1>11, <1>12

LEMMA TypedRefund ==
  ASSUME Typed, NEW r \in Requests,
         \/ RefundRead(r) \/ RefundTx(r) \/ RefundFlip(r) \/ RefundCredit(r)
         \/ RefundUnflip(r) \/ RefundItem(r)
  PROVE  Typed'
<1> USE DEF Places, Answers
<1> TypeOK
  BY DEF Typed
<1>1. Op(r).purchase \in PurchaseIds /\ Bought(r).acc \in Accounts
  BY OpType DEF Bought, TypeOK, Purchase
<1>2. CreditIn(r) => DocsOK'
  <2>1. CASE UNCHANGED accounts
    BY <2>1 DEF Typed, DocsOK, Sound, BalanceMatches
  <2>2. CASE Append1(Bought(r).acc, CreditTx(r))
    BY <1>1, <2>2, AppendKeeps, LegTypes DEF Typed
  <2> QED  BY <2>1, <2>2 DEF CreditIn
<1>3. \A status \in {"active", "refunded"} :
        SetStatus(Op(r).purchase, status) => purchases' \in [PurchaseIds -> Purchase]
  BY <1>1, LogTypes
<1>4. CASE RefundRead(r)
  BY <1>4, ReqTypes, TypedReq DEF RefundRead
<1>5. CASE RefundTx(r)
  <2>1. req' \in [Requests -> Record]
    BY <1>5, ReqTypes DEF RefundTx
  <2>2. CASE Only({})
    BY <2>1, <2>2, TypedReq
  <2>3. CASE /\ SetStatus(Op(r).purchase, "refunded") /\ CreditIn(r)
             /\ Only({"accounts", "purchases"})
    BY <1>2, <1>3, <2>1, <2>3, TypedFrom DEF Only, TypeOK
  <2> QED  BY <1>5, <2>2, <2>3 DEF RefundTx
<1>6. CASE RefundFlip(r)
  <2>1. req' \in [Requests -> Record]
    BY <1>6, ReqTypes DEF RefundFlip
  <2>2. CASE Only({})
    BY <2>1, <2>2, TypedReq
  <2>3. CASE SetStatus(Op(r).purchase, "refunded") /\ Only({"purchases"})
    BY <1>3, <2>1, <2>3, TypedFrom DEF Only, Typed, DocsOK, TypeOK, Sound, BalanceMatches
  <2> QED  BY <1>6, <2>2, <2>3 DEF RefundFlip
<1>7. CASE RefundCredit(r)
  <2>1. req' \in [Requests -> Record]
    BY <1>7, ReqTypes DEF RefundCredit
  <2>2. CASE Only({})
    BY <2>1, <2>2, TypedReq
  <2>3. CASE CreditIn(r) /\ Only({"accounts"})
    BY <1>2, <2>1, <2>3, TypedFrom DEF Only, TypeOK
  <2> QED  BY <1>7, <2>2, <2>3 DEF RefundCredit
<1>8. CASE RefundUnflip(r)
  <2>1. req' \in [Requests -> Record]
    BY <1>8, ReqTypes DEF RefundUnflip
  <2>2. purchases' \in [PurchaseIds -> Purchase]
    BY <1>3, <1>8 DEF RefundUnflip, TypeOK
  <2> QED  BY <1>8, <2>1, <2>2, TypedFrom
           DEF RefundUnflip, Only, Typed, DocsOK, TypeOK, Sound, BalanceMatches
<1>9. CASE RefundItem(r)
  <2>1. req' \in [Requests -> Record]
    BY <1>9, ReqTypes DEF RefundItem
  <2>2. inventory' \in Inventory
    BY <1>1, <1>9, ItemTypes DEF RefundItem, TakeOut, TypeOK
  <2> QED  BY <1>9, <2>1, <2>2, TypedFrom
           DEF RefundItem, Only, Typed, DocsOK, TypeOK, Sound, BalanceMatches
<1> QED  BY <1>4, <1>5, <1>6, <1>7, <1>8, <1>9

LEMMA TypedRest ==
  ASSUME Typed, NEW r \in Requests,
         \/ AdjustAccount(r) \/ UndoAccount(r) \/ ConvertAccount(r)
         \/ ForbidSelfAdjust(r) \/ DeleteAccount(r) \/ LoadInventory(r)
         \/ SaveInventory(r) \/ Crash(r)
  PROVE  Typed'
<1> USE DEF Places, Answers
<1> TypeOK
  BY DEF Typed
<1>1. CASE AdjustAccount(r)
  BY <1>1, AccountOpDocs, TypedAccountOp DEF AdjustAccount
<1>2. CASE UndoAccount(r)
  BY <1>2, AccountOpDocs, TypedAccountOp DEF UndoAccount
<1>3. CASE ConvertAccount(r)
  BY <1>3, AccountOpDocs, TypedAccountOp DEF ConvertAccount
<1>4. CASE ForbidSelfAdjust(r)
  BY <1>4, AccountOpDocs, TypedAccountOp DEF ForbidSelfAdjust
<1>5. CASE DeleteAccount(r)
  BY <1>5, AccountOpDocs, TypedAccountOp DEF DeleteAccount
<1>6. CASE LoadInventory(r)
  <2>1. req' \in [Requests -> Record]
    <3> DEFINE new == [req[r] EXCEPT !.pc = "save", !.copy = inventory]
    <3>1. /\ req \in [Requests -> Record] /\ req' = [req EXCEPT ![r] = new]
          /\ inventory \in Inventory
      BY <1>6 DEF LoadInventory, TypeOK, Record
    <3>2. new \in Record
      BY <3>1 DEF Record
    <3> QED  BY <3>1, <3>2
  <2> QED  BY <1>6, <2>1, TypedReq DEF LoadInventory
<1>7. CASE SaveInventory(r)
  <2>1. req' \in [Requests -> Record]
    BY <1>7, ReqTypes DEF SaveInventory
  <2>2. inventory' \in Inventory
    BY <1>7 DEF SaveInventory, TypeOK
  <2> QED  BY <1>7, <2>1, <2>2, TypedFrom
           DEF SaveInventory, Only, Typed, DocsOK, TypeOK, Sound, BalanceMatches
<1>8. CASE Crash(r)
  BY <1>8, ReqTypes, TypedReq DEF Crash
<1> QED  BY <1>1, <1>2, <1>3, <1>4, <1>5, <1>6, <1>7, <1>8

LEMMA TypedNext == Typed /\ [Next]_vars => Typed'
<1> SUFFICES ASSUME Typed, [Next]_vars  PROVE Typed'
  OBVIOUS
<1>1. CASE UNCHANGED vars
  BY <1>1 DEF vars, Typed, TypeOK, DocsOK, Sound, BalanceMatches
<1>2. ASSUME NEW r \in Requests, Step(r) \/ Crash(r)  PROVE Typed'
  BY <1>2, TypedPurchase, TypedFallback, TypedRefund, TypedRest DEF Step
<1> QED  BY <1>1, <1>2 DEF Next

(***************************************************************************)
(* Purchases, refunds and the other operations on the accounts keep every  *)
(* document of its type and every balance the sum of its history, with and *)
(* without transactions.                                                   *)
(***************************************************************************)
THEOREM PurchaseTypes == Spec => [](TypeOK /\ \A a \in Accounts : BalanceMatches(accounts[a]))
<1>1. Typed => TypeOK /\ \A a \in Accounts : BalanceMatches(accounts[a])
  BY DEF Typed, DocsOK, Sound
<1> QED  BY <1>1, TypedInit, TypedNext, PTL DEF Spec

-----------------------------------------------------------------------------
(* A debit for a purchase carries the mark that undo refuses.              *)
Marked(acc) ==
  \A i \in DOMAIN acc.txs :
    acc.txs[i].id \in Requests \X {"debit"} => acc.txs[i].origin = "purchase"
Marks == \A a \in Accounts : Marked(accounts[a])

Has(r, leg) == \E a \in Accounts : HasTx(a, r, leg)

(* A purchase is in the log only after its request has ended. *)
LoggedLast ==
  \A r \in Requests :
    Op(r).kind # "purchase" \/ req[r].pc # "done" => purchases[r].status = "none"

(* Whose refund it is: of those of one purchase only one gets hold of it.  *)
Holder(r) ==
  /\ Op(r).kind = "refund"
  /\ req[r].pc \in {"credit", "unflip", "takeBack"} \/ Has(r, "credit")

Flipped ==
  /\ \A r \in Requests : Has(r, "credit") =>
       Op(r).kind = "refund" /\ req[r].pc \in {"takeBack", "done"}
  /\ \A r \in Requests : Holder(r) => Bought(r).status = "refunded"
  /\ \A q, r \in Requests :
       Holder(q) /\ Holder(r) /\ Op(q).purchase = Op(r).purchase => q = r

FallbackPlaces == {"push", "section", "again", "debit", "balance", "log", "mayRevert",
                   "revert", "takeBack"}
Cost(r) == Logged(r) /\ purchases[r].paid > 0

(* What transactions are for. *)
Atomic ==
  /\ \A r \in Requests : Op(r).kind = "purchase" => req[r].pc \notin FallbackPlaces
  /\ \A r \in Requests : Has(r, "debit") => Op(r).kind = "purchase" /\ Cost(r)
  /\ \A r \in Requests : Cost(r) /\ Acc(r).exists => HasTx(Op(r).acc, r, "debit")
  /\ \A r \in Requests : purchases[r].nonce = Op(r).nonce
  /\ \A q, r \in Requests :
       Logged(q) /\ Logged(r) /\ Op(q).nonce = Op(r).nonce /\ Op(q).nonce # NoNonce => q = r

(* The inductive invariant. *)
MoneyConsistent ==
  Typed /\ Marks /\ LoggedLast /\ Flipped /\ (ReplicaSet => Atomic)

-----------------------------------------------------------------------------
(* Histories: what each write does to the transactions' names.             *)
LEMMA AppendIds ==
  ASSUME NEW acc \in Account, NEW tx \in Tx, NEW stamp
  PROVE  LET new == AppendTransaction(acc, tx, stamp) IN
         /\ TxsById(new) = TxsById(acc) \cup {tx.id} /\ new.exists = acc.exists
         /\ Marked(acc) /\ (tx.id \in Requests \X {"debit"} => tx.origin = "purchase")
            => Marked(new)
<1> DEFINE new == AppendTransaction(acc, tx, stamp)
<1>1. acc.txs \in Seq(Tx) /\ new.txs = Append(acc.txs, tx) /\ new.exists = acc.exists
  BY DEF Account, AppendTransaction
<1>2. /\ DOMAIN acc.txs = 1..Len(acc.txs) /\ Len(acc.txs) \in Nat
      /\ DOMAIN new.txs = 1..(Len(acc.txs) + 1)
      /\ \A i \in 1..Len(acc.txs) : new.txs[i] = acc.txs[i]
      /\ new.txs[Len(acc.txs) + 1] = tx
  BY <1>1, AppendProperties, LenProperties
<1> HIDE DEF new
<1>3. TxsById(new) = TxsById(acc) \cup {tx.id}
  <2>1. \A i \in 1..(Len(acc.txs) + 1) : i \in 1..Len(acc.txs) \/ i = Len(acc.txs) + 1
    BY <1>2
  <2>2. \A i \in 1..Len(acc.txs) : i \in 1..(Len(acc.txs) + 1)
    BY <1>2
  <2>3. Len(acc.txs) + 1 \in 1..(Len(acc.txs) + 1)
    BY <1>2
  <2> QED  BY <1>2, <2>1, <2>2, <2>3 DEF TxsById
<1>4. Marked(acc) /\ (tx.id \in Requests \X {"debit"} => tx.origin = "purchase") => Marked(new)
  BY <1>2 DEF Marked
<1> QED  BY <1>1, <1>3, <1>4 DEF new

LEMMA UndoIds ==
  ASSUME NEW acc \in Account, acc.txs # << >>, NEW stamp, Marked(acc), ~Linked(Last(acc.txs))
  PROVE  LET new == UndoLast(acc, acc, stamp) IN
         /\ TxsById(new) \subseteq TxsById(acc) /\ new.exists = acc.exists
         /\ \A q \in Requests : <<q, "debit">> \in TxsById(acc) => <<q, "debit">> \in TxsById(new)
         /\ Marked(new)
<1> DEFINE new == UndoLast(acc, acc, stamp)
           n == Len(acc.txs)
<1>1. acc.txs \in Seq(Tx) /\ new.txs = Front(acc.txs) /\ new.exists = acc.exists
  BY DEF Account, UndoLast
<1>2. /\ DOMAIN acc.txs = 1..n /\ n \in Nat /\ n >= 1
  BY <1>1, EmptySeq, LenProperties
<1>3. DOMAIN new.txs = 1..(n - 1) /\ \A i \in 1..(n - 1) : new.txs[i] = acc.txs[i]
  BY <1>1, <1>2 DEF Front
<1>4. Last(acc.txs) = acc.txs[n]
  BY DEF Last
<1> HIDE DEF new, n
<1>5. TxsById(new) \subseteq TxsById(acc)
  BY <1>2, <1>3 DEF TxsById
<1>6. ASSUME NEW q \in Requests, <<q, "debit">> \in TxsById(acc)
      PROVE  <<q, "debit">> \in TxsById(new)
  <2>1. PICK i \in 1..n : acc.txs[i].id = <<q, "debit">>
    BY <1>2, <1>6 DEF TxsById
  <2>2. acc.txs[i].origin = "purchase"
    <3>1. <<q, "debit">> \in Requests \X {"debit"}
      OBVIOUS
    <3>2. acc.txs[i].id \in Requests \X {"debit"} /\ i \in DOMAIN acc.txs
      BY <1>2, <2>1, <3>1
    <3> QED  BY <3>2 DEF Marked
  <2>3. i # n
    BY <1>4, <2>2 DEF Linked
  <2>4. i \in 1..(n - 1)
    BY <1>2, <2>3
  <2> QED  BY <1>3, <2>1, <2>4 DEF TxsById
<1>7. Marked(new)
  BY <1>2, <1>3 DEF Marked
<1> QED  BY <1>1, <1>5, <1>6, <1>7 DEF new

LEMMA ReplaceIds ==
  ASSUME NEW acc \in Account, NEW to, NEW stamp, Marked(acc)
  PROVE  LET new == ReplaceMoneyFields(acc, Recomputed(acc, to), stamp) IN
         /\ TxsById(new) = TxsById(acc) /\ new.exists = acc.exists /\ Marked(new)
<1> DEFINE new == ReplaceMoneyFields(acc, Recomputed(acc, to), stamp)
<1>1. new.txs = RecomputeTxs(acc.txs, acc.currency, to) /\ new.exists = acc.exists
  BY DEF Account, ReplaceMoneyFields, Recomputed
<1>2. \A i \in DOMAIN acc.txs : acc.txs[i] \in Tx
  BY LenProperties DEF Account
<1>3. DOMAIN new.txs = DOMAIN acc.txs
  BY <1>1 DEF RecomputeTxs
<1>4. \A i \in DOMAIN acc.txs : /\ new.txs[i].id = acc.txs[i].id
                                /\ new.txs[i].origin = acc.txs[i].origin
  BY <1>1, <1>2 DEF RecomputeTxs, Tx
<1> HIDE DEF new
<1>5. TxsById(new) = TxsById(acc)
  BY <1>3, <1>4 DEF TxsById
<1>6. Marked(new)
  BY <1>3, <1>4 DEF Marked
<1> QED  BY <1>1, <1>5, <1>6 DEF new

-----------------------------------------------------------------------------
(* What a step may do to the accounts: add transactions of these names, and *)
(* forget no payment.                                                       *)
Grow(names) ==
  /\ Marks'
  /\ \A a \in Accounts :
       /\ TxsById(accounts'[a]) \subseteq TxsById(accounts[a]) \cup names
       /\ accounts'[a].exists =>
            /\ accounts[a].exists
            /\ \A q \in Requests : <<q, "debit">> \in TxsById(accounts[a])
                                   => <<q, "debit">> \in TxsById(accounts'[a])

LEMMA GrowNot ==
  ASSUME Marks, UNCHANGED accounts
  PROVE  Grow({})
BY DEF Grow, Marks, Marked

LEMMA GrowPut ==
  ASSUME Typed, Marks, NEW a \in Accounts, NEW doc, NEW names, Put(a, doc),
         Marked(doc), TxsById(doc) \subseteq TxsById(accounts[a]) \cup names,
         doc.exists => /\ accounts[a].exists
                       /\ \A q \in Requests : <<q, "debit">> \in TxsById(accounts[a])
                                              => <<q, "debit">> \in TxsById(doc)
  PROVE  Grow(names) /\ accounts'[a] = doc
<1>1. accounts'[a] = doc /\ \A b \in Accounts : b # a => accounts'[b] = accounts[b]
  BY DEF Typed, DocsOK, Put
<1>2. Marks'
  BY <1>1 DEF Marks, Marked
<1>3. ASSUME NEW b \in Accounts
      PROVE  /\ TxsById(accounts'[b]) \subseteq TxsById(accounts[b]) \cup names
             /\ accounts'[b].exists =>
                  /\ accounts[b].exists
                  /\ \A q \in Requests : <<q, "debit">> \in TxsById(accounts[b])
                                         => <<q, "debit">> \in TxsById(accounts'[b])
  BY <1>1
<1> QED  BY <1>1, <1>2, <1>3 DEF Grow

LEMMA GrowAppend ==
  ASSUME Typed, Marks, NEW a \in Accounts, NEW tx \in Tx, Append1(a, tx),
         tx.id \in Requests \X {"debit"} => tx.origin = "purchase"
  PROVE  /\ Grow({tx.id}) /\ tx.id \in TxsById(accounts'[a])
         /\ \A b \in Accounts : b # a => accounts'[b] = accounts[b]
<1> DEFINE doc == AppendTransaction(accounts[a], tx, accounts[a].stamp + 1)
<1>1. accounts[a] \in Account /\ Put(a, doc) /\ Marked(accounts[a])
  BY DEF Typed, DocsOK, Append1, Marks
<1>2. TxsById(doc) = TxsById(accounts[a]) \cup {tx.id} /\ doc.exists = accounts[a].exists
      /\ Marked(doc)
  BY <1>1, AppendIds
<1> HIDE DEF doc
<1>3. Grow({tx.id}) /\ accounts'[a] = doc
  BY <1>1, <1>2, GrowPut
<1> QED  BY <1>1, <1>2, <1>3 DEF Put, Typed, DocsOK

LEMMA GrowOp ==
  ASSUME Typed, Marks, NEW r \in Requests,
         \/ AdjustAccount(r) \/ UndoAccount(r) \/ ConvertAccount(r)
         \/ ForbidSelfAdjust(r) \/ DeleteAccount(r)
  PROVE  Grow({<<r, "adjust">>}) /\ UNCHANGED purchases
<1>1. /\ Acc(r) = accounts[Op(r).acc] /\ Op(r).acc \in Accounts /\ Acc(r) \in Account
      /\ Marked(Acc(r))
  BY AccountOpDocs DEF Sound, Marks
<1>2. UNCHANGED purchases
  BY DEF AdjustAccount, UndoAccount, ConvertAccount, ForbidSelfAdjust, DeleteAccount,
         AccountOp, Only
<1>3. ASSUME NEW doc, Put(Op(r).acc, doc), Marked(doc),
             TxsById(doc) \subseteq TxsById(Acc(r)) \cup {<<r, "adjust">>},
             doc.exists => /\ Acc(r).exists
                           /\ \A q \in Requests : <<q, "debit">> \in TxsById(Acc(r))
                                                  => <<q, "debit">> \in TxsById(doc)
      PROVE  Grow({<<r, "adjust">>})
  BY <1>1, <1>3, GrowPut
<1>4. ASSUME Only({})  PROVE Grow({<<r, "adjust">>})
  BY <1>4, GrowNot DEF Only, Grow
<1>5. CASE AdjustAccount(r)
  <2> DEFINE tx == PlainTx(<<r, "adjust">>, Op(r).amount)
             doc == AppendTransaction(Acc(r), tx, NextStamp(r))
  <2>1. tx \in Tx /\ tx.id = <<r, "adjust">>
    BY LegTypes DEF Typed, PlainTx
  <2>2. tx.id \notin Requests \X {"debit"}
    BY <2>1
  <2> HIDE DEF tx
  <2>3. /\ TxsById(doc) = TxsById(Acc(r)) \cup {tx.id} /\ doc.exists = Acc(r).exists
        /\ Marked(doc)
    BY <1>1, <2>1, <2>2, AppendIds
  <2>4. (Put(Op(r).acc, doc) /\ Acc(r).exists) \/ Only({})
    BY <1>5 DEF AdjustAccount, AccountOp, tx
  <2> HIDE DEF doc
  <2> QED  BY <1>2, <1>3, <1>4, <2>1, <2>3, <2>4
<1>6. CASE UndoAccount(r)
  <2> DEFINE doc == UndoLast(Acc(r), Acc(r), NextStamp(r))
  <2>1. \/ Put(Op(r).acc, doc) /\ Acc(r).txs # << >> /\ ~Linked(Last(Acc(r).txs))
        \/ Only({})
    BY <1>6 DEF UndoAccount, AccountOp
  <2>2. Acc(r).txs # << >> /\ ~Linked(Last(Acc(r).txs)) =>
          /\ TxsById(doc) \subseteq TxsById(Acc(r)) /\ doc.exists = Acc(r).exists
          /\ \A q \in Requests : <<q, "debit">> \in TxsById(Acc(r)) => <<q, "debit">> \in TxsById(doc)
          /\ Marked(doc)
    BY <1>1, UndoIds
  <2> HIDE DEF doc
  <2> QED  BY <1>2, <1>3, <1>4, <2>1, <2>2
<1>7. CASE ConvertAccount(r)
  <2> DEFINE doc == ReplaceMoneyFields(Acc(r), Recomputed(Acc(r), Op(r).currency), NextStamp(r))
  <2>1. Put(Op(r).acc, doc) \/ Only({})
    BY <1>7 DEF ConvertAccount, AccountOp
  <2>2. TxsById(doc) = TxsById(Acc(r)) /\ doc.exists = Acc(r).exists /\ Marked(doc)
    BY <1>1, ReplaceIds
  <2> HIDE DEF doc
  <2> QED  BY <1>2, <1>3, <1>4, <2>1, <2>2
<1>8. CASE ForbidSelfAdjust(r)
  <2> DEFINE doc == [Acc(r) EXCEPT !.selfAdjust = FALSE, !.stamp = @ + 1]
  <2>1. Put(Op(r).acc, doc) \/ Only({})
    BY <1>8 DEF ForbidSelfAdjust, AccountOp
  <2>2. doc.txs = Acc(r).txs /\ doc.exists = Acc(r).exists
    BY <1>1 DEF Account
  <2>3. TxsById(doc) = TxsById(Acc(r)) /\ Marked(doc)
    BY <1>1, <2>2 DEF TxsById, Marked
  <2> HIDE DEF doc
  <2> QED  BY <1>2, <1>3, <1>4, <2>1, <2>2, <2>3
<1>9. CASE DeleteAccount(r)
  <2> DEFINE doc == [Acc(r) EXCEPT !.exists = FALSE, !.txs = << >>, !.balance = 0, !.stamp = 0]
  <2>1. Put(Op(r).acc, doc) \/ Only({})
    BY <1>9 DEF DeleteAccount, AccountOp
  <2>2. doc.txs = << >> /\ doc.exists = FALSE
    BY <1>1 DEF Account
  <2>3. DOMAIN << >> = {}
    OBVIOUS
  <2>4. TxsById(doc) = {} /\ Marked(doc)
    BY <2>2, <2>3 DEF TxsById, Marked
  <2> HIDE DEF doc
  <2> QED  BY <1>2, <1>3, <1>4, <2>1, <2>2, <2>4
<1> QED  BY <1>5, <1>6, <1>7, <1>8, <1>9

-----------------------------------------------------------------------------
(***************************************************************************)
(* Most steps of r only move it on: nothing is logged, no status changes,  *)
(* and neither a debit nor a credit is written.                            *)
(***************************************************************************)
Moved(r) ==
  /\ req[r].pc # "done"
  /\ \A q \in Requests \ {r} : req'[q] = req[q]
  /\ req'[r].op = req[r].op

Minor(r) == {<<r, "adjust">>, <<r, "revert">>} \cup
            (IF ReplicaSet THEN {} ELSE {<<r, "debit">>})

Calm(r) ==
  /\ Moved(r) /\ UNCHANGED purchases
  /\ Grow(Minor(r))
  /\ req'[r].pc \in {"credit", "unflip", "takeBack"} /\ Op(r).kind = "refund" =>
       req[r].pc \in {"credit", "unflip", "takeBack"}
  /\ req[r].pc = "takeBack" /\ Op(r).kind = "refund" => req'[r].pc \in {"takeBack", "done"}
  /\ ReplicaSet /\ Op(r).kind = "purchase" => req'[r].pc \notin FallbackPlaces

LEMMA OpSame ==
  ASSUME NEW r \in Requests, Moved(r)
  PROVE  \A q \in Requests : Op(q)' = Op(q)
BY DEF Moved, Op

(* No transaction of `leg' was added, except those of `names'. *)
LEMMA HasGrown ==
  ASSUME NEW names, Grow(names), NEW q \in Requests, NEW leg, <<q, leg>> \notin names
  PROVE  Has(q, leg)' => Has(q, leg)
BY DEF Grow, Has, HasTx

(* A payment stays where it is as long as its account does. *)
LEMMA PaymentKept ==
  ASSUME TypeOK, NEW names, Grow(names), NEW r \in Requests, NEW q \in Requests, Moved(r)
  PROVE  /\ Acc(q)'.exists => Acc(q).exists
         /\ Acc(q)'.exists /\ HasTx(Op(q).acc, q, "debit") => HasTx(Op(q).acc, q, "debit")'
<1>1. Op(q)' = Op(q) /\ Op(q).acc \in Accounts
  BY OpSame, OpType
<1> QED  BY <1>1 DEF Grow, Acc, HasTx

(* What is logged, for how much, and what was paid for it stays.           *)
LEMMA AtomicKept ==
  ASSUME MoneyConsistent, NEW r \in Requests, Moved(r), NEW names, Grow(names),
         \A q \in Requests : <<q, "debit">> \notin names,
         \A q \in Requests : Logged(q)' = Logged(q) /\ purchases'[q].paid = purchases[q].paid
                             /\ purchases'[q].nonce = purchases[q].nonce,
         Op(r).kind = "purchase" => req'[r].pc \notin FallbackPlaces,
         ReplicaSet
  PROVE  Atomic'
<1> USE DEF MoneyConsistent
<1> TypeOK
  BY DEF Typed
<1>1. \A q \in Requests : Op(q)' = Op(q)
  BY OpSame
<1>2. \A q \in Requests : Cost(q)' = Cost(q)
  BY DEF Cost
<1>3. \A q \in Requests : Op(q)'.kind = "purchase" => req'[q].pc \notin FallbackPlaces
  <2> SUFFICES ASSUME NEW q \in Requests, Op(q)'.kind = "purchase"
               PROVE  req'[q].pc \notin FallbackPlaces
    OBVIOUS
  <2>1. CASE q = r
    BY <1>1, <2>1
  <2>2. CASE q # r
    BY <1>1, <2>2 DEF Moved, Atomic
  <2> QED  BY <2>1, <2>2
<1>4. \A q \in Requests : Has(q, "debit")' => Op(q)'.kind = "purchase" /\ Cost(q)'
  BY <1>1, <1>2, HasGrown DEF Atomic
<1>5. \A q \in Requests : Cost(q)' /\ Acc(q)'.exists => HasTx(Op(q).acc, q, "debit")'
  BY <1>2, PaymentKept DEF Atomic
<1>6. \A q \in Requests : purchases'[q].nonce = Op(q)'.nonce
  BY <1>1 DEF Atomic
<1>7. \A p, q \in Requests :
        Logged(p)' /\ Logged(q)' /\ Op(p)'.nonce = Op(q)'.nonce /\ Op(p)'.nonce # NoNonce => p = q
  BY <1>1 DEF Atomic
<1> QED  BY <1>3, <1>4, <1>5, <1>6, <1>7 DEF Atomic

LEMMA CalmKeeps ==
  ASSUME MoneyConsistent, NEW r \in Requests, Calm(r)
  PROVE  Marks' /\ LoggedLast' /\ Flipped' /\ (ReplicaSet => Atomic')
<1> USE DEF MoneyConsistent
<1> TypeOK /\ Moved(r)
  BY DEF Typed, Calm
<1>1. \A q \in Requests : Op(q)' = Op(q)
  BY OpSame
<1>2. Marks' /\ UNCHANGED purchases
  BY DEF Calm, Grow
<1>3. \A q \in Requests : Has(q, "credit")' => Has(q, "credit")
  <2>1. \A q \in Requests : <<q, "credit">> \notin Minor(r)
    BY DEF Minor
  <2> QED  BY <2>1, HasGrown DEF Calm
<1>5. LoggedLast'
  BY <1>1, <1>2 DEF LoggedLast, Moved
<1>6. \A q \in Requests : Holder(q)' => Holder(q)
  <2> SUFFICES ASSUME NEW q \in Requests, Holder(q)'  PROVE Holder(q)
    OBVIOUS
  <2>1. CASE q = r
    BY <1>1, <1>3, <2>1 DEF Holder, Calm
  <2>2. CASE q # r
    BY <1>1, <1>3, <2>2 DEF Holder, Moved
  <2> QED  BY <2>1, <2>2
<1>7. Flipped'
  <2>1. ASSUME NEW q \in Requests, Has(q, "credit")'
        PROVE  Op(q)'.kind = "refund" /\ req'[q].pc \in {"takeBack", "done"}
    <3>1. Op(q).kind = "refund" /\ req[q].pc \in {"takeBack", "done"}
      BY <1>3, <2>1 DEF Flipped
    <3>2. CASE q = r
      BY <1>1, <3>1, <3>2 DEF Calm, Moved
    <3>3. CASE q # r
      BY <1>1, <3>1, <3>3 DEF Moved
    <3> QED  BY <3>2, <3>3
  <2>2. \A q \in Requests : Holder(q)' => Bought(q)'.status = "refunded"
    BY <1>1, <1>2, <1>6 DEF Flipped, Bought
  <2>3. \A p, q \in Requests :
          Holder(p)' /\ Holder(q)' /\ Op(p)'.purchase = Op(q)'.purchase => p = q
    BY <1>1, <1>6 DEF Flipped
  <2> QED  BY <2>1, <2>2, <2>3 DEF Flipped
<1>8. ASSUME ReplicaSet  PROVE Atomic'
  <2>1. \A q \in Requests : <<q, "debit">> \notin Minor(r)
    BY <1>8 DEF Minor
  <2>2. \A q \in Requests : Logged(q)' = Logged(q) /\ purchases'[q].paid = purchases[q].paid
                            /\ purchases'[q].nonce = purchases[q].nonce
    BY <1>2 DEF Logged
  <2> QED  BY <1>8, <2>1, <2>2, AtomicKept DEF Calm
<1> QED  BY <1>2, <1>5, <1>7, <1>8

-----------------------------------------------------------------------------
LEMMA Movings ==
  ASSUME TypeOK, NEW r \in Requests, req[r].pc # "done"
  PROVE  /\ \A place : Goto(r, place) => Moved(r) /\ req'[r].pc = place
         /\ \A answer : Finish(r, answer) => Moved(r) /\ req'[r].pc = "done"
         /\ \A answer, place : Because(r, answer, place) => Moved(r) /\ req'[r].pc = place
         /\ Alarm(r) => Moved(r) /\ req'[r].pc = "takeBack"
         /\ \A x : req' = [req EXCEPT ![r].pc = "inventory", ![r].paid = x]
                   => Moved(r) /\ req'[r].pc = "inventory"
         /\ \A x : req' = [req EXCEPT ![r].pc = "save", ![r].copy = x]
                   => Moved(r) /\ req'[r].pc = "save"
<1>1. \A place : Goto(r, place) => Moved(r) /\ req'[r].pc = place
  BY DEF TypeOK, Moved, Goto
<1>2. \A answer : Finish(r, answer) => Moved(r) /\ req'[r].pc = "done"
  BY DEF TypeOK, Moved, Finish
<1>3. \A answer, place : Because(r, answer, place) => Moved(r) /\ req'[r].pc = place
  BY DEF TypeOK, Moved, Because
<1>4. Alarm(r) => Moved(r) /\ req'[r].pc = "takeBack"
  BY DEF TypeOK, Moved, Alarm
<1>5. \A x : req' = [req EXCEPT ![r].pc = "inventory", ![r].paid = x]
             => Moved(r) /\ req'[r].pc = "inventory"
  BY DEF TypeOK, Moved
<1>6. \A x : req' = [req EXCEPT ![r].pc = "save", ![r].copy = x]
             => Moved(r) /\ req'[r].pc = "save"
  BY DEF TypeOK, Moved
<1> QED  BY <1>1, <1>2, <1>3, <1>4, <1>5, <1>6

(* A step that leaves accounts and log alone. *)
LEMMA CalmReq ==
  ASSUME Marks, NEW r \in Requests, Moved(r), UNCHANGED <<accounts, purchases>>,
         \/ req'[r].pc = "done"
         \/ Op(r).kind = "purchase" /\ (ReplicaSet => req'[r].pc \notin FallbackPlaces)
         \/ /\ Op(r).kind \notin {"purchase"}
            /\ req'[r].pc \notin {"credit", "unflip", "takeBack"} /\ req[r].pc # "takeBack"
         \/ /\ Op(r).kind = "refund" /\ req[r].pc = "credit" /\ req'[r].pc = "unflip"
  PROVE  Calm(r)
<1>1. Grow({})
  BY GrowNot
<1>2. Grow(Minor(r))
  BY <1>1 DEF Grow
<1>3. req'[r].pc \in {"credit", "unflip", "takeBack"} /\ Op(r).kind = "refund" =>
         req[r].pc \in {"credit", "unflip", "takeBack"}
  OBVIOUS
<1>4. req[r].pc = "takeBack" /\ Op(r).kind = "refund" => req'[r].pc \in {"takeBack", "done"}
  OBVIOUS
<1>5. ASSUME ReplicaSet, Op(r).kind = "purchase"  PROVE req'[r].pc \notin FallbackPlaces
  BY <1>5 DEF FallbackPlaces
<1>6. UNCHANGED purchases
  OBVIOUS
<1> QED  BY <1>2, <1>3, <1>4, <1>5, <1>6 DEF Calm

-----------------------------------------------------------------------------
(***************************************************************************)
(* The five steps that matter.                                             *)
(***************************************************************************)
Logs(r) ==
  \/ Is(r, "purchase", "tx") /\ DebitIn(r)
  \/ Is(r, "purchase", "log") /\ UNCHANGED accounts

LEMMA LogKeeps ==
  ASSUME MoneyConsistent, NEW r \in Requests, Logs(r), ~NonceTaken(Op(r).nonce),
         LogPurchase(r), Finish(r, "ok")
  PROVE  Marks' /\ LoggedLast' /\ Flipped' /\ (ReplicaSet => Atomic')
<1> USE DEF MoneyConsistent
<1> TypeOK
  BY DEF Typed
<1>1. Op(r).kind = "purchase" /\ req[r].pc \in {"tx", "log"}
  BY DEF Logs, Is
<1>2. Moved(r) /\ req'[r].pc = "done"
  BY <1>1, Movings
<1>3. \A q \in Requests : Op(q)' = Op(q) /\ (q # r => req'[q] = req[q])
  BY <1>2, OpSame DEF Moved
<1>4. /\ purchases'[r].status = "active" /\ purchases'[r].paid = req[r].paid
      /\ purchases'[r].nonce = Op(r).nonce
      /\ \A p \in PurchaseIds : p # r => purchases'[p] = purchases[p]
  BY DEF LogPurchase, TypeOK, PurchaseIds
<1>5. purchases[r].status = "none" /\ r \in PurchaseIds
  BY <1>1 DEF LoggedLast, PurchaseIds
<1>6. Grow({<<r, "debit">>}) /\ (req[r].paid = 0 => UNCHANGED accounts)
  <2>1. CASE UNCHANGED accounts
    BY <2>1, GrowNot DEF Grow
  <2>2. CASE req[r].paid > 0 /\ Append1(Op(r).acc, DebitTx(r))
    <3>1. DebitTx(r) \in Tx /\ DebitTx(r).id = <<r, "debit">> /\ DebitTx(r).origin = "purchase"
      BY LegTypes DEF DebitTx
    <3>2. Grow({DebitTx(r).id})
      BY <2>2, <3>1, OpType, GrowAppend
    <3> QED  BY <2>2, <3>1, <3>2
  <2>3. req[r].paid \in Nat
    BY DEF TypeOK
  <2> QED  BY <2>1, <2>2, <2>3 DEF Logs, DebitIn
<1>7. LoggedLast'
  <2> SUFFICES ASSUME NEW q \in Requests, Op(q)'.kind # "purchase" \/ req'[q].pc # "done"
               PROVE  purchases'[q].status = "none"
    BY DEF LoggedLast
  <2>1. q # r
    BY <1>1, <1>2, <1>3
  <2> QED  BY <1>3, <1>4, <2>1 DEF LoggedLast, PurchaseIds
<1>8. \A q \in Requests : Has(q, "credit")' => Has(q, "credit")
  <2>1. \A q \in Requests : <<q, "credit">> \notin {<<r, "debit">>}
    OBVIOUS
  <2> QED  BY <1>6, <2>1, HasGrown
<1>9. ASSUME NEW q \in Requests, Holder(q)'
      PROVE  Holder(q) /\ Op(q).purchase # r /\ Op(q).purchase \in PurchaseIds
  <2>1. q # r
    BY <1>1, <1>3, <1>9 DEF Holder
  <2>2. Holder(q)
    BY <1>3, <1>8, <1>9, <2>1 DEF Holder
  <2> QED  BY <1>5, <2>2, OpType DEF Flipped, Bought
<1>10. Flipped'
  <2>1. ASSUME NEW q \in Requests, Has(q, "credit")'
        PROVE  Op(q)'.kind = "refund" /\ req'[q].pc \in {"takeBack", "done"}
    <3>1. Op(q).kind = "refund" /\ req[q].pc \in {"takeBack", "done"}
      BY <1>8, <2>1 DEF Flipped
    <3> QED  BY <1>1, <1>3, <3>1
  <2>2. \A q \in Requests : Holder(q)' => Bought(q)'.status = "refunded"
    BY <1>3, <1>4, <1>9 DEF Flipped, Bought
  <2>3. \A p, q \in Requests :
          Holder(p)' /\ Holder(q)' /\ Op(p)'.purchase = Op(q)'.purchase => p = q
    BY <1>3, <1>9 DEF Flipped
  <2> QED  BY <2>1, <2>2, <2>3 DEF Flipped
<1>11. ASSUME ReplicaSet  PROVE Atomic'
  <2>1. Atomic /\ DebitIn(r)
    <3>1. "log" \in FallbackPlaces
      BY DEF FallbackPlaces
    <3> QED  BY <1>1, <1>11, <3>1 DEF Atomic, Logs, Is
  <2>2. ~Cost(r) /\ ~Logged(r)
    BY <1>5 DEF Cost, Logged
  <2>3. \A q \in Requests : q # r => Cost(q)' = Cost(q) /\ Logged(q)' = Logged(q)
    BY <1>4 DEF Cost, Logged, PurchaseIds
  <2>4. \A q \in Requests : Op(q)'.kind = "purchase" => req'[q].pc \notin FallbackPlaces
    <3>1. "done" \notin FallbackPlaces
      BY DEF FallbackPlaces
    <3> QED  BY <1>2, <1>3, <2>1, <3>1 DEF Atomic
  <2>5. \A q \in Requests : Has(q, "debit")' => Op(q)'.kind = "purchase" /\ Cost(q)'
    <3> SUFFICES ASSUME NEW q \in Requests, Has(q, "debit")'
                 PROVE  Op(q)'.kind = "purchase" /\ Cost(q)'
      OBVIOUS
    <3>1. CASE q # r
      <4>1. <<q, "debit">> \notin {<<r, "debit">>}
        BY <3>1
      <4>2. Has(q, "debit")
        BY <1>6, <4>1, HasGrown
      <4> QED  BY <1>3, <2>1, <2>3, <3>1, <4>2 DEF Atomic
    <3>2. CASE q = r
      <4>1. req[r].paid # 0
        BY <1>6, <2>1, <2>2, <3>2 DEF Atomic, Has, HasTx
      <4>2. req[r].paid > 0
        BY <4>1 DEF TypeOK
      <4> QED  BY <1>1, <1>3, <1>4, <3>2, <4>2 DEF Cost, Logged
    <3> QED  BY <3>1, <3>2
  <2>6. ASSUME NEW q \in Requests, Cost(q)', Acc(q)'.exists
        PROVE  HasTx(Op(q).acc, q, "debit")'
    <3>1. CASE q # r
      BY <1>2, <1>6, <2>1, <2>3, <2>6, <3>1, PaymentKept DEF Atomic
    <3>2. CASE q = r
      <4>1. Append1(Op(r).acc, DebitTx(r))
        BY <1>4, <2>1, <2>6, <3>2 DEF Cost, DebitIn
      <4>2. DebitTx(r) \in Tx /\ DebitTx(r).id = <<r, "debit">> /\ DebitTx(r).origin = "purchase"
        BY LegTypes DEF DebitTx
      <4>3. DebitTx(r).id \in TxsById(accounts'[Op(r).acc])
        BY <4>1, <4>2, OpType, GrowAppend
      <4> QED  BY <1>3, <3>2, <4>2, <4>3 DEF HasTx
    <3> QED  BY <3>1, <3>2
  <2>7. \A q \in Requests : purchases'[q].nonce = Op(q)'.nonce
    BY <1>3, <1>4, <2>1 DEF Atomic, PurchaseIds
  <2>8. ASSUME NEW q \in Requests, q # r, Logged(q)', Op(q).nonce = Op(r).nonce,
               Op(r).nonce # NoNonce
        PROVE  FALSE
    <3>1. Logged(q) /\ purchases[q].nonce = Op(r).nonce
      BY <2>1, <2>3, <2>8 DEF Atomic
    <3> QED  BY <2>8, <3>1 DEF NonceTaken, PurchaseIds
  <2>9. \A p, q \in Requests :
          Logged(p)' /\ Logged(q)' /\ Op(p)'.nonce = Op(q)'.nonce /\ Op(p)'.nonce # NoNonce => p = q
    <3> SUFFICES ASSUME NEW p \in Requests, NEW q \in Requests, Logged(p)', Logged(q)',
                        Op(p).nonce = Op(q).nonce, Op(p).nonce # NoNonce
                 PROVE  p = q
      BY <1>3
    <3>1. CASE p # r /\ q # r
      BY <2>1, <2>3, <3>1 DEF Atomic
    <3> QED  BY <2>8, <3>1
  <2> QED  BY <2>4, <2>5, <2>6, <2>7, <2>9 DEF Atomic
<1> QED  BY <1>6, <1>7, <1>10, <1>11 DEF Grow

(* The status of a purchase in the log changes: what was logged stays so.  *)
LEMMA StatusKeeps ==
  ASSUME MoneyConsistent, NEW r \in Requests, Op(r).kind = "refund", Moved(r),
         NEW status \in {"active", "refunded"}, Bought(r).status # "none",
         SetStatus(Op(r).purchase, status), NEW names, Grow(names),
         \A q \in Requests : <<q, "debit">> \notin names
  PROVE  /\ Marks' /\ LoggedLast' /\ (ReplicaSet => Atomic')
         /\ Bought(r)'.status = status
         /\ \A p \in PurchaseIds : p # Op(r).purchase => purchases'[p] = purchases[p]
<1> USE DEF MoneyConsistent
<1> TypeOK
  BY DEF Typed
<1>1. \A q \in Requests : Op(q)' = Op(q)
  BY OpSame
<1>2. Op(r).purchase \in PurchaseIds /\ purchases \in [PurchaseIds -> Purchase]
  BY OpType DEF TypeOK
<1>3. /\ \A p \in PurchaseIds : p # Op(r).purchase => purchases'[p] = purchases[p]
      /\ purchases'[Op(r).purchase] = [purchases[Op(r).purchase] EXCEPT !.status = status]
  BY <1>2 DEF SetStatus
<1>4. /\ purchases'[Op(r).purchase].status = status
      /\ purchases'[Op(r).purchase].paid = purchases[Op(r).purchase].paid
      /\ purchases'[Op(r).purchase].nonce = purchases[Op(r).purchase].nonce
  BY <1>2, <1>3 DEF Purchase
<1>5. \A q \in Requests : Logged(q)' = Logged(q) /\ purchases'[q].paid = purchases[q].paid
                          /\ purchases'[q].nonce = purchases[q].nonce
  BY <1>3, <1>4 DEF Logged, Bought, PurchaseIds
<1>6. LoggedLast'
  <2> SUFFICES ASSUME NEW q \in Requests, Op(q)'.kind # "purchase" \/ req'[q].pc # "done"
               PROVE  purchases'[q].status = "none"
    BY DEF LoggedLast
  <2>1. purchases[q].status = "none"
    BY <1>1 DEF LoggedLast, Moved
  <2> QED  BY <1>5, <2>1 DEF Logged
<1>7. ReplicaSet => Atomic'
  BY <1>5, AtomicKept
<1> QED  BY <1>1, <1>3, <1>4, <1>6, <1>7 DEF Grow, Bought

(* CreditIn in terms of names. *)
LEMMA CreditGrows ==
  ASSUME MoneyConsistent, NEW r \in Requests, CreditIn(r) \/ UNCHANGED accounts
  PROVE  Grow({<<r, "credit">>})
<1> USE DEF MoneyConsistent
<1>1. CASE UNCHANGED accounts
  BY <1>1, GrowNot DEF Grow
<1>2. CASE Append1(Bought(r).acc, CreditTx(r))
  <2>1. CreditTx(r) \in Tx /\ CreditTx(r).id = <<r, "credit">>
    BY LegTypes DEF CreditTx, PlainTx, Typed
  <2>2. CreditTx(r).id \notin Requests \X {"debit"} /\ Bought(r).acc \in Accounts
    BY <2>1, OpType DEF Typed, TypeOK, Bought, Purchase
  <2>3. Grow({CreditTx(r).id})
    BY <1>2, <2>1, <2>2, GrowAppend
  <2> QED  BY <2>1, <2>3
<1> QED  BY <1>1, <1>2 DEF CreditIn

(* A refund gets hold of a purchase that nobody else holds. *)
LEMMA TakeKeeps ==
  ASSUME MoneyConsistent, NEW r \in Requests, Op(r).kind = "refund", Moved(r),
         Bought(r).status = "active", SetStatus(Op(r).purchase, "refunded"),
         \/ UNCHANGED accounts /\ req'[r].pc = "credit"
         \/ CreditIn(r) /\ req'[r].pc = "takeBack"
  PROVE  Marks' /\ LoggedLast' /\ Flipped' /\ (ReplicaSet => Atomic')
<1> USE DEF MoneyConsistent
<1> TypeOK
  BY DEF Typed
<1>1. \A q \in Requests : Op(q)' = Op(q)
  BY OpSame
<1>2. Grow({<<r, "credit">>})
  BY CreditGrows
<1>3. \A q \in Requests : <<q, "debit">> \notin {<<r, "credit">>}
  OBVIOUS
<1>4. /\ Marks' /\ LoggedLast' /\ (ReplicaSet => Atomic')
      /\ Bought(r)'.status = "refunded"
      /\ \A p \in PurchaseIds : p # Op(r).purchase => purchases'[p] = purchases[p]
  BY <1>2, <1>3, StatusKeeps
<1>5. ~Holder(r) /\ \A q \in Requests : Holder(q) => Op(q).purchase # Op(r).purchase
  BY DEF Flipped, Bought
<1>6. ASSUME NEW q \in Requests, q # r, Has(q, "credit")'  PROVE Has(q, "credit")
  <2>1. <<q, "credit">> \notin {<<r, "credit">>}
    BY <1>6
  <2> QED  BY <1>2, <1>6, <2>1, HasGrown
<1>7. \A q \in Requests : q # r => (Holder(q)' => Holder(q))
  BY <1>1, <1>6 DEF Holder, Moved
<1>8. UNCHANGED accounts => ~Has(r, "credit")'
  BY <1>5 DEF Holder, Has, HasTx
<1>9. Flipped'
  <2>1. ASSUME NEW q \in Requests, Has(q, "credit")'
        PROVE  Op(q)'.kind = "refund" /\ req'[q].pc \in {"takeBack", "done"}
    <3>1. CASE q = r
      BY <1>1, <1>8, <2>1, <3>1
    <3>2. CASE q # r
      BY <1>1, <1>6, <2>1, <3>2 DEF Flipped, Moved
    <3> QED  BY <3>1, <3>2
  <2>2. ASSUME NEW q \in Requests, Holder(q)'  PROVE Bought(q)'.status = "refunded"
    <3>1. CASE q = r
      BY <1>4, <3>1
    <3>2. CASE q # r
      BY <1>1, <1>4, <1>5, <1>7, <2>2, <3>2, OpType DEF Flipped, Bought
    <3> QED  BY <3>1, <3>2
  <2>3. \A p, q \in Requests :
          Holder(p)' /\ Holder(q)' /\ Op(p)'.purchase = Op(q)'.purchase => p = q
    BY <1>1, <1>5, <1>7 DEF Flipped
  <2> QED  BY <2>1, <2>2, <2>3 DEF Flipped
<1> QED  BY <1>4, <1>9

LEMMA CreditKeeps ==
  ASSUME MoneyConsistent, NEW r \in Requests, Is(r, "refund", "credit"), CreditIn(r),
         Goto(r, "takeBack"), UNCHANGED purchases
  PROVE  Marks' /\ LoggedLast' /\ Flipped' /\ (ReplicaSet => Atomic')
<1> USE DEF MoneyConsistent
<1> TypeOK
  BY DEF Typed
<1>1. Op(r).kind = "refund" /\ req[r].pc = "credit" /\ Moved(r) /\ req'[r].pc = "takeBack"
  BY Movings DEF Is
<1>2. \A q \in Requests : Op(q)' = Op(q)
  BY <1>1, OpSame
<1>3. Grow({<<r, "credit">>})
  BY CreditGrows
<1>4. \A q \in Requests : <<q, "debit">> \notin {<<r, "credit">>}
  OBVIOUS
<1>5. Marks' /\ LoggedLast'
  BY <1>1, <1>2, <1>3 DEF Grow, LoggedLast, Moved
<1>6. ReplicaSet => Atomic'
  <2>1. \A q \in Requests : Logged(q)' = Logged(q) /\ purchases'[q].paid = purchases[q].paid
                            /\ purchases'[q].nonce = purchases[q].nonce
    BY DEF Logged
  <2> QED  BY <1>1, <1>3, <1>4, <2>1, AtomicKept
<1>7. ASSUME NEW q \in Requests, q # r, Has(q, "credit")'  PROVE Has(q, "credit")
  <2>1. <<q, "credit">> \notin {<<r, "credit">>}
    BY <1>7
  <2> QED  BY <1>3, <1>7, <2>1, HasGrown
<1>8. \A q \in Requests : Holder(q)' => Holder(q)
  BY <1>1, <1>2, <1>7 DEF Holder, Moved
<1>9. Flipped'
  <2>1. ASSUME NEW q \in Requests, Has(q, "credit")'
        PROVE  Op(q)'.kind = "refund" /\ req'[q].pc \in {"takeBack", "done"}
    <3>1. CASE q = r
      BY <1>1, <1>2, <3>1
    <3>2. CASE q # r
      BY <1>1, <1>2, <1>7, <2>1, <3>2 DEF Flipped, Moved
    <3> QED  BY <3>1, <3>2
  <2>2. \A q \in Requests : Holder(q)' => Bought(q)'.status = "refunded"
    BY <1>2, <1>8 DEF Flipped, Bought
  <2>3. \A p, q \in Requests :
          Holder(p)' /\ Holder(q)' /\ Op(p)'.purchase = Op(q)'.purchase => p = q
    BY <1>2, <1>8 DEF Flipped
  <2> QED  BY <2>1, <2>2, <2>3 DEF Flipped
<1> QED  BY <1>5, <1>6, <1>9

(* A refund that could not credit lets go of its purchase. *)
LEMMA UnflipKeeps ==
  ASSUME MoneyConsistent, NEW r \in Requests, RefundUnflip(r), Finish(r, "failed")
  PROVE  Marks' /\ LoggedLast' /\ Flipped' /\ (ReplicaSet => Atomic')
<1> USE DEF MoneyConsistent
<1> TypeOK
  BY DEF Typed
<1>1. /\ Op(r).kind = "refund" /\ req[r].pc = "unflip" /\ Moved(r) /\ req'[r].pc = "done"
      /\ UNCHANGED accounts
  BY Movings DEF RefundUnflip, Is, Only
<1>2. Holder(r) /\ Bought(r).status = "refunded"
  BY <1>1 DEF Flipped, Holder
<1>3. SetStatus(Op(r).purchase, "active")
  <2>1. ~Finish(r, "stranded")
    <3>1. req \in [Requests -> Record]
      BY DEF TypeOK, Record
    <3>2. \A answer : Finish(r, answer) => req'[r].answer = answer
      BY <3>1 DEF Finish, Record
    <3>3. req'[r].answer = "failed"
      BY <3>2
    <3> QED  BY <3>2, <3>3
  <2> QED  BY <1>2, <2>1 DEF RefundUnflip
<1>4. \A q \in Requests : Op(q)' = Op(q)
  BY <1>1, OpSame
<1>5. /\ Marks' /\ LoggedLast' /\ (ReplicaSet => Atomic')
      /\ \A p \in PurchaseIds : p # Op(r).purchase => purchases'[p] = purchases[p]
  <2>1. Grow({}) /\ \A q \in Requests : <<q, "debit">> \notin {}
    BY <1>1, GrowNot
  <2> QED  BY <1>1, <1>2, <1>3, <2>1, StatusKeeps
<1>6. \A q \in Requests : Has(q, "credit")' = Has(q, "credit")
  BY <1>1 DEF Has, HasTx
<1>7. ~Holder(r)'
  BY <1>1, <1>6 DEF Flipped, Holder
<1>8. \A q \in Requests : Holder(q)' => Holder(q) /\ q # r
  BY <1>1, <1>4, <1>6, <1>7 DEF Holder, Moved
<1>9. Flipped'
  <2>1. \A q \in Requests : Has(q, "credit")' => 
          Op(q)'.kind = "refund" /\ req'[q].pc \in {"takeBack", "done"}
    BY <1>1, <1>4, <1>6 DEF Flipped, Moved
  <2>2. \A q \in Requests : Holder(q)' => Bought(q)'.status = "refunded"
    <3> SUFFICES ASSUME NEW q \in Requests, Holder(q)'  PROVE Bought(q)'.status = "refunded"
      OBVIOUS
    <3>1. Op(q).purchase # Op(r).purchase
      BY <1>2, <1>8 DEF Flipped
    <3> QED  BY <1>4, <1>5, <1>8, <3>1, OpType DEF Flipped, Bought
  <2>3. \A p, q \in Requests :
          Holder(p)' /\ Holder(q)' /\ Op(p)'.purchase = Op(q)'.purchase => p = q
    BY <1>4, <1>8 DEF Flipped
  <2> QED  BY <2>1, <2>2, <2>3 DEF Flipped
<1> QED  BY <1>5, <1>9

-----------------------------------------------------------------------------
Kept == Marks' /\ LoggedLast' /\ Flipped' /\ (ReplicaSet => Atomic')

LEMMA PurchaseKeeps ==
  ASSUME MoneyConsistent, NEW r \in Requests,
         \/ PurchaseReplay(r) \/ PurchaseGate(r) \/ PurchaseInventory(r)
         \/ CreateInventory(r) \/ PurchaseTx(r) \/ ReplayWinner(r)
  PROVE  Kept
<1> TypeOK /\ Marks
  BY DEF MoneyConsistent, Typed
<1>1. Op(r).kind = "purchase" /\ req[r].pc # "done"
  BY DEF Is, PurchaseReplay, PurchaseGate, PurchaseInventory, CreateInventory, PurchaseTx,
         ReplayWinner
<1>2. ASSUME UNCHANGED <<accounts, purchases>>,
             \/ \E answer : Finish(r, answer)
             \/ \E place \in {"gate", "create", "replay", Ready} : Goto(r, place)
             \/ \E x : req' = [req EXCEPT ![r].pc = "inventory", ![r].paid = x]
      PROVE  Kept
  <2>1. ReplicaSet => \A place \in {"gate", "create", "replay", "inventory", "done", Ready} :
                        place \notin FallbackPlaces
    BY DEF FallbackPlaces, Ready
  <2>2. Moved(r) /\ req'[r].pc \in {"gate", "create", "replay", "inventory", "done", Ready}
    BY <1>1, <1>2, Movings
  <2>3. Calm(r)
    BY <1>1, <1>2, <2>1, <2>2, CalmReq
  <2> QED  BY <2>3, CalmKeeps DEF Kept
<1>3. PurchaseReplay(r) => Kept
  BY <1>2 DEF PurchaseReplay, Only
<1>4. PurchaseGate(r) => Kept
  BY <1>2 DEF PurchaseGate, Only
<1>5. PurchaseInventory(r) => Kept
  BY <1>2 DEF PurchaseInventory, Only
<1>6. CreateInventory(r) => Kept
  BY <1>2 DEF CreateInventory, Only
<1>7. PurchaseTx(r) => Kept
  <2>1. ASSUME PurchaseTx(r), Only({}), (\E answer : Finish(r, answer)) \/ Goto(r, "replay")
        PROVE  Kept
    BY <1>2, <2>1 DEF Only
  <2>2. ASSUME PurchaseTx(r), ~NonceTaken(Op(r).nonce), DebitIn(r), LogPurchase(r),
               Finish(r, "ok")
        PROVE  Kept
    BY <2>2, LogKeeps DEF PurchaseTx, Logs, Kept
  <2> QED  BY <2>1, <2>2 DEF PurchaseTx
<1>8. ReplayWinner(r) => Kept
  BY <1>2 DEF ReplayWinner, Only
<1> QED  BY <1>3, <1>4, <1>5, <1>6, <1>7, <1>8

LEMMA FallbackKeeps ==
  ASSUME MoneyConsistent, NEW r \in Requests,
         \/ PushItem(r) \/ PushSection(r) \/ PushAgain(r) \/ Debit(r)
         \/ ReadBalance(r) \/ CreateLog(r) \/ RevertGate(r) \/ Revert(r) \/ TakeBack(r)
  PROVE  Kept
<1> TypeOK /\ Marks /\ Typed
  BY DEF MoneyConsistent, Typed
<1>1. Op(r).kind = "purchase" /\ req[r].pc \in FallbackPlaces /\ req[r].pc # "done"
  BY DEF Is, PushItem, PushSection, PushAgain, Debit, ReadBalance, CreateLog, RevertGate, Revert,
         TakeBack, FallbackPlaces
<1>2. ~ReplicaSet
  BY <1>1 DEF MoneyConsistent, Atomic
<1>3. ASSUME UNCHANGED purchases, Moved(r), Grow(Minor(r))  PROVE Kept
  <2>1. Calm(r)
    BY <1>1, <1>2, <1>3 DEF Calm
  <2> QED  BY <2>1, CalmKeeps DEF Kept
<1>4. UNCHANGED accounts => Grow(Minor(r))
  BY GrowNot DEF Grow
<1>5. PushItem(r) \/ PushSection(r) \/ PushAgain(r) => Kept
  <2>1. PushItem(r) \/ PushSection(r) \/ PushAgain(r) =>
          /\ UNCHANGED <<accounts, purchases>>
          /\ (\E place : Goto(r, place)) \/ (\E answer : Finish(r, answer))
    BY DEF PushItem, PushSection, PushAgain, Only
  <2> QED  BY <1>1, <1>3, <1>4, <2>1, Movings
<1>6. ReadBalance(r) \/ RevertGate(r) \/ TakeBack(r) => Kept
  <2>1. ReadBalance(r) \/ RevertGate(r) \/ TakeBack(r) =>
          /\ UNCHANGED <<accounts, purchases>>
          /\ (\E place : Goto(r, place)) \/ (\E answer : Finish(r, answer)) \/ Alarm(r)
    BY DEF ReadBalance, RevertGate, TakeBack, Only
  <2> QED  BY <1>1, <1>3, <1>4, <2>1, Movings
<1>7. Debit(r) => Kept
  <2>1. CASE Debit(r) /\ Only({})
    BY <1>1, <1>3, <1>4, <2>1, Movings DEF Debit, Only
  <2>2. CASE Debit(r) /\ Append1(Op(r).acc, DebitTx(r)) /\ Goto(r, "log") /\ Only({"accounts"})
    <3>1. DebitTx(r) \in Tx /\ DebitTx(r).id = <<r, "debit">> /\ DebitTx(r).origin = "purchase"
      BY LegTypes DEF DebitTx
    <3>2. Grow({DebitTx(r).id})
      BY <2>2, <3>1, OpType, GrowAppend
    <3>3. Grow(Minor(r))
      BY <1>2, <3>1, <3>2 DEF Grow, Minor
    <3> QED  BY <1>1, <1>3, <2>2, <3>3, Movings DEF Only
  <2> QED  BY <2>1, <2>2 DEF Debit
<1>8. Revert(r) => Kept
  <2>1. CASE Revert(r) /\ Only({})
    BY <1>1, <1>3, <1>4, <2>1, Movings DEF Revert, Only
  <2>2. CASE Revert(r) /\ Append1(Op(r).acc, RevertTx(r)) /\ Goto(r, "takeBack")
             /\ Only({"accounts"})
    <3>1. RevertTx(r) \in Tx /\ RevertTx(r).id = <<r, "revert">>
      BY LegTypes DEF RevertTx, PlainTx
    <3>2. RevertTx(r).id \notin Requests \X {"debit"}
      BY <3>1
    <3>3. Grow({RevertTx(r).id})
      BY <2>2, <3>1, <3>2, OpType, GrowAppend
    <3>4. Grow(Minor(r))
      BY <3>1, <3>3 DEF Grow, Minor
    <3> QED  BY <1>1, <1>3, <2>2, <3>4, Movings DEF Only
  <2> QED  BY <2>1, <2>2 DEF Revert
<1>9. CreateLog(r) => Kept
  <2>1. ASSUME CreateLog(r), Only({}), NEW answer, NEW place, Because(r, answer, place)
        PROVE  Kept
    BY <1>1, <1>3, <1>4, <2>1, Movings DEF Only
  <2>2. ASSUME CreateLog(r), Only({"purchases"}), ~NonceTaken(Op(r).nonce), LogPurchase(r),
               Finish(r, "ok")
        PROVE  Kept
    BY <2>2, LogKeeps DEF CreateLog, Logs, Only, Kept
  <2> QED  BY <2>1, <2>2 DEF CreateLog
<1> QED  BY <1>5, <1>6, <1>7, <1>8, <1>9

LEMMA RefundKeeps ==
  ASSUME MoneyConsistent, NEW r \in Requests,
         \/ RefundRead(r) \/ RefundTx(r) \/ RefundFlip(r) \/ RefundCredit(r)
         \/ RefundUnflip(r) \/ RefundItem(r)
  PROVE  Kept
<1> TypeOK /\ Marks
  BY DEF MoneyConsistent, Typed
<1>1. Op(r).kind = "refund" /\ req[r].pc # "done"
  BY DEF Is, RefundRead, RefundTx, RefundFlip, RefundCredit, RefundUnflip, RefundItem
<1>2. ASSUME UNCHANGED <<accounts, purchases>>,
             \/ \E answer : Finish(r, answer)
             \/ req[r].pc = "start" /\ \E place \in {"tx", "flip"} : Goto(r, place)
             \/ req[r].pc = "credit" /\ Goto(r, "unflip")
      PROVE  Kept
  <2>1. Moved(r) /\ \/ req'[r].pc = "done"
                    \/ req[r].pc = "start" /\ req'[r].pc \in {"tx", "flip"}
                    \/ req[r].pc = "credit" /\ req'[r].pc = "unflip"
    BY <1>1, <1>2, Movings
  <2>2. Calm(r)
    BY <1>1, <1>2, <2>1, CalmReq
  <2> QED  BY <2>2, CalmKeeps DEF Kept
<1>3. RefundRead(r) => Kept
  BY <1>2 DEF RefundRead, Only, Is
<1>4. RefundTx(r) => Kept
  <2>1. ASSUME RefundTx(r), Only({}), NEW answer, Finish(r, answer)  PROVE Kept
    BY <1>2, <2>1 DEF Only
  <2>2. ASSUME StillActive(r), SetStatus(Op(r).purchase, "refunded"), CreditIn(r),
               Goto(r, "takeBack")
        PROVE  Kept
    BY <1>1, <2>2, Movings, TakeKeeps DEF StillActive, Kept
  <2> QED  BY <2>1, <2>2 DEF RefundTx
<1>5. RefundFlip(r) => Kept
  <2>1. ASSUME RefundFlip(r), Only({}), NEW answer, Finish(r, answer)  PROVE Kept
    BY <1>2, <2>1 DEF Only
  <2>2. ASSUME StillActive(r), SetStatus(Op(r).purchase, "refunded"), Goto(r, "credit"),
               Only({"purchases"})
        PROVE  Kept
    BY <1>1, <2>2, Movings, TakeKeeps DEF StillActive, Only, Kept
  <2> QED  BY <2>1, <2>2 DEF RefundFlip
<1>6. RefundCredit(r) => Kept
  <2>1. ASSUME RefundCredit(r), Only({}), Goto(r, "unflip")  PROVE Kept
    BY <1>2, <2>1 DEF Only, RefundCredit, Is
  <2>2. ASSUME RefundCredit(r), CreditIn(r), Goto(r, "takeBack"), Only({"accounts"})  PROVE Kept
    BY <2>2, CreditKeeps DEF RefundCredit, Only, Kept
  <2> QED  BY <2>1, <2>2 DEF RefundCredit
<1>7. RefundUnflip(r) => Kept
  <2>1. RefundUnflip(r) /\ Finish(r, "failed") => Kept
    BY UnflipKeeps DEF Kept
  <2>2. RefundUnflip(r) /\ UNCHANGED purchases /\ Finish(r, "stranded") => Kept
    BY <1>2 DEF RefundUnflip, Only
  <2> QED  BY <2>1, <2>2 DEF RefundUnflip
<1>8. RefundItem(r) => Kept
  BY <1>2 DEF RefundItem, Only
<1> QED  BY <1>3, <1>4, <1>5, <1>6, <1>7, <1>8

LEMMA RestKeeps ==
  ASSUME MoneyConsistent, NEW r \in Requests,
         \/ AdjustAccount(r) \/ UndoAccount(r) \/ ConvertAccount(r)
         \/ ForbidSelfAdjust(r) \/ DeleteAccount(r) \/ LoadInventory(r)
         \/ SaveInventory(r) \/ Crash(r)
  PROVE  Kept
<1> TypeOK /\ Marks /\ Typed
  BY DEF MoneyConsistent, Typed
<1>1. ASSUME \/ AdjustAccount(r) \/ UndoAccount(r) \/ ConvertAccount(r)
             \/ ForbidSelfAdjust(r) \/ DeleteAccount(r)
      PROVE  Kept
  <2>1. Grow({<<r, "adjust">>}) /\ UNCHANGED purchases
    BY <1>1, GrowOp
  <2>2. Grow(Minor(r))
    BY <2>1 DEF Grow, Minor
  <2>3. /\ Op(r).kind \notin {"purchase", "refund"} /\ req[r].pc # "done"
        /\ \E answer : Finish(r, answer)
    BY <1>1 DEF AdjustAccount, UndoAccount, ConvertAccount, ForbidSelfAdjust, DeleteAccount,
                AccountOp, Is
  <2>4. Calm(r)
    BY <2>1, <2>2, <2>3, Movings DEF Calm
  <2> QED  BY <2>4, CalmKeeps DEF Kept
<1>2. LoadInventory(r) => Kept
  <2> SUFFICES ASSUME LoadInventory(r)  PROVE Kept
    OBVIOUS
  <2>1. /\ Op(r).kind = "edit" /\ req[r].pc = "start" /\ Moved(r) /\ req'[r].pc = "save"
        /\ UNCHANGED <<accounts, purchases>>
    BY Movings DEF LoadInventory, Is, Only
  <2>2. Calm(r)
    BY <2>1, CalmReq
  <2> QED  BY <2>2, CalmKeeps DEF Kept
<1>3. SaveInventory(r) \/ Crash(r) => Kept
  <2> SUFFICES ASSUME SaveInventory(r) \/ Crash(r)  PROVE Kept
    OBVIOUS
  <2>1. /\ req[r].pc # "done" /\ UNCHANGED <<accounts, purchases>>
        /\ \E answer : Finish(r, answer)
    BY DEF SaveInventory, Crash, Is, Only
  <2>2. Moved(r) /\ req'[r].pc = "done"
    BY <2>1, Movings
  <2>3. Calm(r)
    BY <2>1, <2>2, CalmReq
  <2> QED  BY <2>3, CalmKeeps DEF Kept
<1> QED  BY <1>1, <1>2, <1>3

-----------------------------------------------------------------------------
LEMMA MoneyInit == Init => MoneyConsistent
<1> SUFFICES ASSUME Init  PROVE MoneyConsistent
  OBVIOUS
<1>1. Typed /\ TypeOK
  BY TypedInit DEF Typed
<1>2. \A r \in Requests : /\ req[r].pc = "start" /\ purchases[r].status = "none"
                          /\ purchases[r].nonce = Op(r).nonce
  BY DEF Init, Unwritten, PurchaseIds, Op
<1>3. \A r \in Requests : \A leg \in Legs : \A a \in Accounts : ~HasTx(a, r, leg)
  <2> SUFFICES ASSUME NEW r \in Requests, NEW leg \in Legs, NEW a \in Accounts
               PROVE  <<r, leg>> \notin TxsById(InitialAccounts[a])
    BY DEF Init, HasTx
  <2>1. <<r, leg>> \in Requests \X Legs
    OBVIOUS
  <2> QED  BY <2>1, PurchaseAssumption
<1>4. \A r \in Requests : ~Has(r, "credit") /\ ~Has(r, "debit")
  BY <1>3 DEF Has, Legs
<1>5. Marks
  <2> SUFFICES ASSUME NEW a \in Accounts, NEW i \in DOMAIN accounts[a].txs
               PROVE  accounts[a].txs[i].id \notin Requests \X {"debit"}
    BY DEF Marks, Marked
  <2>1. accounts[a].txs[i].id \in TxsById(InitialAccounts[a])
    BY DEF Init, TxsById
  <2>2. Requests \X {"debit"} \subseteq Requests \X Legs
    BY DEF Legs
  <2> QED  BY <2>1, <2>2, PurchaseAssumption
<1>6. LoggedLast
  BY <1>2 DEF LoggedLast
<1>7. Flipped
  BY <1>2, <1>4 DEF Flipped, Holder
<1>8. Atomic
  BY <1>2, <1>4 DEF Atomic, Cost, Logged, FallbackPlaces
<1> QED  BY <1>1, <1>5, <1>6, <1>7, <1>8 DEF MoneyConsistent

LEMMA MoneyNext == MoneyConsistent /\ [Next]_vars => MoneyConsistent'
<1> SUFFICES ASSUME MoneyConsistent, [Next]_vars  PROVE MoneyConsistent'
  OBVIOUS
<1>1. Typed'
  BY TypedNext DEF MoneyConsistent
<1>2. Kept
  <2>1. CASE UNCHANGED vars
    <3>1. Marks'
      BY <2>1 DEF vars, MoneyConsistent, Marks, Marked
    <3>2. LoggedLast'
      BY <2>1 DEF vars, MoneyConsistent, LoggedLast, Op
    <3>3. Flipped'
      BY <2>1 DEF vars, MoneyConsistent, Flipped, Holder, Has, HasTx, Op, Bought
    <3>4. ReplicaSet => Atomic'
      BY <2>1 DEF vars, MoneyConsistent, Atomic, Cost, Logged, Has, HasTx, Op, Acc
    <3> QED  BY <3>1, <3>2, <3>3, <3>4 DEF Kept
  <2>2. ASSUME NEW r \in Requests, Step(r) \/ Crash(r)  PROVE Kept
    BY <2>2, PurchaseKeeps, FallbackKeeps, RefundKeeps, RestKeeps DEF Step
  <2> QED  BY <2>1, <2>2 DEF Next
<1> QED  BY <1>1, <1>2 DEF MoneyConsistent, Kept

(***************************************************************************)
(* RC-E2: of any number of refunds of one purchase, at most one credits    *)
(* the account, with and without transactions, whatever crashes.           *)
(***************************************************************************)
THEOREM RefundOnce == Spec => []RefundCreditedOnce
<1>1. MoneyConsistent => RefundCreditedOnce
  <2> SUFFICES ASSUME MoneyConsistent, NEW q \in Refunds, NEW r \in Refunds, q # r,
                      Op(q).purchase = Op(r).purchase,
                      HasTx(Bought(q).acc, q, "credit"), HasTx(Bought(r).acc, r, "credit")
               PROVE  FALSE
    BY DEF RefundCreditedOnce
  <2>1. Bought(q).acc \in Accounts /\ Bought(r).acc \in Accounts
    BY OpType DEF MoneyConsistent, Typed, TypeOK, Bought, Purchase, Refunds
  <2>2. Holder(q) /\ Holder(r)
    BY <2>1 DEF Holder, Has, Refunds
  <2> QED  BY <2>2 DEF MoneyConsistent, Flipped, Refunds
<1> QED  BY <1>1, MoneyInit, MoneyNext, PTL DEF Spec

(***************************************************************************)
(* runPurchaseSteps with transactions: in every state an account that is   *)
(* still there has paid for a purchase if and only if it is in the log.    *)
(***************************************************************************)
THEOREM MoneyLogged == Spec => [](ReplicaSet => MoneyMatchesLog)
<1>1. MoneyConsistent => (ReplicaSet => MoneyMatchesLog)
  <2> SUFFICES ASSUME MoneyConsistent, ReplicaSet, NEW r \in Purchases, Acc(r).exists
               PROVE  HasTx(Op(r).acc, r, "debit") <=> Logged(r) /\ purchases[r].paid > 0
    BY DEF MoneyMatchesLog
  <2>1. Op(r).acc \in Accounts /\ r \in Requests
    BY OpType DEF MoneyConsistent, Typed, Purchases
  <2>2. HasTx(Op(r).acc, r, "debit") => Cost(r)
    BY <2>1 DEF MoneyConsistent, Atomic, Has
  <2>3. Cost(r) => HasTx(Op(r).acc, r, "debit")
    BY <2>1 DEF MoneyConsistent, Atomic
  <2> QED  BY <2>2, <2>3 DEF Cost
<1> QED  BY <1>1, MoneyInit, MoneyNext, PTL DEF Spec

(***************************************************************************)
(* D-PURCHASE-IDEMPOTENCY with transactions: purchases of one account with *)
(* one nonce, sent again and overlapping, are paid once.                   *)
(***************************************************************************)
THEOREM BoughtOnce == Spec => [](ReplicaSet => PaidOnce)
<1>1. MoneyConsistent => (ReplicaSet => PaidOnce)
  <2> SUFFICES ASSUME MoneyConsistent, ReplicaSet, NEW q \in Purchases, NEW r \in Purchases,
                      q # r, Op(q).nonce = Op(r).nonce, Paid(q), Paid(r)
               PROVE  Op(q).nonce = NoNonce
    BY DEF PaidOnce
  <2>1. /\ q \in Requests /\ r \in Requests
        /\ Op(q).acc \in Accounts /\ Op(r).acc \in Accounts
    BY OpType DEF MoneyConsistent, Typed, Purchases
  <2>2. Logged(q) /\ Logged(r)
    BY <2>1 DEF MoneyConsistent, Atomic, Paid, Has, Cost
  <2> QED  BY <2>1, <2>2 DEF MoneyConsistent, Atomic
<1> QED  BY <1>1, MoneyInit, MoneyNext, PTL DEF Spec

-----------------------------------------------------------------------------
(***************************************************************************)
(* Without transactions: what the compensations leave behind.  They are    *)
(* plain transactions, which an undo takes back, hence the condition.      *)
(***************************************************************************)
NoUndo == \A r \in Requests : Op(r).kind = "undo" => req[r].answer # "ok"

(* Answers come last, so what has been undone or edited stays so.          *)
Pending == \A r \in Requests : req[r].pc # "done" => req[r].answer = "none"

(* An account that is gone has none of the requests' transactions. *)
Live == \A a \in Accounts : \A r \in Requests : \A leg \in Legs :
          HasTx(a, r, leg) => accounts[a].exists

(* Logged purchases of one buyer with one nonce are one. *)
OneNonce ==
  /\ \A r \in Requests : purchases[r].nonce = Op(r).nonce
  /\ \A q, r \in Requests :
       Logged(q) /\ Logged(r) /\ Op(q).nonce = Op(r).nonce /\ Op(q).nonce # NoNonce => q = r

Debited(r) == HasTx(Op(r).acc, r, "debit")
Reverted(r) == HasTx(Op(r).acc, r, "revert")

Early == {"start", "gate", "inventory", "create", "tx", "push", "section", "again", "debit",
          "balance"}

(* What a purchase has taken from its account at each of its places. *)
MoneyAt(r) ==
  /\ req[r].pc = "balance" => req[r].paid = 0
  /\ req[r].pc \in {"debit", "mayRevert", "revert"} => req[r].paid > 0
  /\ Acc(r).exists =>
       /\ req[r].pc \in Early => ~Debited(r) /\ ~Reverted(r)
       /\ req[r].pc = "log" => (Debited(r) <=> req[r].paid > 0) /\ ~Reverted(r)
       /\ req[r].pc \in {"mayRevert", "revert"} => Debited(r) /\ ~Reverted(r)
       /\ req[r].pc \in {"takeBack", "replay"} /\ ~req[r].alarm => (Debited(r) <=> Reverted(r))
       /\ Settled(r) => (Paid(r) <=> Cost(r))
Money == \A r \in Purchases : MoneyAt(r)

(* Who will still credit a refunded purchase, gave it up or has done so. *)
Covers(p, r) ==
  \/ req[r].pc \in {"credit", "unflip"} \/ req[r].answer \in {"crashed", "stranded"}
  \/ HasTx(purchases[p].acc, r, "credit")
RepaidAt(p) ==
  /\ purchases[p].status = "refunded" /\ purchases[p].paid > 0
  /\ accounts[purchases[p].acc].exists
  => \E r \in RefundsOf(p) : Covers(p, r)
Repaid == \A p \in PurchaseIds : RepaidAt(p)

-----------------------------------------------------------------------------
(* While nothing is undone an account that stays keeps its transactions. *)
Hold ==
  \A a \in Accounts : accounts'[a].exists => TxsById(accounts[a]) \subseteq TxsById(accounts'[a])

Mine(r) == {<<r, leg>> : leg \in Legs}

Writes(r) == Moved(r) /\ Grow(Mine(r)) /\ Live' /\ (NoUndo' => Hold)

LEMMA HoldNot ==
  ASSUME Live, UNCHANGED accounts
  PROVE  Hold /\ Live'
BY DEF Hold, Live, HasTx

LEMMA HoldPut ==
  ASSUME Typed, Live, NEW a \in Accounts, NEW doc, Put(a, doc), accounts[a].exists,
         doc.exists \/ TxsById(doc) = {}
  PROVE  Live' /\ (TxsById(accounts[a]) \subseteq TxsById(doc) \/ ~doc.exists => Hold)
<1>1. accounts'[a] = doc /\ \A b \in Accounts : b # a => accounts'[b] = accounts[b]
  BY DEF Typed, DocsOK, Put
<1>2. Live'
  <2> SUFFICES ASSUME NEW b \in Accounts, NEW r \in Requests, NEW leg \in Legs,
                      <<r, leg>> \in TxsById(accounts'[b])
               PROVE  accounts'[b].exists
    BY DEF Live, HasTx
  <2>1. CASE b = a
    BY <1>1, <2>1
  <2>2. CASE b # a
    BY <1>1, <2>2 DEF Live, HasTx
  <2> QED  BY <2>1, <2>2
<1>3. TxsById(accounts[a]) \subseteq TxsById(doc) \/ ~doc.exists => Hold
  BY <1>1 DEF Hold
<1> QED  BY <1>2, <1>3

LEMMA HoldAppend ==
  ASSUME Typed, Live, NEW a \in Accounts, NEW tx \in Tx, Append1(a, tx), accounts[a].exists,
         Marks
  PROVE  Hold /\ Live'
<1> DEFINE doc == AppendTransaction(accounts[a], tx, accounts[a].stamp + 1)
<1>1. accounts[a] \in Account /\ Put(a, doc)
  BY DEF Typed, DocsOK, Append1
<1>2. TxsById(doc) = TxsById(accounts[a]) \cup {tx.id} /\ doc.exists = accounts[a].exists
  BY <1>1, AppendIds
<1> HIDE DEF doc
<1> QED  BY <1>1, <1>2, HoldPut

LEMMA HoldOp ==
  ASSUME Typed, Marks, Live, NEW r \in Requests,
         \/ AdjustAccount(r) \/ UndoAccount(r) \/ ConvertAccount(r)
         \/ ForbidSelfAdjust(r) \/ DeleteAccount(r)
  PROVE  Live' /\ (NoUndo' => Hold)
<1>1. /\ Acc(r) = accounts[Op(r).acc] /\ Op(r).acc \in Accounts /\ Acc(r) \in Account
      /\ Marked(Acc(r))
  BY AccountOpDocs DEF Sound, Marks
<1>2. ASSUME NEW doc, Put(Op(r).acc, doc), Acc(r).exists, doc.exists \/ TxsById(doc) = {},
             TxsById(Acc(r)) \subseteq TxsById(doc) \/ ~doc.exists
      PROVE  Hold /\ Live'
  BY <1>1, <1>2, HoldPut
<1>3. ASSUME Only({})  PROVE Hold /\ Live'
  BY <1>3, HoldNot DEF Only
<1>4. CASE AdjustAccount(r)
  <2> DEFINE tx == PlainTx(<<r, "adjust">>, Op(r).amount)
             doc == AppendTransaction(Acc(r), tx, NextStamp(r))
  <2>1. tx \in Tx
    BY LegTypes DEF Typed
  <2> HIDE DEF tx
  <2>2. TxsById(doc) = TxsById(Acc(r)) \cup {tx.id} /\ doc.exists = Acc(r).exists
    BY <1>1, <2>1, AppendIds
  <2>3. (Put(Op(r).acc, doc) /\ Acc(r).exists) \/ Only({})
    BY <1>4 DEF AdjustAccount, AccountOp, tx
  <2> HIDE DEF doc
  <2> QED  BY <1>2, <1>3, <2>2, <2>3
<1>5. CASE UndoAccount(r)
  <2> DEFINE doc == UndoLast(Acc(r), Acc(r), NextStamp(r))
  <2>1. \/ /\ Put(Op(r).acc, doc) /\ Acc(r).exists /\ Acc(r).txs # << >>
           /\ ~Linked(Last(Acc(r).txs)) /\ Finish(r, "ok")
        \/ Only({})
    BY <1>5 DEF UndoAccount, AccountOp
  <2>2. Acc(r).txs # << >> /\ ~Linked(Last(Acc(r).txs)) => doc.exists = Acc(r).exists
    BY <1>1, UndoIds
  <2>3. Op(r).kind = "undo" /\ req \in [Requests -> Record]
    BY <1>5 DEF UndoAccount, AccountOp, Is, Typed, TypeOK, Record
  <2>4. Finish(r, "ok") => Op(r)'.kind = "undo" /\ req'[r].answer = "ok"
    BY <2>3 DEF Finish, Op, Record
  <2> HIDE DEF doc
  <2>5. Finish(r, "ok") => ~NoUndo'
    BY <2>4 DEF NoUndo
  <2>6. CASE /\ Put(Op(r).acc, doc) /\ Acc(r).exists /\ doc.exists /\ Finish(r, "ok")
    BY <1>1, <2>5, <2>6, HoldPut
  <2> QED  BY <1>3, <2>1, <2>2, <2>6
<1>6. CASE ConvertAccount(r)
  <2> DEFINE doc == ReplaceMoneyFields(Acc(r), Recomputed(Acc(r), Op(r).currency), NextStamp(r))
  <2>1. (Put(Op(r).acc, doc) /\ Acc(r).exists) \/ Only({})
    BY <1>6 DEF ConvertAccount, AccountOp
  <2>2. TxsById(doc) = TxsById(Acc(r)) /\ doc.exists = Acc(r).exists
    BY <1>1, ReplaceIds
  <2> HIDE DEF doc
  <2> QED  BY <1>2, <1>3, <2>1, <2>2
<1>7. CASE ForbidSelfAdjust(r)
  <2> DEFINE doc == [Acc(r) EXCEPT !.selfAdjust = FALSE, !.stamp = @ + 1]
  <2>1. (Put(Op(r).acc, doc) /\ Acc(r).exists) \/ Only({})
    BY <1>7 DEF ForbidSelfAdjust, AccountOp
  <2>2. doc.txs = Acc(r).txs /\ doc.exists = Acc(r).exists
    BY <1>1 DEF Account
  <2>3. TxsById(doc) = TxsById(Acc(r))
    BY <2>2 DEF TxsById
  <2> HIDE DEF doc
  <2> QED  BY <1>2, <1>3, <2>1, <2>2, <2>3
<1>8. CASE DeleteAccount(r)
  <2> DEFINE doc == [Acc(r) EXCEPT !.exists = FALSE, !.txs = << >>, !.balance = 0, !.stamp = 0]
  <2>1. (Put(Op(r).acc, doc) /\ Acc(r).exists) \/ Only({})
    BY <1>8 DEF DeleteAccount, AccountOp
  <2>2. doc.txs = << >> /\ doc.exists = FALSE
    BY <1>1 DEF Account
  <2>3. DOMAIN << >> = {}
    OBVIOUS
  <2>4. TxsById(doc) = {}
    BY <2>2, <2>3 DEF TxsById
  <2> HIDE DEF doc
  <2> QED  BY <1>2, <1>3, <2>1, <2>2, <2>4
<1> QED  BY <1>4, <1>5, <1>6, <1>7, <1>8

-----------------------------------------------------------------------------
(* The transaction a step of r appends, and to which account. *)
Appends(r) ==
  \/ Append1(Op(r).acc, DebitTx(r)) /\ Acc(r).exists
  \/ Append1(Op(r).acc, RevertTx(r)) /\ Acc(r).exists
  \/ Append1(Bought(r).acc, CreditTx(r)) /\ Payer(r).exists

LEMMA AppendsWrite ==
  ASSUME Typed, Marks, Live, NEW r \in Requests, Appends(r)
  PROVE  Grow(Mine(r)) /\ Live' /\ Hold
<1> TypeOK
  BY DEF Typed
<1>1. ASSUME NEW a \in Accounts, NEW tx \in Tx, Append1(a, tx), accounts[a].exists,
             NEW leg \in Legs, tx.id = <<r, leg>>, leg = "debit" => tx.origin = "purchase"
      PROVE  Grow(Mine(r)) /\ Live' /\ Hold
  <2>1. tx.id \in Requests \X {"debit"} => tx.origin = "purchase"
    BY <1>1
  <2>2. Grow({tx.id})
    BY <1>1, <2>1, GrowAppend
  <2>3. Grow(Mine(r))
    BY <1>1, <2>2 DEF Grow, Mine
  <2> QED  BY <1>1, <2>3, HoldAppend
<1>2. /\ DebitTx(r) \in Tx /\ DebitTx(r).id = <<r, "debit">> /\ DebitTx(r).origin = "purchase"
      /\ RevertTx(r) \in Tx /\ RevertTx(r).id = <<r, "revert">>
      /\ CreditTx(r) \in Tx /\ CreditTx(r).id = <<r, "credit">>
      /\ {"debit", "revert", "credit"} \subseteq Legs
  BY LegTypes DEF DebitTx, RevertTx, CreditTx, PlainTx, Legs
<1>3. Op(r).acc \in Accounts /\ Bought(r).acc \in Accounts
  BY OpType DEF Bought, TypeOK, Purchase
<1>4. CASE Append1(Op(r).acc, DebitTx(r)) /\ Acc(r).exists
  BY <1>1, <1>2, <1>3, <1>4 DEF Acc
<1>5. CASE Append1(Op(r).acc, RevertTx(r)) /\ Acc(r).exists
  BY <1>1, <1>2, <1>3, <1>5 DEF Acc
<1>6. CASE Append1(Bought(r).acc, CreditTx(r)) /\ Payer(r).exists
  BY <1>1, <1>2, <1>3, <1>6 DEF Payer
<1> QED  BY <1>4, <1>5, <1>6 DEF Appends

(* Every step moves one request and writes at most its own transactions. *)
LEMMA StepWrites ==
  ASSUME MoneyConsistent, Live, NEW r \in Requests, Step(r) \/ Crash(r)
  PROVE  Writes(r)
<1> TypeOK /\ Typed /\ Marks
  BY DEF MoneyConsistent, Typed
<1>1. req[r].pc # "done"
  BY DEF Step, Crash, Is, PurchaseReplay, PurchaseGate, PurchaseInventory, CreateInventory,
         PurchaseTx, ReplayWinner, PushItem, PushSection, PushAgain, Debit, ReadBalance, CreateLog,
         RevertGate, Revert, TakeBack, RefundRead, RefundTx, RefundFlip, RefundCredit,
         RefundUnflip, RefundItem, AdjustAccount, UndoAccount, ConvertAccount, ForbidSelfAdjust,
         DeleteAccount, LoadInventory, SaveInventory, AccountOp
<1>2. Moved(r)
  <2> DEFINE M == \/ \E place : Goto(r, place)
                  \/ \E answer : Finish(r, answer)
                  \/ \E answer, place : Because(r, answer, place)
                  \/ Alarm(r)
                  \/ \E x : req' = [req EXCEPT ![r].pc = "inventory", ![r].paid = x]
                  \/ \E x : req' = [req EXCEPT ![r].pc = "save", ![r].copy = x]
  <2>1. M => Moved(r)
    BY <1>1, Movings
  <2>2. PurchaseReplay(r) \/ PurchaseInventory(r) \/ CreateInventory(r) \/ PurchaseTx(r)
          \/ ReplayWinner(r) => M
    BY DEF PurchaseReplay, PurchaseInventory, CreateInventory, PurchaseTx, ReplayWinner
  <2>3. PurchaseGate(r) => M
    BY DEF PurchaseGate
  <2>4. PushItem(r) \/ PushSection(r) \/ PushAgain(r) \/ Debit(r) \/ ReadBalance(r)
          \/ CreateLog(r) => M
    BY DEF PushItem, PushSection, PushAgain, Debit, ReadBalance, CreateLog
  <2>5. RevertGate(r) \/ Revert(r) \/ TakeBack(r) => M
    BY DEF RevertGate, Revert, TakeBack
  <2>6. RefundRead(r) \/ RefundTx(r) \/ RefundFlip(r) \/ RefundCredit(r)
          \/ RefundUnflip(r) \/ RefundItem(r) => M
    BY DEF RefundRead, RefundTx, RefundFlip, RefundCredit, RefundUnflip, RefundItem
  <2>7. AdjustAccount(r) \/ UndoAccount(r) \/ ConvertAccount(r) \/ ForbidSelfAdjust(r)
          \/ DeleteAccount(r) => M
    BY DEF AdjustAccount, UndoAccount, ConvertAccount, ForbidSelfAdjust, DeleteAccount, AccountOp
  <2>8. LoadInventory(r) \/ SaveInventory(r) \/ Crash(r) => M
    BY DEF LoadInventory, SaveInventory, Crash
  <2> HIDE DEF M
  <2> QED  BY <2>1, <2>2, <2>3, <2>4, <2>5, <2>6, <2>7, <2>8 DEF Step
<1>3. UNCHANGED accounts \/ Appends(r) => Grow(Mine(r)) /\ Live' /\ Hold
  <2>1. UNCHANGED accounts => Grow(Mine(r))
    BY GrowNot DEF Grow
  <2> QED  BY <2>1, HoldNot, AppendsWrite
<1>4. PurchaseTx(r) => UNCHANGED accounts \/ Appends(r)
  BY DEF PurchaseTx, DebitIn, Appends, Payable, Sufficient, Only
<1>5. Debit(r) => UNCHANGED accounts \/ Appends(r)
  BY DEF Debit, Appends, Sufficient, Only
<1>6. Revert(r) => UNCHANGED accounts \/ Appends(r)
  BY DEF Revert, Appends, Only
<1>7. RefundTx(r) => UNCHANGED accounts \/ Appends(r)
  BY DEF RefundTx, CreditIn, Appends, Only
<1>8. RefundCredit(r) => UNCHANGED accounts \/ Appends(r)
  BY DEF RefundCredit, CreditIn, Appends, Only
<1>9. PurchaseReplay(r) \/ PurchaseGate(r) \/ PurchaseInventory(r) \/ CreateInventory(r)
        \/ ReplayWinner(r) \/ PushItem(r) \/ PushSection(r) \/ PushAgain(r) \/ ReadBalance(r)
        \/ CreateLog(r) \/ RevertGate(r) \/ TakeBack(r) => UNCHANGED accounts
  BY DEF PurchaseReplay, PurchaseGate, PurchaseInventory, CreateInventory, ReplayWinner, PushItem,
         PushSection, PushAgain, ReadBalance, CreateLog, RevertGate, TakeBack, Only
<1>10. RefundRead(r) \/ RefundFlip(r) \/ RefundUnflip(r) \/ RefundItem(r) \/ LoadInventory(r)
         \/ SaveInventory(r) \/ Crash(r) => UNCHANGED accounts
  BY DEF RefundRead, RefundFlip, RefundUnflip, RefundItem, LoadInventory, SaveInventory, Crash, Only
<1>11. ASSUME \/ AdjustAccount(r) \/ UndoAccount(r) \/ ConvertAccount(r)
              \/ ForbidSelfAdjust(r) \/ DeleteAccount(r)
       PROVE  Grow(Mine(r)) /\ Live' /\ (NoUndo' => Hold)
  <2>1. Grow({<<r, "adjust">>})
    BY <1>11, GrowOp
  <2>2. Grow(Mine(r))
    BY <2>1 DEF Grow, Mine, Legs
  <2> QED  BY <1>11, <2>2, HoldOp
<1>12. Grow(Mine(r)) /\ Live' /\ (NoUndo' => Hold)
  BY <1>3, <1>4, <1>5, <1>6, <1>7, <1>8, <1>9, <1>10, <1>11 DEF Step
<1> QED  BY <1>2, <1>12 DEF Writes

-----------------------------------------------------------------------------
(* How a step moves its request: an answer is given only with the end. *)
Moves(r) ==
  \/ \E place \in Places \ {"done"} : Goto(r, place)
  \/ \E answer \in Answers : Finish(r, answer)
  \/ \E answer, place : place # "done" /\ Because(r, answer, place)
  \/ Alarm(r)
  \/ \E x : req' = [req EXCEPT ![r].pc = "inventory", ![r].paid = x]
  \/ \E x : req' = [req EXCEPT ![r].pc = "save", ![r].copy = x]

LEMMA StepMoves ==
  ASSUME TypeOK, NEW r \in Requests, Step(r) \/ Crash(r)
  PROVE  Moves(r)
<1> USE DEF Places, Answers
<1>1. PurchaseReplay(r) \/ CreateInventory(r) \/ PurchaseTx(r) \/ ReplayWinner(r) => Moves(r)
  BY DEF PurchaseReplay, CreateInventory, PurchaseTx, ReplayWinner, Moves, Ready
<1>2. PurchaseGate(r) \/ PurchaseInventory(r) => Moves(r)
  BY DEF PurchaseGate, PurchaseInventory, Moves, Ready
<1>3. PushItem(r) \/ PushSection(r) \/ PushAgain(r) => Moves(r)
  BY DEF PushItem, PushSection, PushAgain, Moves, AfterPush
<1>4. Debit(r) \/ ReadBalance(r) \/ CreateLog(r) => Moves(r)
  BY DEF Debit, ReadBalance, CreateLog, Moves
<1>5. RevertGate(r) \/ Revert(r) => Moves(r)
  BY DEF RevertGate, Revert, Moves
<1>6. TakeBack(r) => Moves(r)
  BY DEF TakeBack, Moves, TypeOK
<1>7. RefundRead(r) \/ RefundTx(r) \/ RefundFlip(r) => Moves(r)
  BY DEF RefundRead, RefundTx, RefundFlip, Moves
<1>8. RefundCredit(r) \/ RefundUnflip(r) \/ RefundItem(r) => Moves(r)
  BY DEF RefundCredit, RefundUnflip, RefundItem, Moves
<1>9. AdjustAccount(r) \/ UndoAccount(r) \/ ConvertAccount(r) \/ ForbidSelfAdjust(r)
        \/ DeleteAccount(r) => Moves(r)
  BY DEF AdjustAccount, UndoAccount, ConvertAccount, ForbidSelfAdjust, DeleteAccount, AccountOp,
         Moves
<1>10. LoadInventory(r) \/ SaveInventory(r) \/ Crash(r) => Moves(r)
  BY DEF LoadInventory, SaveInventory, Crash, Moves
<1> QED  BY <1>1, <1>2, <1>3, <1>4, <1>5, <1>6, <1>7, <1>8, <1>9, <1>10 DEF Step

LEMMA AnswersLast ==
  ASSUME TypeOK, NEW r \in Requests, Moves(r), Moved(r), Pending
  PROVE  Pending' /\ (NoUndo' => NoUndo) /\ (NoEdit' => NoEdit)
<1>1. req \in [Requests -> Record] /\ req[r].answer = "none"
  BY DEF TypeOK, Record, Moved, Pending
<1>2. req'[r].pc # "done" => req'[r].answer = "none"
  <2>2. CASE \E place \in Places \ {"done"} : Goto(r, place)
    BY <1>1, <2>2 DEF Goto, Record
  <2>3. CASE \E answer \in Answers : Finish(r, answer)
    <3>1. req'[r].pc = "done"
      BY <1>1, <2>3 DEF Finish, Record
    <3> QED  BY <3>1
  <2>4. CASE \E answer, place : place # "done" /\ Because(r, answer, place)
    BY <1>1, <2>4 DEF Because, Record
  <2>5. CASE Alarm(r)
    BY <1>1, <2>5 DEF Alarm, Record
  <2>6. CASE \E x : req' = [req EXCEPT ![r].pc = "inventory", ![r].paid = x]
    BY <1>1, <2>6 DEF Record
  <2>7. CASE \E x : req' = [req EXCEPT ![r].pc = "save", ![r].copy = x]
    BY <1>1, <2>7 DEF Record
  <2> QED  BY <2>2, <2>3, <2>4, <2>5, <2>6, <2>7 DEF Moves
<1>3. \A q \in Requests : q # r => req'[q] = req[q]
  BY DEF Moved
<1>4. Pending'
  BY <1>2, <1>3 DEF Pending
<1>5. \A q \in Requests : Op(q)' = Op(q)
  BY OpSame
<1>6. (NoUndo' => NoUndo) /\ (NoEdit' => NoEdit)
  BY <1>1, <1>3, <1>5 DEF NoUndo, NoEdit
<1> QED  BY <1>4, <1>6

-----------------------------------------------------------------------------
(* What a step may do to the log: log its own purchase, or turn a status. *)
Same(p) ==
  /\ Logged(p)' = Logged(p) /\ purchases'[p].acc = purchases[p].acc
  /\ purchases'[p].paid = purchases[p].paid /\ purchases'[p].nonce = purchases[p].nonce

LogsNow(r) ==
  /\ Op(r).kind = "purchase" /\ req[r].pc \in {"tx", "log"} /\ ~NonceTaken(Op(r).nonce)
  /\ LogPurchase(r) /\ Finish(r, "ok")

LEMMA StepLogs ==
  ASSUME TypeOK, NEW r \in Requests, Step(r) \/ Crash(r),
         req[r].pc = "unflip" /\ Op(r).kind = "refund" => Bought(r).status = "refunded"
  PROVE  (\A p \in PurchaseIds : Same(p)) \/ LogsNow(r)
<1>1. UNCHANGED purchases => \A p \in PurchaseIds : Same(p)
  BY DEF Same, Logged
<1>2. ASSUME NEW status \in {"active", "refunded"}, Bought(r).status # "none",
             SetStatus(Op(r).purchase, status)
      PROVE  \A p \in PurchaseIds : Same(p)
  <2>1. Op(r).purchase \in PurchaseIds /\ purchases \in [PurchaseIds -> Purchase]
    BY OpType DEF TypeOK
  <2>2. \A p \in PurchaseIds : p # Op(r).purchase => purchases'[p] = purchases[p]
    BY <1>2, <2>1 DEF SetStatus
  <2>3. purchases'[Op(r).purchase] = [purchases[Op(r).purchase] EXCEPT !.status = status]
    BY <1>2, <2>1 DEF SetStatus
  <2> QED  BY <1>2, <2>1, <2>2, <2>3 DEF Same, Logged, Bought, Purchase
<1>3. PurchaseReplay(r) \/ PurchaseGate(r) \/ PurchaseInventory(r) \/ CreateInventory(r)
        \/ ReplayWinner(r) \/ PushItem(r) \/ PushSection(r) \/ PushAgain(r) \/ ReadBalance(r)
        \/ RevertGate(r) \/ TakeBack(r) \/ Debit(r) \/ Revert(r) => UNCHANGED purchases
  BY DEF PurchaseReplay, PurchaseGate, PurchaseInventory, CreateInventory, ReplayWinner, PushItem,
         PushSection, PushAgain, ReadBalance, RevertGate, TakeBack, Only, Debit, Revert
<1>4. RefundRead(r) \/ RefundItem(r) \/ RefundCredit(r) \/ LoadInventory(r) \/ SaveInventory(r)
        \/ Crash(r) => UNCHANGED purchases
  BY DEF RefundRead, RefundItem, RefundCredit, LoadInventory, SaveInventory, Crash, Only
<1>5. AdjustAccount(r) \/ UndoAccount(r) \/ ConvertAccount(r) \/ ForbidSelfAdjust(r)
        \/ DeleteAccount(r) => UNCHANGED purchases
  BY DEF AdjustAccount, UndoAccount, ConvertAccount, ForbidSelfAdjust, DeleteAccount, AccountOp, Only
<1>6. PurchaseTx(r) => UNCHANGED purchases \/ LogsNow(r)
  BY DEF PurchaseTx, LogsNow, Is, Only
<1>7. CreateLog(r) => UNCHANGED purchases \/ LogsNow(r)
  BY DEF CreateLog, LogsNow, Is, Only
<1>8. RefundTx(r) => \A p \in PurchaseIds : Same(p)
  BY <1>1, <1>2 DEF RefundTx, StillActive, Only
<1>9. RefundFlip(r) => \A p \in PurchaseIds : Same(p)
  BY <1>1, <1>2 DEF RefundFlip, StillActive, Only
<1>10. RefundUnflip(r) => \A p \in PurchaseIds : Same(p)
  BY <1>1, <1>2 DEF RefundUnflip, Is
<1> QED  BY <1>1, <1>3, <1>4, <1>5, <1>6, <1>7, <1>8, <1>9, <1>10 DEF Step

LEMMA LogsNowSame ==
  ASSUME TypeOK, NEW r \in Requests, LogsNow(r)
  PROVE  /\ \A p \in PurchaseIds : p # r => purchases'[p] = purchases[p] /\ Same(p)
         /\ purchases'[r] = [status |-> "active", acc |-> Op(r).acc, paid |-> req[r].paid,
                             nonce |-> Op(r).nonce]
BY DEF LogsNow, LogPurchase, TypeOK, PurchaseIds, Same, Logged

LEMMA NonceKeeps ==
  ASSUME MoneyConsistent, OneNonce, NEW r \in Requests, Step(r) \/ Crash(r), Moved(r)
  PROVE  OneNonce'
<1> TypeOK
  BY DEF MoneyConsistent, Typed
<1>1. \A q \in Requests : Op(q)' = Op(q)
  BY OpSame
<1>2. req[r].pc = "unflip" /\ Op(r).kind = "refund" => Bought(r).status = "refunded"
  BY DEF MoneyConsistent, Flipped, Holder
<1>3. CASE \A p \in PurchaseIds : Same(p)
  BY <1>1, <1>3 DEF OneNonce, Same, PurchaseIds
<1>4. CASE LogsNow(r)
  <2>1. /\ purchases'[r].nonce = Op(r).nonce
        /\ \A q \in Requests : q # r => Same(q)
    <3>1. purchases'[r] = [status |-> "active", acc |-> Op(r).acc, paid |-> req[r].paid,
                           nonce |-> Op(r).nonce]
      BY <1>4, LogsNowSame
    <3>2. \A p \in PurchaseIds : p # r => Same(p)
      BY <1>4, LogsNowSame
    <3> QED  BY <3>1, <3>2 DEF PurchaseIds
  <2>2. ASSUME NEW q \in Requests, q # r, Logged(q)', Op(q).nonce = Op(r).nonce,
               Op(r).nonce # NoNonce
        PROVE  FALSE
    <3>1. Logged(q) /\ purchases[q].nonce = Op(r).nonce
      BY <2>1, <2>2 DEF OneNonce, Same
    <3> QED  BY <1>4, <2>2, <3>1 DEF NonceTaken, PurchaseIds, LogsNow
  <2>3. \A q \in Requests : purchases'[q].nonce = Op(q)'.nonce
    BY <1>1, <2>1 DEF OneNonce, Same
  <2>4. \A p, q \in Requests :
          Logged(p)' /\ Logged(q)' /\ Op(p)'.nonce = Op(q)'.nonce /\ Op(p)'.nonce # NoNonce => p = q
    <3> SUFFICES ASSUME NEW p \in Requests, NEW q \in Requests, Logged(p)', Logged(q)',
                        Op(p).nonce = Op(q).nonce, Op(p).nonce # NoNonce
                 PROVE  p = q
      BY <1>1
    <3>1. CASE p # r /\ q # r
      BY <2>1, <3>1 DEF OneNonce, Same
    <3> QED  BY <2>2, <3>1
  <2> QED  BY <2>3, <2>4 DEF OneNonce
<1> QED  BY <1>2, <1>3, <1>4, StepLogs

-----------------------------------------------------------------------------
(* A transaction of q on an account that stays: nobody else writes it. *)
LEMMA OthersTx ==
  ASSUME NEW r \in Requests, Writes(r), NoUndo', NEW q \in Requests, q # r,
         NEW a \in Accounts, NEW leg, accounts'[a].exists
  PROVE  HasTx(a, q, leg)' <=> HasTx(a, q, leg)
<1>1. <<q, leg>> \notin Mine(r)
  BY DEF Mine
<1> QED  BY <1>1 DEF Writes, Grow, Hold, HasTx

LEMMA MoneyOthers ==
  ASSUME MoneyConsistent, NEW r \in Requests, Step(r) \/ Crash(r), Writes(r), NoUndo',
         NEW q \in Requests, q # r, MoneyAt(q)
  PROVE  MoneyAt(q)'
<1> TypeOK
  BY DEF MoneyConsistent, Typed
<1>1. Op(q)' = Op(q) /\ req'[q] = req[q] /\ Op(q).acc \in Accounts
  BY OpSame, OpType DEF Writes, Moved
<1>2. Cost(q)' = Cost(q)
  <2>1. Same(q)
    <3>1. req[r].pc = "unflip" /\ Op(r).kind = "refund" => Bought(r).status = "refunded"
      BY DEF MoneyConsistent, Flipped, Holder
    <3> QED  BY <3>1, StepLogs, LogsNowSame DEF PurchaseIds
  <2> QED  BY <2>1 DEF Same, Cost
<1>3. Acc(q)'.exists => Acc(q).exists
  BY <1>1 DEF Writes, Grow, Acc
<1>4. Acc(q)'.exists => (Debited(q)' <=> Debited(q)) /\ (Reverted(q)' <=> Reverted(q))
  <2>1. Acc(q)' = accounts'[Op(q).acc]
    BY <1>1 DEF Acc
  <2>2. ASSUME NEW leg, accounts'[Op(q).acc].exists
        PROVE  HasTx(Op(q).acc, q, leg)' <=> HasTx(Op(q).acc, q, leg)
    <3>1. \A a \in Accounts : accounts'[a].exists => (HasTx(a, q, leg)' <=> HasTx(a, q, leg))
      BY OthersTx
    <3> QED  BY <1>1, <2>2, <3>1 DEF HasTx
  <2> QED  BY <1>1, <2>1, <2>2 DEF Debited, Reverted, HasTx
<1>5. (Settled(q)' <=> Settled(q)) 
  BY <1>1 DEF Settled
<1>6. Acc(q)'.exists => (Paid(q)' <=> Paid(q))
  BY <1>4 DEF Paid, Debited, Reverted
<1> QED  BY <1>1, <1>2, <1>3, <1>4, <1>5, <1>6 DEF MoneyAt

-----------------------------------------------------------------------------
(* The purchase's own steps that leave the accounts alone. *)
LEMMA MoneyStill ==
  ASSUME TypeOK, NEW r \in Requests, Moved(r), UNCHANGED accounts
  PROVE  /\ Acc(r)' = Acc(r) /\ (Debited(r)' <=> Debited(r)) /\ (Reverted(r)' <=> Reverted(r))
         /\ (Paid(r)' <=> Paid(r)) /\ Op(r)' = Op(r)
<1>1. Op(r)' = Op(r)
  BY OpSame
<1> QED  BY <1>1 DEF Acc, Debited, Reverted, Paid, HasTx

(* Where a request goes, with its locals. *)
LEMMA Locals ==
  ASSUME TypeOK, NEW r \in Requests
  PROVE  /\ \A place : Goto(r, place) => /\ req'[r].pc = place /\ req'[r].paid = req[r].paid
                                         /\ req'[r].alarm = req[r].alarm
         /\ \A answer : Finish(r, answer) => /\ req'[r].pc = "done" /\ req'[r].paid = req[r].paid
                                             /\ req'[r].answer = answer
                                             /\ req'[r].alarm = req[r].alarm
         /\ \A answer, place : Because(r, answer, place) =>
              /\ req'[r].pc = place /\ req'[r].paid = req[r].paid
              /\ req'[r].alarm = req[r].alarm
         /\ Alarm(r) => /\ req'[r].pc = "takeBack" /\ req'[r].paid = req[r].paid
                        /\ req'[r].alarm
         /\ \A x : req' = [req EXCEPT ![r].pc = "inventory", ![r].paid = x]
                   => req'[r].pc = "inventory" /\ req'[r].paid = x
<1>1. req \in [Requests -> Record]
  BY DEF TypeOK, Record
<1>2. \A place : Goto(r, place) => /\ req'[r].pc = place /\ req'[r].paid = req[r].paid
                                   /\ req'[r].alarm = req[r].alarm
  BY <1>1 DEF Goto, Record
<1>3. \A answer : Finish(r, answer) => /\ req'[r].pc = "done" /\ req'[r].paid = req[r].paid
                                       /\ req'[r].answer = answer /\ req'[r].alarm = req[r].alarm
  BY <1>1 DEF Finish, Record
<1>4. \A answer, place : Because(r, answer, place) =>
        /\ req'[r].pc = place /\ req'[r].paid = req[r].paid /\ req'[r].alarm = req[r].alarm
  BY <1>1 DEF Because, Record
<1>5. Alarm(r) => req'[r].pc = "takeBack" /\ req'[r].paid = req[r].paid /\ req'[r].alarm
  BY <1>1 DEF Alarm, Record
<1>6. \A x : req' = [req EXCEPT ![r].pc = "inventory", ![r].paid = x]
             => req'[r].pc = "inventory" /\ req'[r].paid = x
  BY <1>1 DEF Record
<1> QED  BY <1>2, <1>3, <1>4, <1>5, <1>6

(* Before its debit a purchase goes on, or ends without having paid. *)
LEMMA MoneyEarly ==
  ASSUME TypeOK, NEW r \in Requests, Moved(r), MoneyAt(r), UNCHANGED accounts, Same(r),
         req[r].pc \in Early, ~Logged(r),
         \/ \E place \in Early \ {"debit", "balance"} : req'[r].pc = place
         \/ req'[r].pc \in {"replay", "done", "takeBack"}
         \/ req'[r].pc = "debit" /\ req'[r].paid > 0
         \/ req'[r].pc = "balance" /\ req'[r].paid = 0
         \/ req'[r].pc = "log" /\ req'[r].paid = 0
  PROVE  MoneyAt(r)'
<1>1. Acc(r)'.exists => ~Debited(r)' /\ ~Reverted(r)'
  BY MoneyStill DEF MoneyAt
<1>2. ~Cost(r)' /\ (Acc(r)'.exists => ~Paid(r)')
  <2>1. ~Cost(r)'
    BY DEF Same, Cost, Logged
  <2>2. Acc(r)'.exists => ~Paid(r)'
    BY <1>1, MoneyStill DEF MoneyAt, Paid, Debited
  <2> QED  BY <2>1, <2>2
<1> DEFINE e == req'[r].pc
<1>3. ~(e \in {"mayRevert", "revert"}) /\ (e = "log" => req'[r].paid = 0)
      /\ (e = "balance" => req'[r].paid = 0) /\ (e = "debit" => req'[r].paid > 0)
  BY DEF Early
<1> HIDE DEF e
<1>4. 0 > 0 <=> FALSE
  OBVIOUS
<1> QED  BY <1>1, <1>2, <1>3, <1>4 DEF MoneyAt, e

LEMMA MoneyFirst ==
  ASSUME MoneyConsistent, NEW r \in Requests, Moved(r), MoneyAt(r),
         \/ PurchaseReplay(r) \/ PurchaseGate(r) \/ PurchaseInventory(r)
         \/ CreateInventory(r) \/ PushItem(r) \/ PushSection(r) \/ PushAgain(r)
         \/ ReadBalance(r)
  PROVE  MoneyAt(r)'
<1> TypeOK
  BY DEF MoneyConsistent, Typed
<1>1. req[r].pc \in Early /\ UNCHANGED accounts /\ UNCHANGED purchases /\ req[r].paid \in Nat
  BY DEF PurchaseReplay, PurchaseGate, PurchaseInventory, CreateInventory, PushItem, PushSection,
         PushAgain, ReadBalance, Is, Early, Only, TypeOK
<1>2. Same(r) /\ ~Logged(r)
  <2>1. req[r].pc # "done"
    BY DEF Moved
  <2> QED  BY <1>1, <2>1 DEF Same, Logged, MoneyConsistent, LoggedLast
<1>3. ASSUME \/ \E answer : Finish(r, answer)
             \/ \E place \in Early \ {"debit", "balance"} : Goto(r, place)
             \/ Goto(r, AfterPush(r))
             \/ \E x : req' = [req EXCEPT ![r].pc = "inventory", ![r].paid = x]
             \/ req[r].paid = 0 /\ Goto(r, "log")
      PROVE  MoneyAt(r)'
  <2>1. CASE \E answer : Finish(r, answer)
    <3>1. req'[r].pc = "done"
      BY <2>1, Locals
    <3> QED  BY <1>1, <1>2, <3>1, MoneyEarly
  <2>2. CASE \E place \in Early \ {"debit", "balance"} : Goto(r, place)
    <3>1. \E place \in Early \ {"debit", "balance"} : req'[r].pc = place
      BY <2>2, Locals
    <3> QED  BY <1>1, <1>2, <3>1, MoneyEarly
  <2>3. CASE Goto(r, AfterPush(r))
    <3>1. \/ req'[r].pc = "debit" /\ req'[r].paid > 0
          \/ req'[r].pc = "balance" /\ req'[r].paid = 0
      <4>1. CASE req[r].paid > 0
        <5>1. Goto(r, "debit")
          BY <2>3, <4>1 DEF AfterPush
        <5> QED  BY <4>1, <5>1, Locals
      <4>2. CASE ~(req[r].paid > 0)
        <5>1. Goto(r, "balance") /\ req[r].paid = 0
          BY <1>1, <2>3, <4>2 DEF AfterPush
        <5> QED  BY <5>1, Locals
      <4> QED  BY <4>1, <4>2
    <3> QED  BY <1>1, <1>2, <3>1, MoneyEarly
  <2>4. CASE \E x : req' = [req EXCEPT ![r].pc = "inventory", ![r].paid = x]
    <3>1. \E place \in Early \ {"debit", "balance"} : req'[r].pc = place
      BY <2>4, Locals DEF Early
    <3> QED  BY <1>1, <1>2, <3>1, MoneyEarly
  <2>5. CASE req[r].paid = 0 /\ Goto(r, "log")
    <3>1. req'[r].pc = "log" /\ req'[r].paid = 0
      BY <2>5, Locals
    <3> QED  BY <1>1, <1>2, <3>1, MoneyEarly
  <2> QED  BY <1>3, <2>1, <2>2, <2>3, <2>4, <2>5
<1>4. {"gate", "inventory", "create", "tx", "push", "section", "again", Ready}
        \subseteq Early \ {"debit", "balance"}
  BY DEF Early, Ready
<1>5. PurchaseReplay(r) => MoneyAt(r)'
  BY <1>3, <1>4 DEF PurchaseReplay
<1>6. PurchaseGate(r) => MoneyAt(r)'
  BY <1>3 DEF PurchaseGate
<1>7. PurchaseInventory(r) => MoneyAt(r)'
  <2>1. PurchaseInventory(r) => Goto(r, Ready) \/ Goto(r, "create")
    BY DEF PurchaseInventory
  <2> QED  BY <1>3, <1>4, <2>1
<1>8. CreateInventory(r) => MoneyAt(r)'
  BY <1>3, <1>4 DEF CreateInventory
<1>9. PushItem(r) \/ PushSection(r) \/ PushAgain(r) => MoneyAt(r)'
  <2>1. PushItem(r) \/ PushSection(r) \/ PushAgain(r) =>
          \/ Goto(r, AfterPush(r)) \/ Goto(r, "section") \/ Goto(r, "again")
          \/ Finish(r, "not_found")
    BY DEF PushItem, PushSection, PushAgain
  <2> QED  BY <1>3, <1>4, <2>1
<1>10. ReadBalance(r) => MoneyAt(r)'
  <2>1. ReadBalance(r) => req[r].paid = 0
    BY DEF ReadBalance, Is, MoneyAt
  <2> QED  BY <1>3, <2>1 DEF ReadBalance
<1> QED  BY <1>5, <1>6, <1>7, <1>8, <1>9, <1>10

-----------------------------------------------------------------------------
(* A transaction of the purchase's own is appended: the other stays as it is. *)
LEMMA MoneyAppend ==
  ASSUME Typed, Marks, NEW r \in Requests, Moved(r), NEW tx \in Tx, Append1(Op(r).acc, tx),
         NEW leg \in Legs, tx.id = <<r, leg>>, leg = "debit" => tx.origin = "purchase"
  PROVE  /\ HasTx(Op(r).acc, r, leg)'
         /\ \A other : other # leg => (HasTx(Op(r).acc, r, other)' <=> HasTx(Op(r).acc, r, other))
         /\ Acc(r)'.exists = Acc(r).exists /\ Op(r)' = Op(r)
<1> TypeOK
  BY DEF Typed
<1> DEFINE a == Op(r).acc
           doc == AppendTransaction(accounts[a], tx, accounts[a].stamp + 1)
<1>1. a \in Accounts /\ accounts[a] \in Account /\ Op(r)' = Op(r)
  BY OpType, OpSame DEF Typed, DocsOK
<1>2. TxsById(doc) = TxsById(accounts[a]) \cup {tx.id} /\ doc.exists = accounts[a].exists
  BY <1>1, AppendIds
<1>3. accounts'[a] = doc
  BY <1>1 DEF Append1, Put, Typed, DocsOK
<1> HIDE DEF doc
<1>4. \A other : other # leg => <<r, other>> # tx.id
  OBVIOUS
<1>5. TxsById(accounts'[a]) = TxsById(accounts[a]) \cup {<<r, leg>>}
  BY <1>2, <1>3
<1> QED  BY <1>1, <1>2, <1>3, <1>4, <1>5 DEF HasTx, Acc

LEMMA MoneyDebit ==
  ASSUME Typed, Marks, NEW r \in Requests, Moved(r), Append1(Op(r).acc, DebitTx(r))
  PROVE  /\ Debited(r)' /\ (Reverted(r)' <=> Reverted(r))
         /\ Acc(r)'.exists = Acc(r).exists /\ Op(r)' = Op(r)
         /\ (Paid(r)' <=> Debited(r)' /\ ~Reverted(r)')
<1>1. /\ DebitTx(r) \in Tx /\ DebitTx(r).id = <<r, "debit">> /\ DebitTx(r).origin = "purchase"
      /\ "debit" \in Legs /\ "debit" # "revert"
  BY LegTypes DEF DebitTx, Legs, Typed
<1>2. /\ HasTx(Op(r).acc, r, "debit")'
      /\ \A other : other # "debit" => (HasTx(Op(r).acc, r, other)' <=> HasTx(Op(r).acc, r, other))
      /\ Acc(r)'.exists = Acc(r).exists /\ Op(r)' = Op(r)
  BY <1>1, MoneyAppend
<1> QED  BY <1>1, <1>2 DEF Debited, Reverted, Paid

LEMMA MoneyRevert ==
  ASSUME Typed, Marks, NEW r \in Requests, Moved(r), Append1(Op(r).acc, RevertTx(r))
  PROVE  /\ Reverted(r)' /\ (Debited(r)' <=> Debited(r))
         /\ Acc(r)'.exists = Acc(r).exists /\ Op(r)' = Op(r)
<1>1. /\ RevertTx(r) \in Tx /\ RevertTx(r).id = <<r, "revert">>
      /\ "revert" \in Legs /\ "debit" # "revert"
  BY LegTypes DEF RevertTx, PlainTx, Legs, Typed
<1>2. /\ HasTx(Op(r).acc, r, "revert")'
      /\ \A other : other # "revert" => (HasTx(Op(r).acc, r, other)' <=> HasTx(Op(r).acc, r, other))
      /\ Acc(r)'.exists = Acc(r).exists /\ Op(r)' = Op(r)
  BY <1>1, MoneyAppend
<1> QED  BY <1>1, <1>2 DEF Debited, Reverted

-----------------------------------------------------------------------------
(* With the debit taken or not: the log is written, or money goes back. *)
LEMMA MoneyLater ==
  ASSUME MoneyConsistent, NEW r \in Requests, Moved(r), MoneyAt(r),
         \/ PurchaseTx(r) \/ Debit(r) \/ CreateLog(r) \/ RevertGate(r) \/ Revert(r)
         \/ TakeBack(r) \/ ReplayWinner(r)
  PROVE  MoneyAt(r)'
<1> Typed /\ TypeOK /\ Marks
  BY DEF MoneyConsistent, Typed
<1>1. req[r].paid \in Nat /\ ~Logged(r) /\ req[r].pc # "done"
  <2>1. req[r].pc # "done"
    BY DEF Moved
  <2>2. purchases[r].status = "none"
    BY <2>1 DEF MoneyConsistent, LoggedLast
  <2> QED  BY <2>1, <2>2 DEF TypeOK, Logged
<1>2. UNCHANGED purchases => Same(r) /\ ~Cost(r)'
  BY <1>1 DEF Same, Logged, Cost
<1>3. LogsNow(r) => Logged(r)' /\ purchases'[r].paid = req[r].paid
  <2>1. LogsNow(r) => purchases'[r] = [status |-> "active", acc |-> Op(r).acc, paid |-> req[r].paid,
                                       nonce |-> Op(r).nonce]
    BY LogsNowSame
  <2> QED  BY <2>1 DEF Logged
<1>4. CASE PurchaseTx(r)
  <2>1. CASE Only({}) /\ (Goto(r, "replay") \/ \E answer : Finish(r, answer))
    <3>1. /\ UNCHANGED accounts /\ Same(r) /\ req[r].pc \in Early
          /\ req'[r].pc \in {"replay", "done", "takeBack"}
      BY <1>2, <1>4, <2>1, Locals DEF Only, PurchaseTx, Is, Early
    <3> QED  BY <1>1, <3>1, MoneyEarly
  <2>2. CASE ~NonceTaken(Op(r).nonce) /\ DebitIn(r) /\ LogPurchase(r) /\ Finish(r, "ok")
    <3>1. LogsNow(r) /\ req[r].pc \in Early
      BY <1>4, <2>2 DEF PurchaseTx, LogsNow, Is, Early
    <3>2. req'[r].pc = "done" /\ (Cost(r)' <=> req[r].paid > 0)
      BY <1>3, <2>2, <3>1, Locals DEF Cost
    <3>3. CASE req[r].paid > 0
      <4>1. Append1(Op(r).acc, DebitTx(r))
        BY <2>2, <3>3 DEF DebitIn
      <4>2. /\ Debited(r)' /\ (Reverted(r)' <=> Reverted(r)) /\ Acc(r)'.exists = Acc(r).exists
            /\ (Paid(r)' <=> Debited(r)' /\ ~Reverted(r)')
        BY <4>1, MoneyDebit
      <4>3. Acc(r)'.exists => Paid(r)'
        BY <3>1, <4>2 DEF MoneyAt
      <4>4. "done" \notin Early
        BY DEF Early
      <4> QED  BY <3>2, <3>3, <4>3, <4>4 DEF MoneyAt
    <3>4. CASE ~(req[r].paid > 0)
      <4>1. UNCHANGED accounts
        BY <2>2, <3>4 DEF DebitIn
      <4>2. Acc(r)'.exists => ~Paid(r)'
        BY <3>1, <4>1, MoneyStill DEF MoneyAt, Paid, Debited
      <4>3. "done" \notin Early
        BY DEF Early
      <4> QED  BY <3>2, <3>4, <4>2, <4>3 DEF MoneyAt
    <3> QED  BY <3>3, <3>4
  <2> QED  BY <1>4, <2>1, <2>2 DEF PurchaseTx
<1>5. CASE Debit(r)
  <2>1. req[r].pc = "debit" /\ req[r].pc \in Early /\ req[r].paid > 0
    BY <1>5 DEF Debit, Is, Early, MoneyAt
  <2>2. CASE Because(r, "insufficient", "takeBack") /\ Only({})
    <3>1. UNCHANGED accounts /\ Same(r) /\ req'[r].pc \in {"replay", "done", "takeBack"}
      BY <1>2, <2>2, Locals DEF Only
    <3> QED  BY <1>1, <2>1, <3>1, MoneyEarly
  <2>3. CASE Append1(Op(r).acc, DebitTx(r)) /\ Goto(r, "log") /\ Only({"accounts"})
    <3>1. /\ Debited(r)' /\ (Reverted(r)' <=> Reverted(r)) /\ Acc(r)'.exists = Acc(r).exists
      BY <2>3, MoneyDebit
    <3>2. req'[r].pc = "log" /\ req'[r].paid > 0
      BY <2>1, <2>3, Locals
    <3>3. Acc(r)'.exists => ~Reverted(r)'
      BY <2>1, <3>1 DEF MoneyAt
    <3>4. "log" \notin Early
      BY DEF Early
    <3> QED  BY <3>1, <3>2, <3>3, <3>4 DEF MoneyAt, Settled
  <2> QED  BY <1>5, <2>2, <2>3 DEF Debit
<1>6. CASE CreateLog(r)
  <2>1. req[r].pc = "log" /\ UNCHANGED accounts
    BY <1>6 DEF CreateLog, Is, Only
  <2>2. /\ Acc(r)' = Acc(r) /\ (Debited(r)' <=> Debited(r)) /\ (Reverted(r)' <=> Reverted(r))
        /\ (Paid(r)' <=> Paid(r))
    BY <2>1, MoneyStill
  <2>3. Acc(r)'.exists => (Debited(r)' <=> req[r].paid > 0) /\ ~Reverted(r)'
    BY <2>1, <2>2 DEF MoneyAt
  <2>4. CASE LogPurchase(r) /\ Finish(r, "ok") /\ ~NonceTaken(Op(r).nonce)
    <3>1. LogsNow(r)
      BY <1>6, <2>1, <2>4 DEF CreateLog, LogsNow, Is
    <3>2. req'[r].pc = "done" /\ (Cost(r)' <=> req[r].paid > 0)
      BY <1>3, <2>4, <3>1, Locals DEF Cost
    <3>3. Acc(r)'.exists => (Paid(r)' <=> Cost(r)')
      BY <2>2, <2>3, <3>2 DEF Paid, Debited, Reverted
    <3>4. "done" \notin Early
      BY DEF Early
    <3> QED  BY <3>2, <3>3, <3>4 DEF MoneyAt
  <2>5. CASE /\ \E answer : Because(r, answer, IF req[r].paid > 0 THEN "mayRevert" ELSE "takeBack")
             /\ Only({})
    <3>1. CASE req[r].paid > 0
      <4>1. req'[r].pc = "mayRevert" /\ req'[r].paid > 0
        BY <2>5, <3>1, Locals
      <4>2. "mayRevert" \notin Early
        BY DEF Early
      <4> QED  BY <2>3, <3>1, <4>1, <4>2 DEF MoneyAt, Settled
    <3>2. CASE ~(req[r].paid > 0)
      <4>1. req'[r].pc = "takeBack"
        <5>1. PICK answer : Because(r, answer, IF req[r].paid > 0 THEN "mayRevert" ELSE "takeBack")
          BY <2>5
        <5>2. Because(r, answer, "takeBack")
          BY <3>2, <5>1 DEF Because
        <5>3. req \in [Requests -> Record]
          BY DEF TypeOK, Record
        <5> QED  BY <5>2, <5>3 DEF Because, Record
      <4>2. "takeBack" \notin Early
        BY DEF Early
      <4> QED  BY <2>3, <3>2, <4>1, <4>2 DEF MoneyAt, Settled
    <3> QED  BY <3>1, <3>2
  <2> QED  BY <1>6, <2>4, <2>5 DEF CreateLog
<1>7. CASE RevertGate(r)
  <2>1. req[r].pc = "mayRevert" /\ UNCHANGED accounts
    BY <1>7 DEF RevertGate, Is, Only
  <2>2. /\ Acc(r)' = Acc(r) /\ (Debited(r)' <=> Debited(r)) /\ (Reverted(r)' <=> Reverted(r))
    BY <2>1, MoneyStill
  <2>3. req[r].paid > 0 /\ (Acc(r)'.exists => Debited(r)' /\ ~Reverted(r)')
    BY <2>1, <2>2 DEF MoneyAt
  <2>4. CASE Goto(r, "revert")
    <3>1. req'[r].pc = "revert" /\ req'[r].paid > 0
      BY <2>3, <2>4, Locals
    <3>2. "revert" \notin Early
      BY DEF Early
    <3> QED  BY <2>3, <3>1, <3>2 DEF MoneyAt, Settled
  <2>5. CASE Alarm(r)
    <3>1. req'[r].pc = "takeBack" /\ req'[r].alarm
      BY <2>5, Locals
    <3>2. "takeBack" \notin Early
      BY DEF Early
    <3> QED  BY <3>1, <3>2 DEF MoneyAt, Settled
  <2> QED  BY <1>7, <2>4, <2>5 DEF RevertGate
<1>8. CASE Revert(r)
  <2>1. req[r].pc = "revert"
    BY <1>8 DEF Revert, Is
  <2>2. "takeBack" \notin Early
    BY DEF Early
  <2>3. CASE Append1(Op(r).acc, RevertTx(r)) /\ Goto(r, "takeBack")
    <3>1. /\ Reverted(r)' /\ (Debited(r)' <=> Debited(r)) /\ Acc(r)'.exists = Acc(r).exists
      BY <2>3, MoneyRevert
    <3>2. Acc(r)'.exists => Debited(r)'
      BY <2>1, <3>1 DEF MoneyAt
    <3>3. req'[r].pc = "takeBack"
      BY <2>3, Locals
    <3> QED  BY <2>2, <3>1, <3>2, <3>3 DEF MoneyAt, Settled
  <2>4. CASE Alarm(r)
    <3>1. req'[r].pc = "takeBack" /\ req'[r].alarm
      BY <2>4, Locals
    <3> QED  BY <2>2, <3>1 DEF MoneyAt, Settled
  <2> QED  BY <1>8, <2>3, <2>4 DEF Revert
<1>9. CASE TakeBack(r) \/ ReplayWinner(r)
  <2>1. req[r].pc \in {"takeBack", "replay"} /\ UNCHANGED accounts /\ UNCHANGED purchases
    BY <1>9 DEF TakeBack, ReplayWinner, Is, Only
  <2>2. /\ Acc(r)' = Acc(r) /\ (Debited(r)' <=> Debited(r)) /\ (Reverted(r)' <=> Reverted(r))
        /\ (Paid(r)' <=> Paid(r)) /\ ~Cost(r)'
    BY <1>2, <2>1, MoneyStill
  <2>3. Acc(r)'.exists /\ ~req[r].alarm => (Debited(r)' <=> Reverted(r)') /\ ~Paid(r)'
    BY <2>1, <2>2 DEF MoneyAt, Paid, Debited, Reverted
  <2>4. req'[r].pc \in {"replay", "done"} /\ req'[r].alarm = req[r].alarm
    <3>1. Goto(r, "replay") \/ \E answer : Finish(r, answer)
      BY <1>9 DEF TakeBack, ReplayWinner
    <3> QED  BY <3>1, Locals
  <2>5. "replay" \notin Early /\ "done" \notin Early
    BY DEF Early
  <2> QED  BY <2>2, <2>3, <2>4, <2>5 DEF MoneyAt, Settled
<1> QED  BY <1>4, <1>5, <1>6, <1>7, <1>8, <1>9

-----------------------------------------------------------------------------
LEMMA NotAPurchase ==
  ASSUME NEW r \in Requests,
         \/ RefundRead(r) \/ RefundTx(r) \/ RefundFlip(r) \/ RefundCredit(r)
         \/ RefundUnflip(r) \/ RefundItem(r)
         \/ AdjustAccount(r) \/ UndoAccount(r) \/ ConvertAccount(r)
         \/ ForbidSelfAdjust(r) \/ DeleteAccount(r) \/ LoadInventory(r)
         \/ SaveInventory(r)
  PROVE  Op(r).kind # "purchase"
BY DEF Is, RefundRead, RefundTx, RefundFlip, RefundCredit, RefundUnflip, RefundItem, AdjustAccount,
       UndoAccount, ConvertAccount, ForbidSelfAdjust, DeleteAccount, LoadInventory, SaveInventory,
       AccountOp

LEMMA MoneyKeeps ==
  ASSUME MoneyConsistent, Money, NEW r \in Requests, Step(r) \/ Crash(r), Writes(r), NoUndo'
  PROVE  Money'
<1> TypeOK
  BY DEF MoneyConsistent, Typed
<1> Moved(r)
  BY DEF Writes
<1>1. \A q \in Requests : Op(q)' = Op(q)
  BY OpSame
<1> SUFFICES ASSUME NEW q \in Requests, Op(q).kind = "purchase"  PROVE MoneyAt(q)'
  BY <1>1 DEF Money, Purchases
<1>2. MoneyAt(q)
  BY DEF Money, Purchases
<1>3. CASE q # r
  BY <1>2, <1>3, MoneyOthers
<1>4. CASE q = r /\ Step(r)
  <2>1. \/ PurchaseReplay(r) \/ PurchaseGate(r) \/ PurchaseInventory(r)
        \/ CreateInventory(r) \/ PushItem(r) \/ PushSection(r) \/ PushAgain(r)
        \/ ReadBalance(r)
        \/ PurchaseTx(r) \/ Debit(r) \/ CreateLog(r) \/ RevertGate(r) \/ Revert(r)
        \/ TakeBack(r) \/ ReplayWinner(r)
    BY <1>4, NotAPurchase DEF Step
  <2> QED  BY <1>2, <1>4, <2>1, MoneyFirst, MoneyLater
<1>5. CASE q = r /\ Crash(r)
  <2>1. req'[r].pc = "done" /\ req'[r].answer = "crashed"
    BY <1>5, Locals DEF Crash
  <2>2. "done" \notin Early
    BY DEF Early
  <2> QED  BY <1>5, <2>1, <2>2 DEF MoneyAt, Settled
<1> QED  BY <1>3, <1>4, <1>5

(* The inductive invariant of the compensations. *)
Compensated ==
  /\ MoneyConsistent /\ Live /\ Pending /\ OneNonce
  /\ NoUndo => Money

LEMMA CompensatedInit == Init => Compensated
<1> SUFFICES ASSUME Init  PROVE Compensated
  OBVIOUS
<1>1. MoneyConsistent
  BY MoneyInit
<1>2. \A r \in Requests : /\ req[r].pc = "start" /\ req[r].answer = "none"
                          /\ purchases[r].status = "none" /\ purchases[r].nonce = Op(r).nonce
  BY DEF Init, Unwritten, PurchaseIds, Op
<1>3. \A r \in Requests : \A leg \in Legs : \A a \in Accounts : ~HasTx(a, r, leg)
  <2> SUFFICES ASSUME NEW r \in Requests, NEW leg \in Legs, NEW a \in Accounts
               PROVE  <<r, leg>> \notin TxsById(InitialAccounts[a])
    BY DEF Init, HasTx
  <2>1. <<r, leg>> \in Requests \X Legs
    OBVIOUS
  <2> QED  BY <2>1, PurchaseAssumption
<1>4. Live /\ Pending /\ OneNonce
  BY <1>2, <1>3 DEF Live, Pending, OneNonce, Logged
<1>5. Money
  <2> SUFFICES ASSUME NEW r \in Requests  PROVE MoneyAt(r)
    BY DEF Money, Purchases
  <2>1. ~Debited(r) /\ ~Reverted(r)
    BY <1>1, <1>3, OpType DEF Debited, Reverted, Legs, MoneyConsistent, Typed
  <2> QED  BY <1>2, <2>1 DEF MoneyAt, Settled
<1> QED  BY <1>1, <1>4, <1>5 DEF Compensated

LEMMA CompensatedStep ==
  ASSUME Compensated, NEW r \in Requests, Step(r) \/ Crash(r)
  PROVE  Writes(r) /\ (NoUndo' => NoUndo) /\ (NoEdit' => NoEdit) /\ Compensated'
<1> MoneyConsistent /\ Live /\ Pending /\ OneNonce /\ TypeOK
  BY DEF Compensated, MoneyConsistent, Typed
<1>1. Writes(r) /\ Moves(r)
  BY StepWrites, StepMoves
<1>2. Pending' /\ (NoUndo' => NoUndo) /\ (NoEdit' => NoEdit)
  BY <1>1, AnswersLast DEF Writes
<1>3. MoneyConsistent'
  BY MoneyNext DEF Next
<1>4. OneNonce'
  BY <1>1, NonceKeeps DEF Writes
<1>5. NoUndo' => Money'
  BY <1>1, <1>2, MoneyKeeps DEF Compensated
<1> QED  BY <1>1, <1>2, <1>3, <1>4, <1>5 DEF Compensated, Writes

LEMMA CompensatedNext == Compensated /\ [Next]_vars => Compensated'
<1> SUFFICES ASSUME Compensated, [Next]_vars  PROVE Compensated'
  OBVIOUS
<1>1. CASE UNCHANGED vars
  <2>1. MoneyConsistent'
    BY MoneyNext DEF Compensated
  <2>2. Live' /\ Pending' /\ OneNonce'
    BY <1>1 DEF vars, Compensated, Live, HasTx, Pending, OneNonce, Logged, Op
  <2>3. ASSUME NEW r \in Requests, MoneyAt(r)  PROVE MoneyAt(r)'
    BY <1>1, <2>3 DEF vars, MoneyAt, Debited, Reverted, HasTx, Op, Acc, Settled, Paid, Cost, Logged
  <2>4. NoUndo' => Money'
    BY <1>1, <2>3 DEF vars, Compensated, NoUndo, Op, Money, Purchases
  <2> QED  BY <2>1, <2>2, <2>4 DEF Compensated
<1>2. CASE Next
  BY <1>2, CompensatedStep DEF Next
<1> QED  BY <1>1, <1>2

(***************************************************************************)
(* The compensations of the fallback: whoever crashes and whatever fails,  *)
(* a purchase that ended by itself has taken money and not given it back   *)
(* if and only if it is in the log, unless an undo took a compensation.    *)
(***************************************************************************)
THEOREM MoneyBalanced == Spec => [](NoUndo => MoneySettled)
<1>1. Compensated => (NoUndo => MoneySettled)
  BY DEF Compensated, Money, MoneySettled, MoneyAt, Cost, Purchases, Acc, Settled
<1> QED  BY <1>1, CompensatedInit, CompensatedNext, PTL DEF Spec

(***************************************************************************)
(* D-PURCHASE-IDEMPOTENCY without transactions: however often one purchase *)
(* is sent, at most one of the requests that ended keeps its money.        *)
(***************************************************************************)
THEOREM FallbackBoughtOnce == Spec => [](NoUndo => PaidOnce)
<1>1. Compensated => (NoUndo => PaidOnce)
  <2> SUFFICES ASSUME Compensated, NoUndo, NEW q \in Purchases, NEW r \in Purchases,
                      q # r, Op(q).nonce = Op(r).nonce, Paid(q), Paid(r), Settled(q), Settled(r)
               PROVE  Op(q).nonce = NoNonce
    BY DEF PaidOnce
  <2>1. /\ q \in Requests /\ r \in Requests
        /\ Op(q).acc \in Accounts /\ Op(r).acc \in Accounts
    BY OpType DEF Compensated, MoneyConsistent, Typed, Purchases
  <2>2. Acc(q).exists /\ Acc(r).exists
    BY <2>1 DEF Compensated, Live, Paid, Acc, Legs
  <2>3. MoneyAt(q) /\ MoneyAt(r)
    BY DEF Compensated, Money
  <2>4. Logged(q) /\ Logged(r)
    BY <2>2, <2>3 DEF MoneyAt, Cost
  <2> QED  BY <2>1, <2>4 DEF Compensated, OneNonce
<1> QED  BY <1>1, CompensatedInit, CompensatedNext, PTL DEF Spec

-----------------------------------------------------------------------------
(* Whose step turns a status, and what it does with the money. *)
LEMMA StatusTurns ==
  ASSUME MoneyConsistent, NEW r \in Requests, Step(r) \/ Crash(r), NEW p \in PurchaseIds,
         purchases'[p].status # purchases[p].status
  PROVE  \/ LogsNow(r) /\ p = r /\ purchases'[p].status = "active"
         \/ /\ Op(r).kind = "refund" /\ Op(r).purchase = p
            /\ \/ RefundFlip(r) /\ Goto(r, "credit") /\ purchases[p].status = "active"
                  /\ purchases'[p].status = "refunded"
               \/ RefundTx(r) /\ CreditIn(r) /\ purchases[p].status = "active"
                  /\ purchases'[p].status = "refunded"
               \/ RefundUnflip(r) /\ purchases'[p].status = "active"
<1> TypeOK
  BY DEF MoneyConsistent, Typed
<1>0. purchases \in [PurchaseIds -> Purchase]
  BY DEF TypeOK
<1>1. ASSUME LogsNow(r)  PROVE p = r /\ purchases'[p].status = "active"
  <2>1. p = r
    BY <1>1, LogsNowSame
  <2>2. purchases'[r] = [status |-> "active", acc |-> Op(r).acc, paid |-> req[r].paid,
                         nonce |-> Op(r).nonce]
    BY <1>1, LogsNowSame
  <2> QED  BY <2>1, <2>2
<1>2. ASSUME NEW status, SetStatus(Op(r).purchase, status)
      PROVE  Op(r).purchase = p /\ purchases'[p].status = status
  <2>1. Op(r).purchase = p
    BY <1>0, <1>2 DEF SetStatus
  <2> QED  BY <1>0, <1>2, <2>1 DEF SetStatus, Purchase
<1>3. ~(UNCHANGED purchases)
  OBVIOUS
<1>4. \/ RefundFlip(r) \/ RefundTx(r) \/ RefundUnflip(r) \/ PurchaseTx(r) \/ CreateLog(r)
  BY <1>3 DEF Step, Crash, PurchaseReplay, PurchaseGate, PurchaseInventory, CreateInventory,
         ReplayWinner, PushItem, PushSection, PushAgain, ReadBalance, RevertGate, TakeBack, Only,
         Debit, Revert, RefundRead, RefundItem, RefundCredit, LoadInventory, SaveInventory,
         AdjustAccount, UndoAccount, ConvertAccount, ForbidSelfAdjust, DeleteAccount, AccountOp
<1>5. PurchaseTx(r) => LogsNow(r)
  BY <1>3 DEF PurchaseTx, LogsNow, Is, Only
<1>6. CreateLog(r) => LogsNow(r)
  BY <1>3 DEF CreateLog, LogsNow, Is, Only
<1>7. CASE RefundFlip(r)
  <2>1. Op(r).kind = "refund" /\ SetStatus(Op(r).purchase, "refunded") /\ Goto(r, "credit")
        /\ Bought(r).status = "active"
    BY <1>3, <1>7 DEF RefundFlip, Only, Is, StillActive
  <2> QED  BY <1>2, <1>7, <2>1 DEF Bought
<1>8. CASE RefundTx(r)
  <2>1. Op(r).kind = "refund" /\ SetStatus(Op(r).purchase, "refunded") /\ CreditIn(r)
        /\ Bought(r).status = "active"
    BY <1>3, <1>8 DEF RefundTx, Only, Is, StillActive
  <2> QED  BY <1>2, <1>8, <2>1 DEF Bought
<1>9. CASE RefundUnflip(r)
  <2>1. Op(r).kind = "refund" /\ SetStatus(Op(r).purchase, "active")
    BY <1>3, <1>9 DEF RefundUnflip, Is
  <2> QED  BY <1>2, <1>9, <2>1
<1> QED  BY <1>1, <1>4, <1>5, <1>6, <1>7, <1>8, <1>9

LEMMA CreditHas ==
  ASSUME Typed, Marks, NEW r \in Requests, CreditIn(r), Bought(r).paid > 0
  PROVE  <<r, "credit">> \in TxsById(accounts'[Bought(r).acc])
<1>1. CreditTx(r) \in Tx /\ CreditTx(r).id = <<r, "credit">>
  BY LegTypes DEF CreditTx, PlainTx, Typed
<1>2. CreditTx(r).id \notin Requests \X {"debit"} /\ Bought(r).acc \in Accounts
  BY <1>1, OpType DEF Typed, TypeOK, Bought, Purchase
<1>3. Append1(Bought(r).acc, CreditTx(r))
  BY DEF CreditIn
<1> QED  BY <1>1, <1>2, <1>3, GrowAppend

(* The one who flipped it goes on to credit it, or lets go of it. *)
LEMMA FlipperSteps ==
  ASSUME Typed, NEW r \in Requests, Step(r) \/ Crash(r), Op(r).kind = "refund",
         req[r].pc \in {"credit", "unflip"}
  PROVE  \/ req'[r].pc = "unflip" \/ req'[r].answer \in {"crashed", "stranded"} \/ CreditIn(r)
         \/ SetStatus(Op(r).purchase, "active") \/ Bought(r)'.status # "refunded"
<1> TypeOK
  BY DEF Typed
<1>1. RefundCredit(r) \/ RefundUnflip(r) \/ Crash(r)
  BY DEF Step, Is, PurchaseReplay, PurchaseGate, PurchaseInventory, CreateInventory,
         PurchaseTx, ReplayWinner, PushItem, PushSection, PushAgain, Debit, ReadBalance, CreateLog,
         RevertGate, Revert, TakeBack, RefundRead, RefundTx, RefundFlip,
         RefundItem, AdjustAccount, UndoAccount, ConvertAccount, ForbidSelfAdjust,
         DeleteAccount, LoadInventory, SaveInventory, AccountOp
<1>2. CASE RefundCredit(r)
  BY <1>2, Locals DEF RefundCredit
<1>3. CASE RefundUnflip(r)
  <2>1. CASE SetStatus(Op(r).purchase, "active")
    BY <2>1
  <2>2. CASE UNCHANGED purchases /\ Bought(r).status # "refunded"
    <3>1. req[r].pc # "done"
      OBVIOUS
    <3>2. Op(r)' = Op(r)
      BY <1>3, <3>1, Movings, OpSame DEF RefundUnflip
    <3> QED  BY <2>2, <3>2 DEF Bought
  <2>3. CASE Finish(r, "stranded")
    BY <2>3, Locals
  <2> QED  BY <1>3, <2>1, <2>2, <2>3 DEF RefundUnflip
<1>4. CASE Crash(r)
  BY <1>4, Locals DEF Crash
<1> QED  BY <1>1, <1>2, <1>3, <1>4

LEMMA RepaidKeeps ==
  ASSUME Compensated, Repaid, NEW r \in Requests, Step(r) \/ Crash(r), Writes(r), NoUndo'
  PROVE  Repaid'
<1> MoneyConsistent /\ Typed /\ TypeOK /\ Marks /\ Moved(r)
  BY DEF Compensated, MoneyConsistent, Typed, Writes
<1> SUFFICES ASSUME NEW p \in PurchaseIds, purchases'[p].status = "refunded",
                    purchases'[p].paid > 0, accounts'[purchases'[p].acc].exists
             PROVE  \E q \in RefundsOf(p) : Covers(p, q)'
  <2>1. \A q \in Requests : Op(q)' = Op(q)
    BY OpSame
  <2> QED  BY <2>1 DEF Repaid, RepaidAt, RefundsOf, Refunds
<1>1. \A q \in Requests : Op(q)' = Op(q)
  BY OpSame
<1>2. Same(p)
  <2>1. req[r].pc = "unflip" /\ Op(r).kind = "refund" => Bought(r).status = "refunded"
    BY DEF MoneyConsistent, Flipped, Holder
  <2>2. CASE LogsNow(r)
    <3>1. purchases'[r] = [status |-> "active", acc |-> Op(r).acc, paid |-> req[r].paid,
                           nonce |-> Op(r).nonce]
      BY <2>2, LogsNowSame
    <3>2. p # r
      BY <3>1
    <3> QED  BY <2>2, <3>2, LogsNowSame
  <2> QED  BY <2>1, <2>2, StepLogs
<1> DEFINE a == purchases[p].acc
<1>3. a \in Accounts /\ purchases'[p].acc = a /\ purchases[p].paid > 0
      /\ accounts'[a].exists /\ accounts[a].exists
  <2>1. a \in Accounts /\ purchases'[p].acc = a /\ purchases[p].paid > 0
    BY <1>2 DEF Same, TypeOK, Purchase
  <2> QED  BY <2>1 DEF Writes, Grow
<1>4. CASE purchases[p].status = "refunded"
  <2>1. PICK q \in RefundsOf(p) : Covers(p, q)
    BY <1>3, <1>4 DEF Repaid, RepaidAt
  <2>2. q \in Requests /\ Op(q).kind = "refund" /\ Op(q).purchase = p
    BY <2>1 DEF RefundsOf, Refunds
  <2>3. HasTx(a, q, "credit") => HasTx(a, q, "credit")'
    BY <1>3 DEF Writes, Hold, HasTx
  <2>4. CASE q # r
    <3>1. req'[q] = req[q]
      BY <2>2, <2>4 DEF Moved
    <3> QED  BY <1>3, <2>1, <2>3, <3>1 DEF Covers, HasTx
  <2>5. CASE q = r /\ req[r].pc \in {"credit", "unflip"}
    <3>1. Bought(r) = purchases[p] /\ Bought(r)' = purchases'[p]
      BY <1>1, <2>2, <2>5 DEF Bought
    <3>2. ~SetStatus(Op(r).purchase, "active")
      BY <2>2, <2>5 DEF SetStatus, TypeOK, Purchase
    <3>3. CreditIn(r) => HasTx(a, r, "credit")'
      <4>1. CreditIn(r) => <<r, "credit">> \in TxsById(accounts'[Bought(r).acc])
        BY <1>3, <3>1, CreditHas
      <4> QED  BY <1>3, <3>1, <4>1 DEF HasTx
    <3>4. req'[r].pc = "unflip" \/ req'[r].answer \in {"crashed", "stranded"} \/ CreditIn(r)
      BY <2>2, <2>5, <3>1, <3>2, FlipperSteps
    <3> QED  BY <1>3, <2>1, <2>5, <3>3, <3>4 DEF Covers, HasTx
  <2>6. CASE q = r /\ ~(req[r].pc \in {"credit", "unflip"})
    <3>1. req[r].answer = "none"
      BY DEF Compensated, Pending, Moved
    <3> QED  BY <1>3, <2>1, <2>3, <2>6, <3>1 DEF Covers, HasTx
  <2> QED  BY <2>4, <2>5, <2>6
<1>5. CASE purchases[p].status # "refunded"
  <2>1. /\ Op(r).kind = "refund" /\ Op(r).purchase = p
        /\ Goto(r, "credit") \/ CreditIn(r)
    BY <1>5, StatusTurns
  <2>2. r \in RefundsOf(p) /\ Bought(r) = purchases[p]
    BY <2>1 DEF RefundsOf, Refunds, Bought
  <2>3. CASE Goto(r, "credit")
    BY <2>2, <2>3, Locals DEF Covers
  <2>4. CASE CreditIn(r)
    <3>1. <<r, "credit">> \in TxsById(accounts'[a])
      BY <1>3, <2>2, <2>4, CreditHas
    <3> QED  BY <1>3, <2>2, <3>1 DEF Covers, HasTx
  <2> QED  BY <2>1, <2>3, <2>4
<1> QED  BY <1>4, <1>5

(***************************************************************************)
(* The compensation of a refund: unless a refund of it died on the way or  *)
(* failed to flip the status back, or an undo took the credit, a purchase  *)
(* is left refunded only with its money back.  Purchases that were         *)
(* refunded before are not in question.                                    *)
(***************************************************************************)
THEOREM RefundsRepaid ==
  ASSUME \A p \in OldPurchases : InitialPurchases[p].status # "refunded"
  PROVE  Spec => [](NoUndo => RefundSettled)
<1> DEFINE I == Compensated /\ (NoUndo => Repaid)
<1>1. Init => I
  <2> SUFFICES ASSUME Init  PROVE I
    OBVIOUS
  <2>1. \A p \in PurchaseIds : purchases[p].status # "refunded"
    BY DEF Init, Unwritten, PurchaseIds
  <2> QED  BY <2>1, CompensatedInit DEF Repaid, RepaidAt
<1>2. I /\ [Next]_vars => I'
  <2> SUFFICES ASSUME I, [Next]_vars  PROVE I'
    OBVIOUS
  <2>1. Compensated'
    BY CompensatedNext
  <2>2. CASE UNCHANGED vars
    <3>1. (NoUndo' <=> NoUndo) /\ (Repaid' <=> Repaid)
      BY <2>2 DEF vars, NoUndo, Op, Repaid, RepaidAt, Covers, HasTx, RefundsOf, Refunds
    <3> QED  BY <2>1, <3>1
  <2>3. CASE Next
    <3>1. PICK r \in Requests : Step(r) \/ Crash(r)
      BY <2>3 DEF Next
    <3> QED  BY <2>1, <3>1, CompensatedStep, RepaidKeeps
  <2> QED  BY <2>2, <2>3
<1>3. I => (NoUndo => RefundSettled)
  <2> SUFFICES ASSUME Repaid, NEW p \in PurchaseIds,
                      purchases[p].status = "refunded", purchases[p].paid > 0,
                      accounts[purchases[p].acc].exists, \A r \in RefundsOf(p) : Settled(r)
               PROVE  \E r \in RefundsOf(p) : HasTx(purchases[p].acc, r, "credit")
    BY DEF RefundSettled
  <2>1. PICK r \in RefundsOf(p) : Covers(p, r)
    BY DEF Repaid, RepaidAt
  <2> QED  BY <2>1 DEF Covers, Settled
<1> HIDE DEF I
<1> QED  BY <1>1, <1>2, <1>3, PTL DEF Spec

-----------------------------------------------------------------------------
(***************************************************************************)
(* Items: between the push and the log the item lies in the inventory, and *)
(* only its own purchase, or a refund that holds it, takes it out.         *)
(***************************************************************************)
Bagged == {"debit", "balance", "log", "mayRevert", "revert"}
Shelved == Bagged \cup {"tx", "push", "section", "again"}

Stocked ==
  /\ \A r \in Requests : Op(r).kind = "purchase" /\ req[r].pc \in Shelved => inventory.exists
  /\ \A r \in Requests : Logged(r) => inventory.exists
  /\ \A r \in Requests : Op(r).kind = "purchase" /\ req[r].pc \in Bagged => r \in inventory.items
  /\ \A r \in Requests : purchases[r].status = "active" => r \in inventory.items
  /\ \A q \in Requests : /\ Op(q).kind = "refund" /\ req[q].pc \in {"credit", "unflip"}
                         /\ Op(q).purchase \in Requests
                         => Op(q).purchase \in inventory.items

(* The step of r that takes the item of p out of the inventory. *)
Takes(r, p) ==
  /\ req[r].pc = "takeBack"
  /\ \/ Op(r).kind = "purchase" /\ p = r
     \/ Op(r).kind = "refund" /\ p = Op(r).purchase

LEMMA StepStock ==
  ASSUME TypeOK, NEW r \in Requests, Step(r) \/ Crash(r), NoEdit'
  PROVE  /\ inventory.exists => inventory'.exists
         /\ \A p : inventory.exists /\ p \in inventory.items /\ ~Takes(r, p)
                   => p \in inventory'.items
<1> DEFINE Good == /\ inventory.exists => inventory'.exists
                   /\ \A p : inventory.exists /\ p \in inventory.items /\ ~Takes(r, p)
                             => p \in inventory'.items
<1>0. inventory \in Inventory /\ inventory.items \in SUBSET PurchaseIds
  BY DEF TypeOK, Inventory
<1>1. UNCHANGED inventory => Good
  OBVIOUS
<1>2. ASSUME inventory' = WithItem(r)  PROVE Good
  <2>1. inventory'.exists = inventory.exists /\ inventory'.items = inventory.items \cup {r}
    BY <1>0, <1>2 DEF WithItem, Inventory
  <2> QED  BY <2>1
<1>3. ASSUME NEW p \in PurchaseIds, Takes(r, p),
             inventory' = [inventory EXCEPT !.items = @ \ {p}]
      PROVE  Good
  <2>1. inventory'.exists = inventory.exists /\ inventory'.items = inventory.items \ {p}
    BY <1>0, <1>3 DEF Inventory
  <2> QED  BY <1>3, <2>1
<1>4. CreateInventory(r) => Good
  BY <1>1 DEF CreateInventory, Only
<1>5. PurchaseTx(r) => Good
  BY <1>1, <1>2 DEF PurchaseTx, Only
<1>6. PushItem(r) => Good
  BY <1>1, <1>2 DEF PushItem, Only
<1>7. PushSection(r) => Good
  BY <1>1, <1>2 DEF PushSection, Only
<1>8. PushAgain(r) => Good
  BY <1>1, <1>2 DEF PushAgain, Only
<1>9. TakeBack(r) => Good
  BY <1>1, <1>3 DEF TakeBack, TakeOut, Is, Takes, PurchaseIds
<1>10. RefundItem(r) => Good
  <2>1. Op(r).purchase \in PurchaseIds
    BY OpType
  <2> QED  BY <1>1, <1>3, <2>1 DEF RefundItem, TakeOut, Is, Takes
<1>11. ~SaveInventory(r)
  <2> SUFFICES ASSUME SaveInventory(r)  PROVE FALSE
    OBVIOUS
  <2>1. Op(r).kind = "edit" /\ Finish(r, "ok") /\ req[r].pc # "done"
    BY DEF SaveInventory, Is
  <2>2. Op(r)' = Op(r) /\ req'[r].answer = "ok"
    BY <2>1, Movings, OpSame, Locals
  <2> QED  BY <2>1, <2>2 DEF NoEdit
<1>12. PurchaseReplay(r) \/ PurchaseGate(r) \/ PurchaseInventory(r) \/ ReplayWinner(r)
         \/ Debit(r) \/ ReadBalance(r) \/ CreateLog(r) \/ RevertGate(r) \/ Revert(r)
         => UNCHANGED inventory
  BY DEF PurchaseReplay, PurchaseGate, PurchaseInventory, ReplayWinner, Debit, ReadBalance,
         CreateLog, RevertGate, Revert, Only
<1>13. RefundRead(r) \/ RefundTx(r) \/ RefundFlip(r) \/ RefundCredit(r) \/ RefundUnflip(r)
         \/ AdjustAccount(r) \/ UndoAccount(r) \/ ConvertAccount(r) \/ ForbidSelfAdjust(r)
         \/ DeleteAccount(r) \/ LoadInventory(r) \/ Crash(r) => UNCHANGED inventory
  BY DEF RefundRead, RefundTx, RefundFlip, RefundCredit, RefundUnflip, AdjustAccount, UndoAccount,
         ConvertAccount, ForbidSelfAdjust, DeleteAccount, LoadInventory, Crash, AccountOp, Only
<1> HIDE DEF Good
<1>14. Good
  BY <1>1, <1>4, <1>5, <1>6, <1>7, <1>8, <1>9, <1>10, <1>11, <1>12, <1>13 DEF Step
<1> QED  BY <1>14 DEF Good

(* A purchase has its item in the bag only after it pushed it there. *)
LEMMA StepShelf ==
  ASSUME TypeOK, NEW r \in Requests, Step(r) \/ Crash(r), Op(r).kind = "purchase"
  PROVE  /\ req'[r].pc \in Shelved =>
              \/ req[r].pc \in Shelved \/ inventory.exists \/ inventory'.exists
         /\ req'[r].pc \in Bagged =>
              \/ req[r].pc \in Bagged \/ inventory' = WithItem(r)
<1> DEFINE Good == /\ req'[r].pc \in Shelved =>
                        \/ req[r].pc \in Shelved \/ inventory.exists \/ inventory'.exists
                   /\ req'[r].pc \in Bagged =>
                        \/ req[r].pc \in Bagged \/ inventory' = WithItem(r)
<1>1. {"start", "gate", "inventory", "create", "takeBack", "replay", "done"} \cap Shelved = {}
      /\ Bagged \subseteq Shelved /\ {"tx", "push", "section", "again"} \cap Bagged = {}
      /\ {"tx", "push", "section", "again"} \subseteq Shelved /\ Ready \in {"tx", "push"}
  BY DEF Shelved, Bagged, Ready
<1>2. ASSUME req'[r].pc \in {"gate", "inventory", "create", "takeBack", "replay", "done"}
      PROVE  Good
  BY <1>1, <1>2
<1>3. ASSUME req[r].pc \in Bagged  PROVE Good
  BY <1>1, <1>3
<1>4. ASSUME req[r].pc \in Shelved,
             req'[r].pc \in {"tx", "push", "section", "again"} \/ inventory' = WithItem(r)
      PROVE  Good
  BY <1>1, <1>4
<1>5. PurchaseReplay(r) \/ PurchaseGate(r) \/ ReplayWinner(r) => Good
  <2>1. PurchaseReplay(r) \/ PurchaseGate(r) \/ ReplayWinner(r) =>
          \/ \E answer : Finish(r, answer)
          \/ Goto(r, "gate")
          \/ \E x : req' = [req EXCEPT ![r].pc = "inventory", ![r].paid = x]
    BY DEF PurchaseReplay, PurchaseGate, ReplayWinner
  <2> QED  BY <1>2, <2>1, Locals
<1>6. CASE PurchaseInventory(r)
  <2>1. CASE inventory.exists
    <3>1. req'[r].pc \in {"tx", "push"}
      BY <1>1, <1>6, <2>1, Locals DEF PurchaseInventory
    <3> QED  BY <1>1, <2>1, <3>1
  <2>2. CASE ~inventory.exists
    <3>1. req'[r].pc = "create"
      BY <1>6, <2>2, Locals DEF PurchaseInventory
    <3> QED  BY <1>2, <3>1
  <2> QED  BY <2>1, <2>2
<1>7. CASE CreateInventory(r)
  <2>1. CASE Finish(r, "failed")
    BY <1>2, <2>1, Locals
  <2>2. CASE Goto(r, Ready) /\ inventory' = [NoInventory EXCEPT !.exists = TRUE]
    <3>1. req'[r].pc \in {"tx", "push"} /\ inventory'.exists
      BY <1>1, <2>2, Locals DEF NoInventory
    <3> QED  BY <1>1, <3>1
  <2> QED  BY <1>7, <2>1, <2>2 DEF CreateInventory
<1>8. CASE PurchaseTx(r) \/ TakeBack(r) \/ Crash(r)
  <2>1. req'[r].pc \in {"done", "replay"}
    BY <1>8, Locals DEF PurchaseTx, TakeBack, Crash
  <2> QED  BY <1>2, <2>1
<1>9. CASE PushItem(r) \/ PushSection(r) \/ PushAgain(r)
  <2>1. \/ inventory' = WithItem(r)
        \/ Goto(r, "section") \/ Goto(r, "again") \/ Finish(r, "not_found")
    BY <1>9 DEF PushItem, PushSection, PushAgain
  <2>2. req[r].pc \in Shelved
    BY <1>1, <1>9 DEF PushItem, PushSection, PushAgain, Is
  <2> QED  BY <1>2, <1>4, <2>1, <2>2, Locals
<1>10. CASE Debit(r) \/ ReadBalance(r) \/ CreateLog(r) \/ RevertGate(r) \/ Revert(r)
  BY <1>3, <1>10 DEF Debit, ReadBalance, CreateLog, RevertGate, Revert, Is, Bagged
<1> QED
  <2>1. \/ PurchaseReplay(r) \/ PurchaseGate(r) \/ PurchaseInventory(r)
        \/ CreateInventory(r) \/ PushItem(r) \/ PushSection(r) \/ PushAgain(r)
        \/ ReadBalance(r) \/ PurchaseTx(r) \/ Debit(r) \/ CreateLog(r) \/ RevertGate(r)
        \/ Revert(r) \/ TakeBack(r) \/ ReplayWinner(r) \/ Crash(r)
    BY NotAPurchase DEF Step
  <2> QED  BY <1>5, <1>6, <1>7, <1>8, <1>9, <1>10, <2>1

(* In the log, or logged now: the item is there. *)
LEMMA StockKeeps ==
  ASSUME MoneyConsistent, Stocked, NEW r \in Requests, Step(r) \/ Crash(r), Moved(r), NoEdit'
  PROVE  Stocked'
<1> TypeOK
  BY DEF MoneyConsistent, Typed
<1>1. \A q \in Requests : Op(q)' = Op(q) /\ (q # r => req'[q] = req[q])
  BY OpSame DEF Moved
<1>2. /\ inventory.exists => inventory'.exists
      /\ \A p : inventory.exists /\ p \in inventory.items /\ ~Takes(r, p) => p \in inventory'.items
  BY StepStock
<1>3. \A q \in Requests : Op(q).kind # "purchase" \/ req[q].pc # "done"
                          => purchases[q].status = "none"
  BY DEF MoneyConsistent, LoggedLast
<1>4. /\ \A q \in Requests : Holder(q) => Bought(q).status = "refunded"
      /\ \A p, q \in Requests :
           Holder(p) /\ Holder(q) /\ Op(p).purchase = Op(q).purchase => p = q
  BY DEF MoneyConsistent, Flipped
(* Only a refunded purchase, or one that is not logged, loses its item. *)
<1>5. ASSUME NEW q \in Requests, Takes(r, q)
      PROVE  \/ q = r /\ Op(r).kind = "purchase" /\ req[r].pc = "takeBack"
                /\ purchases[q].status = "none"
             \/ Op(r).kind = "refund" /\ Op(r).purchase = q /\ Holder(r)
                /\ purchases[q].status = "refunded"
  <2>1. CASE Op(r).kind = "purchase" /\ q = r
    BY <1>3, <1>5, <2>1 DEF Takes
  <2>2. CASE Op(r).kind = "refund" /\ q = Op(r).purchase
    <3>1. Holder(r)
      BY <1>5, <2>2 DEF Takes, Holder
    <3> QED  BY <1>4, <2>2, <3>1 DEF Bought
  <2> QED  BY <1>5, <2>1, <2>2 DEF Takes
<1>6. WithItem(r).items = inventory.items \cup {r}
  BY DEF WithItem, TypeOK, Inventory
<1>7. ASSUME NEW q \in Requests, Op(q)'.kind = "purchase", req'[q].pc \in Shelved
      PROVE  inventory'.exists
  <2>1. CASE q # r
    BY <1>1, <1>2, <1>7, <2>1 DEF Stocked
  <2>2. CASE q = r
    BY <1>1, <1>2, <1>7, <2>2, StepShelf DEF Stocked
  <2> QED  BY <2>1, <2>2
<1>8. ASSUME NEW q \in Requests, Logged(q)'  PROVE inventory'.exists
  <2>1. CASE Logged(q)
    BY <1>2, <2>1 DEF Stocked
  <2>2. CASE ~Logged(q)
    <3>1. LogsNow(r)
      <4>1. req[r].pc = "unflip" /\ Op(r).kind = "refund" => Bought(r).status = "refunded"
        BY <1>4 DEF Holder
      <4> QED  BY <1>8, <2>2, <4>1, StepLogs DEF Same, PurchaseIds
    <3>2. Op(r).kind = "purchase" /\ req[r].pc \in Shelved
      BY <3>1 DEF LogsNow, Shelved, Bagged
    <3> QED  BY <1>2, <3>2 DEF Stocked
  <2> QED  BY <2>1, <2>2
<1>9. ASSUME NEW q \in Requests, Op(q)'.kind = "purchase", req'[q].pc \in Bagged
      PROVE  q \in inventory'.items
  <2>1. CASE req[q].pc \in Bagged
    <3>1. q \in inventory.items /\ inventory.exists
      BY <1>1, <1>9, <2>1 DEF Stocked, Shelved
    <3>2. "takeBack" \notin Bagged /\ "done" \notin Bagged
      BY DEF Bagged
    <3>3. purchases[q].status = "none"
      BY <1>3, <2>1, <3>2
    <3> QED  BY <1>2, <1>5, <2>1, <3>1, <3>2, <3>3
  <2>2. CASE ~(req[q].pc \in Bagged)
    <3>1. q = r
      BY <1>1, <1>9, <2>2
    <3>2. inventory' = WithItem(r)
      BY <1>1, <1>9, <2>2, <3>1, StepShelf
    <3> QED  BY <1>6, <3>1, <3>2
  <2> QED  BY <2>1, <2>2
<1>10. ASSUME NEW q \in Requests, purchases[q].status = "active"  PROVE q \in inventory'.items
  <2>1. q \in inventory.items /\ inventory.exists
    BY <1>10 DEF Stocked, Logged
  <2> QED  BY <1>2, <1>5, <1>10, <2>1
<1>11. ASSUME NEW q \in Requests, Op(q).kind = "refund", req[q].pc \in {"credit", "unflip"},
              Op(q).purchase \in Requests
       PROVE  Op(q).purchase \in inventory'.items
  <2> DEFINE p == Op(q).purchase
  <2>1. Holder(q)
    BY <1>11 DEF Holder
  <2>2. purchases[p].status = "refunded"
    BY <1>4, <2>1 DEF Bought
  <2>3. p \in inventory.items /\ inventory.exists
    BY <1>11, <2>2 DEF Stocked, Logged
  <2>4. ~Takes(r, p)
    <3> SUFFICES ASSUME Takes(r, p)  PROVE FALSE
      OBVIOUS
    <3>1. Op(r).purchase = p /\ Holder(r)
      BY <1>5, <1>11, <2>2
    <3>2. q = r
      BY <1>4, <2>1, <3>1
    <3> QED  BY <1>11, <3>2 DEF Takes
  <2> QED  BY <1>2, <2>3, <2>4
<1>12. ASSUME NEW q \in Requests, purchases'[q].status = "active"  PROVE q \in inventory'.items
  <2>1. CASE purchases[q].status = "active"
    BY <1>10, <2>1
  <2>2. CASE purchases[q].status # "active"
    <3>1. q \in PurchaseIds
      BY DEF PurchaseIds
    <3>2. \/ LogsNow(r) /\ q = r
          \/ RefundUnflip(r) /\ Op(r).purchase = q
      BY <1>12, <2>2, <3>1, StatusTurns
    <3>3. CASE LogsNow(r) /\ q = r
      <4>1. CASE req[r].pc = "log"
        <5>1. Op(r).kind = "purchase" /\ "log" \in Bagged /\ ~Takes(r, r)
          BY <3>3, <4>1 DEF LogsNow, Bagged, Takes
        <5>2. r \in inventory.items /\ inventory.exists
          BY <4>1, <5>1 DEF Stocked, Shelved
        <5> QED  BY <1>2, <3>3, <5>1, <5>2
      <4>2. CASE req[r].pc = "tx"
        <5>1. PurchaseTx(r)
          <6>1. Op(r).kind = "purchase"
            BY <3>3 DEF LogsNow
          <6>2. req'[r].answer = "ok"
            BY <3>3, Locals DEF LogsNow
          <6>3. ~Crash(r)
            <7>1. Finish(r, "crashed") => req'[r].answer = "crashed"
              BY DEF Finish, TypeOK
            <7> QED  BY <6>2, <7>1 DEF Crash
          <6> QED  BY <4>2, <6>1, <6>3
                   DEF Step, Is, PurchaseReplay, PurchaseGate, PurchaseInventory, CreateInventory,
                       ReplayWinner, PushItem, PushSection, PushAgain, Debit, ReadBalance,
                       CreateLog, RevertGate, Revert, TakeBack, RefundRead, RefundTx, RefundFlip,
                       RefundCredit, RefundUnflip, RefundItem, AdjustAccount, UndoAccount,
                       ConvertAccount, ForbidSelfAdjust, DeleteAccount, LoadInventory,
                       SaveInventory, AccountOp
        <5>2. ~(UNCHANGED purchases)
          BY <2>2, <1>12
        <5>3. inventory' = WithItem(r)
          BY <5>1, <5>2 DEF PurchaseTx, Only
        <5> QED  BY <1>6, <3>3, <5>3
      <4> QED  BY <3>3, <4>1, <4>2 DEF LogsNow
    <3>4. CASE RefundUnflip(r) /\ Op(r).purchase = q
      BY <1>11, <3>4 DEF RefundUnflip, Is
    <3> QED  BY <3>2, <3>3, <3>4
  <2> QED  BY <2>1, <2>2
<1>13. ASSUME NEW q \in Requests, Op(q).kind = "refund", req'[q].pc \in {"credit", "unflip"},
              Op(q).purchase \in Requests
       PROVE  Op(q).purchase \in inventory'.items
  <2>1. CASE req[q].pc \in {"credit", "unflip"}
    BY <1>11, <1>13, <2>1
  <2>2. CASE ~(req[q].pc \in {"credit", "unflip"})
    <3>1. q = r
      BY <1>1, <1>13, <2>2
    <3>2. RefundFlip(r) /\ purchases[Op(r).purchase].status = "active"
      <4>1. \/ RefundRead(r) \/ RefundTx(r) \/ RefundFlip(r) \/ RefundItem(r) \/ Crash(r)
        BY <1>13, <2>2, <3>1
           DEF Step, Is, PurchaseReplay, PurchaseGate, PurchaseInventory, CreateInventory,
               PurchaseTx, ReplayWinner, PushItem, PushSection, PushAgain, Debit, ReadBalance,
               CreateLog, RevertGate, Revert, TakeBack, RefundCredit, RefundUnflip,
               AdjustAccount, UndoAccount, ConvertAccount, ForbidSelfAdjust, DeleteAccount,
               LoadInventory, SaveInventory, AccountOp
      <4>2. RefundRead(r) \/ RefundTx(r) \/ RefundItem(r) \/ Crash(r) =>
              req'[r].pc \in {"done", "tx", "flip", "takeBack"}
        BY Locals DEF RefundRead, RefundTx, RefundItem, Crash
      <4>3. RefundFlip(r)
        BY <1>13, <3>1, <4>1, <4>2
      <4>4. ~Finish(r, "conflict")
        BY <1>13, <3>1, Locals
      <4> QED  BY <4>3, <4>4 DEF RefundFlip, StillActive, Bought
    <3> QED  BY <1>10, <1>13, <3>1, <3>2
  <2> QED  BY <2>1, <2>2
<1> QED  BY <1>1, <1>7, <1>8, <1>9, <1>12, <1>13 DEF Stocked

(***************************************************************************)
(* RC-E4: as long as no client saves an inventory it loaded before, the    *)
(* item of a purchase that counts is in the inventory, with and without    *)
(* transactions, whatever purchases and refunds run beside it.             *)
(***************************************************************************)
THEOREM ItemsKept == Spec => []ItemsDelivered
<1> DEFINE I == Compensated /\ (NoEdit => Stocked)
<1>1. Init => I
  <2> SUFFICES ASSUME Init  PROVE I
    OBVIOUS
  <2>1. \A r \in Requests : req[r].pc = "start" /\ purchases[r].status = "none"
    BY DEF Init, Unwritten, PurchaseIds
  <2> QED  BY <2>1, CompensatedInit DEF Stocked, Logged, Shelved, Bagged
<1>2. I /\ [Next]_vars => I'
  <2> SUFFICES ASSUME I, [Next]_vars  PROVE I'
    OBVIOUS
  <2>1. Compensated'
    BY CompensatedNext
  <2>2. CASE UNCHANGED vars
    <3>1. (NoEdit' <=> NoEdit) /\ (Stocked' <=> Stocked)
      BY <2>2 DEF vars, NoEdit, Op, Stocked, Logged
    <3> QED  BY <2>1, <3>1
  <2>3. CASE Next
    <3>1. PICK r \in Requests : Step(r) \/ Crash(r)
      BY <2>3 DEF Next
    <3>2. Moved(r) /\ (NoEdit' => NoEdit)
      BY <3>1, CompensatedStep DEF Writes
    <3> QED  BY <2>1, <3>1, <3>2, StockKeeps DEF Compensated
  <2> QED  BY <2>2, <2>3
<1>3. I => ItemsDelivered
  BY DEF Stocked, ItemsDelivered, Purchases
<1> HIDE DEF I
<1> QED  BY <1>1, <1>2, <1>3, PTL DEF Spec

=============================================================================
