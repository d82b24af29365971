--------------------------- MODULE CampaignPurchase ---------------------------
(***************************************************************************)
(* CampaignPurchaseService: buying an item of the shop and refunding it.   *)
(* One purchase touches three documents: the account that pays, the        *)
(* inventory of the character and the purchase log.                        *)
(*                                                                         *)
(* With a replica set the three writes are one withTransaction, here one   *)
(* step: every document it decides on is also written, so it commits as if *)
(* it ran at its commit (CharacterAccounts has snapshots and conflicts     *)
(* spelled out).  Without one they are a sequence of commands with         *)
(* compensation, one step each.  The other operations on the account are   *)
(* those of CharacterAccounts, one step each.                              *)
(***************************************************************************)
EXTENDS AccountLedger, FiniteSets

CONSTANTS
  Requests, Operations, InitialAccounts,
  OldPurchases,      \* purchases made before the requests of Requests
  InitialPurchases,
  InitialInventories,
  ReplicaSet,
  Faults             \* subset of {"crash", "io"}

(* A purchase is named by the request that made it. *)
PurchaseIds == Requests \cup OldPurchases

Legs == {"debit", "credit", "revert", "adjust"}

Operation == [kind: {"purchase", "refund", "adjust", "undo", "convert",
                     "settings", "delete", "edit"},
              acc: Accounts, amount: Int, currency: Currencies,
              nonce: Nonces \cup {NoNonce}, staff: BOOLEAN,
              purchase: PurchaseIds]

(***************************************************************************)
(* The purchase log.  `nonce' stands for (buyerUserId, clientNonce), which *)
(* carries a unique index; "none" is a purchase that is not in the log.    *)
(***************************************************************************)
Purchase == [status: {"none", "active", "refunded"}, acc: Accounts, paid: Nat,
             nonce: Nonces \cup {NoNonce}]

(* The inventory: its shop section, once there, holds the bought items. *)
Inventory == [exists: BOOLEAN, section: BOOLEAN, items: SUBSET PurchaseIds]

ASSUME PurchaseAssumption ==
  /\ InitialAccounts \in [Accounts -> Account]
  /\ \A a \in Accounts : /\ BalanceMatches(InitialAccounts[a])
                         /\ TxsById(InitialAccounts[a]) \cap (Requests \X Legs) = {}
  /\ InitialPurchases \in [OldPurchases -> Purchase]
  /\ InitialInventories \subseteq Inventory
  /\ Operations \subseteq Operation
  /\ \A op \in Operations : op.kind = "purchase" => op.amount >= 0
  /\ Requests \X Legs \subseteq TxIds
  /\ Requests \cap OldPurchases = {}
  /\ ReplicaSet \in BOOLEAN /\ Faults \subseteq {"crash", "io"}

VARIABLES accounts, purchases, inventory,
          req    \* each request's program counter and local variables

vars == <<accounts, purchases, inventory, req>>

Places == {"start", "gate", "inventory", "create", "tx", "push", "section",
           "again", "debit", "balance", "log", "mayRevert", "revert", "takeBack",
           "replay", "flip", "credit", "unflip", "save", "done"}

(***************************************************************************)
(* "stranded" is a refund that failed and whose way back failed too: the   *)
(* client sees the error of the first, and nothing is logged.              *)
(***************************************************************************)
Answers == {"none", "ok", "replayed", "not_found", "refused", "insufficient",
            "conflict", "failed", "stranded", "crashed"}

NoInventory == [exists |-> FALSE, section |-> FALSE, items |-> {}]

Unwritten(op) == [status |-> "none", acc |-> op.acc, paid |-> 0,
                  nonce |-> op.nonce]

Init ==
  /\ accounts = InitialAccounts
  /\ inventory \in InitialInventories
  /\ req \in [Requests -> [op: Operations, pc: {"start"}, paid: {0},
                           why: {"none"}, copy: {NoInventory},
                           answer: {"none"}, alarm: {FALSE}]]
  /\ purchases = [p \in PurchaseIds |-> IF p \in Requests
                    THEN Unwritten(req[p].op) ELSE InitialPurchases[p]]

-----------------------------------------------------------------------------
Op(r) == req[r].op
Acc(r) == accounts[Op(r).acc]
Is(r, kind, place) == Op(r).kind = kind /\ req[r].pc = place

Goto(r, place) == req' = [req EXCEPT ![r].pc = place]

Finish(r, answer) ==
  req' = [req EXCEPT ![r].pc = "done", ![r].answer = answer,
                     ![r].copy = NoInventory, ![r].why = "none"]

(* Go on to `place' and answer `answer' in the end. *)
Because(r, answer, place) ==
  req' = [req EXCEPT ![r].pc = place, ![r].why = answer]

Put(a, doc) == accounts' = [accounts EXCEPT ![a] = doc]

Append1(a, tx) == Put(a, AppendTransaction(accounts[a], tx, accounts[a].stamp + 1))

DebitTx(r) == [id |-> <<r, "debit">>, delta |-> -req[r].paid,
               ref |-> NoAccount, origin |-> "purchase", nonce |-> NoNonce]
CreditTx(r) == PlainTx(<<r, "credit">>, purchases[Op(r).purchase].paid)
RevertTx(r) == PlainTx(<<r, "revert">>, req[r].paid)

Logged(p) == purchases[p].status # "none"

(* Mutant: the index is not unique and no replay is found. *)
NonceFree(nonce) == FALSE

(* The unique index (buyerUserId, clientNonce). *)
NonceTaken(nonce) ==
  /\ nonce # NoNonce
  /\ \E p \in PurchaseIds : Logged(p) /\ purchases[p].nonce = nonce

LogPurchase(r) ==
  purchases' = [purchases EXCEPT ![r] =
    [status |-> "active", acc |-> Op(r).acc, paid |-> req[r].paid,
     nonce |-> Op(r).nonce]]

Only(changed) ==   \* the collections a step leaves alone
  /\ "accounts" \notin changed => UNCHANGED accounts
  /\ "purchases" \notin changed => UNCHANGED purchases
  /\ "inventory" \notin changed => UNCHANGED inventory

-----------------------------------------------------------------------------
(* purchase: the replay comes before every other check. *)
PurchaseReplay(r) ==
  /\ Is(r, "purchase", "start") /\ Only({})
  /\ IF NonceTaken(Op(r).nonce) THEN Finish(r, "replayed") ELSE Goto(r, "gate")

(***************************************************************************)
(* The price after discount, in the item's currency, is op.amount; it is   *)
(* converted to the currency the account has when it is read.              *)
(***************************************************************************)
Convertible(from, to) == from = to \/ (Rate[from] > 0 /\ Rate[to] > 0)

PaidAmount(op, currency) ==
  IF op.currency = currency THEN op.amount
  ELSE Recompute(op.amount, op.currency, currency)

(* The reads of the catalogue, of the account, and the checks on them. *)
PurchaseGate(r) ==
  LET acc == Acc(r)
      paid == PaidAmount(Op(r), acc.currency)
  IN
  /\ Is(r, "purchase", "gate") /\ Only({})
  /\ \/ ~acc.exists /\ Finish(r, "not_found")
     \/ /\ acc.exists
        /\ ~(Op(r).staff \/ acc.selfAdjust) \/ ~Convertible(Op(r).currency, acc.currency)
        /\ Finish(r, "refused")
     \/ /\ acc.exists /\ (Op(r).staff \/ acc.selfAdjust)
        /\ Convertible(Op(r).currency, acc.currency)
        /\ \/ paid > 0 /\ acc.balance < paid /\ Finish(r, "insufficient")
           \/ /\ paid = 0 \/ acc.balance >= paid
              /\ req' = [req EXCEPT ![r].pc = "inventory", ![r].paid = paid]

(* getInventory creates the inventory outside the transaction if needed. *)
Ready == IF ReplicaSet THEN "tx" ELSE "push"

PurchaseInventory(r) ==
  /\ Is(r, "purchase", "inventory") /\ Only({})
  /\ Goto(r, IF inventory.exists THEN Ready ELSE "create")

CreateInventory(r) ==
  /\ Is(r, "purchase", "create")
  /\ \/ inventory.exists /\ Finish(r, "failed") /\ Only({})  \* unique index
     \/ /\ ~inventory.exists
        /\ inventory' = [NoInventory EXCEPT !.exists = TRUE]
        /\ Goto(r, Ready) /\ Only({"inventory"})

(***************************************************************************)
(* runPurchaseSteps in a transaction: append, debit, log, all or nothing.  *)
(***************************************************************************)
WithItem(r) == [inventory EXCEPT !.section = TRUE, !.items = @ \cup {r}]

(* A free item only needs the account to be there for the answer. *)
Payable(r) ==
  IF req[r].paid > 0 THEN Sufficient(Acc(r), req[r].paid, NoNonce)
  ELSE Acc(r).exists

DebitIn(r) ==
  IF req[r].paid > 0 THEN Append1(Op(r).acc, DebitTx(r)) ELSE UNCHANGED accounts

(* Mutant: append and debit miss the session, so an abort keeps them. *)
PurchaseTxLeaky(r) ==
  /\ Is(r, "purchase", "tx") /\ Payable(r)
  /\ inventory' = WithItem(r) /\ DebitIn(r)
  /\ IF NonceTaken(Op(r).nonce) THEN Goto(r, "replay") /\ UNCHANGED purchases
     ELSE LogPurchase(r) /\ Finish(r, "ok")

PurchaseTx(r) ==
  /\ Is(r, "purchase", "tx")
  /\ \/ ~Payable(r) /\ Only({})
        /\ Finish(r, IF req[r].paid > 0 THEN "insufficient" ELSE "not_found")
     \/ Payable(r) /\ NonceTaken(Op(r).nonce) /\ Goto(r, "replay") /\ Only({})
     \/ /\ Payable(r) /\ ~NonceTaken(Op(r).nonce)
        /\ inventory' = WithItem(r) /\ DebitIn(r) /\ LogPurchase(r)
        /\ Finish(r, "ok")

(* The purchase that won the race on the unique index. *)
ReplayWinner(r) ==
  /\ Is(r, "purchase", "replay") /\ Only({})
  /\ Finish(r, IF NonceTaken(Op(r).nonce) THEN "replayed" ELSE "failed")

-----------------------------------------------------------------------------
(***************************************************************************)
(* purchaseSequentialFallback.  appendItemToSection pushes into the shop   *)
(* section, or adds the section, or tries the push once more.              *)
(***************************************************************************)
AfterPush(r) == IF req[r].paid > 0 THEN "debit" ELSE "balance"

PushItem(r) ==
  \/ /\ Is(r, "purchase", "push") /\ inventory.section
     /\ inventory' = WithItem(r) /\ Goto(r, AfterPush(r)) /\ Only({"inventory"})
  \/ /\ Is(r, "purchase", "push") /\ ~inventory.section
     /\ Goto(r, "section") /\ Only({})

(* Mutant: the sections are set as read, with this one item (RC-E4). *)
PushSectionBlindly(r) ==
  /\ Is(r, "purchase", "section") /\ Goto(r, AfterPush(r)) /\ Only({"inventory"})
  /\ inventory' = [inventory EXCEPT !.section = TRUE, !.items = {r}]

PushSection(r) ==
  \/ /\ Is(r, "purchase", "section") /\ ~inventory.section
     /\ inventory' = WithItem(r) /\ Goto(r, AfterPush(r)) /\ Only({"inventory"})
  \/ /\ Is(r, "purchase", "section") /\ inventory.section
     /\ Goto(r, "again") /\ Only({})

PushAgain(r) ==
  \/ /\ Is(r, "purchase", "again") /\ inventory.section
     /\ inventory' = WithItem(r) /\ Goto(r, AfterPush(r)) /\ Only({"inventory"})
  \/ /\ Is(r, "purchase", "again") /\ ~inventory.section
     /\ Finish(r, "not_found") /\ Only({})

Debit(r) ==
  /\ Is(r, "purchase", "debit")
  /\ IF Sufficient(Acc(r), req[r].paid, NoNonce)
     THEN Append1(Op(r).acc, DebitTx(r)) /\ Goto(r, "log") /\ Only({"accounts"})
     ELSE Because(r, "insufficient", "takeBack") /\ Only({})

(* A free item: getAccount, outside the compensated part. *)
ReadBalance(r) ==
  /\ Is(r, "purchase", "balance") /\ Only({})
  /\ IF Acc(r).exists THEN Goto(r, "log") ELSE Finish(r, "not_found")

IoFault == "io" \in Faults

CreateLog(r) ==
  /\ Is(r, "purchase", "log")
  /\ \/ ~NonceTaken(Op(r).nonce) /\ LogPurchase(r) /\ Finish(r, "ok")
        /\ Only({"purchases"})
     \/ /\ NonceTaken(Op(r).nonce) \/ IoFault
        /\ Because(r, IF NonceTaken(Op(r).nonce) THEN "replayed" ELSE "failed",
                   IF req[r].paid > 0 THEN "mayRevert" ELSE "takeBack")
        /\ Only({})

(***************************************************************************)
(* The compensating credit is an `adjust' of the buyer, gate included; if  *)
(* it fails the log asks for manual repair (alarm).                        *)
(***************************************************************************)
Alarm(r) == req' = [req EXCEPT ![r].pc = "takeBack", ![r].alarm = TRUE]

RevertGate(r) ==
  /\ Is(r, "purchase", "mayRevert") /\ Only({})
  /\ IF Acc(r).exists /\ (Op(r).staff \/ Acc(r).selfAdjust)
     THEN Goto(r, "revert") ELSE Alarm(r)

(* Mutant: a lost race is replayed before the money is given back. *)
RevertSkipped(r) ==
  Is(r, "purchase", "revert") /\ Goto(r, "takeBack") /\ Only({})

Revert(r) ==
  /\ Is(r, "purchase", "revert")
  /\ \/ /\ Acc(r).exists /\ Append1(Op(r).acc, RevertTx(r))
        /\ Goto(r, "takeBack") /\ Only({"accounts"})
     \/ (Acc(r).exists => IoFault) /\ Alarm(r) /\ Only({})

(* removeFromInventory: a failure is swallowed and the item stays. *)
TakeOut(p) ==
  \/ inventory' = [inventory EXCEPT !.items = @ \ {p}]
  \/ IoFault /\ UNCHANGED inventory

(* Take the item out again; a lost race on the nonce is then replayed. *)
TakeBack(r) ==
  /\ Is(r, "purchase", "takeBack")
  /\ TakeOut(r)
  /\ IF req[r].why = "replayed" THEN Goto(r, "replay") ELSE Finish(r, req[r].why)
  /\ Only({"inventory"})

-----------------------------------------------------------------------------
(* refund: the purchase is read, then flipped and credited. *)
Bought(r) == purchases[Op(r).purchase]
Payer(r) == accounts[Bought(r).acc]

RefundRead(r) ==
  /\ Is(r, "refund", "start") /\ Only({})
  /\ \/ Bought(r).status = "none" /\ Finish(r, "not_found")
     \/ Bought(r).status = "refunded" /\ Finish(r, "conflict")
     \/ Bought(r).status = "active" /\ Goto(r, IF ReplicaSet THEN "tx" ELSE "flip")

SetStatus(p, status) == purchases' = [purchases EXCEPT ![p].status = status]

CreditIn(r) ==
  IF Bought(r).paid > 0 THEN Append1(Bought(r).acc, CreditTx(r))
  ELSE UNCHANGED accounts

(* Mutant: markRefundedIfActive by _id alone, as before RC-E2. *)
AnyStatus(r) == TRUE

StillActive(r) == Bought(r).status = "active"

RefundTx(r) ==
  /\ Is(r, "refund", "tx")
  /\ \/ ~StillActive(r) /\ Finish(r, "conflict") /\ Only({})
     \/ StillActive(r) /\ Bought(r).paid > 0 /\ ~Payer(r).exists
        /\ Finish(r, "not_found") /\ Only({})
     \/ /\ StillActive(r) /\ (Bought(r).paid > 0 => Payer(r).exists)
        /\ SetStatus(Op(r).purchase, "refunded") /\ CreditIn(r)
        /\ Goto(r, "takeBack") /\ Only({"accounts", "purchases"})

(* refundSequentialFallback: flip, credit, flip back if the credit fails. *)
RefundFlip(r) ==
  /\ Is(r, "refund", "flip")
  /\ IF StillActive(r)
     THEN SetStatus(Op(r).purchase, "refunded") /\ Goto(r, "credit")
          /\ Only({"purchases"})
     ELSE Finish(r, "conflict") /\ Only({})

RefundCredit(r) ==
  /\ Is(r, "refund", "credit")
  /\ \/ /\ Bought(r).paid > 0 => Payer(r).exists
        /\ CreditIn(r) /\ Goto(r, "takeBack") /\ Only({"accounts"})
     \/ /\ Bought(r).paid > 0 /\ (~Payer(r).exists \/ IoFault)
        /\ Goto(r, "unflip") /\ Only({})

(* Mutant: the flip is not taken back. *)
RefundLeftFlipped(r) == Is(r, "refund", "unflip") /\ Finish(r, "failed") /\ Only({})

(* markActiveIfRefunded, whose failure is swallowed. *)
RefundUnflip(r) ==
  /\ Is(r, "refund", "unflip") /\ Only({"purchases"})
  /\ \/ /\ IF Bought(r).status = "refunded"
           THEN SetStatus(Op(r).purchase, "active") ELSE UNCHANGED purchases
        /\ Finish(r, "failed")
     \/ IoFault /\ UNCHANGED purchases /\ Finish(r, "stranded")

(* The item goes last and tolerantly: it may be gone already. *)
RefundItem(r) ==
  /\ Is(r, "refund", "takeBack")
  /\ TakeOut(Op(r).purchase)
  /\ Finish(r, "ok") /\ Only({"inventory"})

-----------------------------------------------------------------------------
(***************************************************************************)
(* The other operations on the account, atomic as CharacterAccounts shows, *)
(* and a player who saves the inventory as the client loaded it before.    *)
(***************************************************************************)
AccountOp(r, kind, allowed, doc) ==
  /\ Is(r, kind, "start")
  /\ \/ allowed /\ Put(Op(r).acc, doc) /\ Finish(r, "ok") /\ Only({"accounts"})
     \/ ~allowed /\ Finish(r, "refused") /\ Only({})

NextStamp(r) == Acc(r).stamp + 1

AdjustAccount(r) ==
  AccountOp(r, "adjust", Acc(r).exists,
    AppendTransaction(Acc(r), PlainTx(<<r, "adjust">>, Op(r).amount), NextStamp(r)))

UndoAccount(r) ==
  AccountOp(r, "undo",
    Acc(r).exists /\ Acc(r).txs # << >> /\ ~Linked(Last(Acc(r).txs)),
    UndoLast(Acc(r), Acc(r), NextStamp(r)))

ConvertAccount(r) ==
  AccountOp(r, "convert",
    /\ Acc(r).exists /\ Acc(r).currency # Op(r).currency
    /\ Rate[Acc(r).currency] > 0 /\ Rate[Op(r).currency] > 0,
    ReplaceMoneyFields(Acc(r), Recomputed(Acc(r), Op(r).currency), NextStamp(r)))

ForbidSelfAdjust(r) ==
  AccountOp(r, "settings", Acc(r).exists,
    [Acc(r) EXCEPT !.selfAdjust = FALSE, !.stamp = @ + 1])

DeleteAccount(r) ==
  AccountOp(r, "delete", Acc(r).exists,
    [Acc(r) EXCEPT !.exists = FALSE, !.txs = << >>, !.balance = 0, !.stamp = 0])

LoadInventory(r) ==
  /\ Is(r, "edit", "start") /\ inventory.exists
  /\ req' = [req EXCEPT ![r].pc = "save", ![r].copy = inventory]
  /\ Only({})

SaveInventory(r) ==
  /\ Is(r, "edit", "save")
  /\ inventory' = req[r].copy
  /\ Finish(r, "ok") /\ Only({"inventory"})

-----------------------------------------------------------------------------
Crash(r) ==
  /\ "crash" \in Faults /\ req[r].pc \notin {"start", "done"}
  /\ Finish(r, "crashed") /\ Only({})

Step(r) ==
  \/ PurchaseReplay(r) \/ PurchaseGate(r) \/ PurchaseInventory(r)
  \/ CreateInventory(r) \/ PurchaseTx(r) \/ ReplayWinner(r)
  \/ PushItem(r) \/ PushSection(r) \/ PushAgain(r) \/ Debit(r)
  \/ ReadBalance(r) \/ CreateLog(r) \/ RevertGate(r) \/ Revert(r) \/ TakeBack(r)
  \/ RefundRead(r) \/ RefundTx(r) \/ RefundFlip(r) \/ RefundCredit(r)
  \/ RefundUnflip(r) \/ RefundItem(r)
  \/ AdjustAccount(r) \/ UndoAccount(r) \/ ConvertAccount(r)
  \/ ForbidSelfAdjust(r) \/ DeleteAccount(r) \/ LoadInventory(r)
  \/ SaveInventory(r)

Next == \E r \in Requests : Step(r) \/ Crash(r)

Spec == Init /\ [][Next]_vars

FairSpec == Spec /\ \A r \in Requests : WF_vars(Step(r))

-----------------------------------------------------------------------------
(* Invariants *)

(* Documents and requests have their shape. *)
TypeOK ==
  /\ accounts \in [Accounts -> Account]
  /\ purchases \in [PurchaseIds -> Purchase]
  /\ inventory \in Inventory
  /\ req \in [Requests -> [op: Operations, pc: Places, paid: Nat, why: Answers,
                           copy: Inventory, answer: Answers, alarm: BOOLEAN]]

Purchases == {r \in Requests : Op(r).kind = "purchase"}
Refunds == {r \in Requests : Op(r).kind = "refund"}

HasTx(a, r, leg) == <<r, leg>> \in TxsById(accounts[a])

(* The request ended on its own, with no compensation of it left undone. *)
Settled(r) ==
  /\ req[r].pc = "done" /\ req[r].answer \notin {"crashed", "stranded"}
  /\ ~req[r].alarm

Paid(r) == HasTx(Op(r).acc, r, "debit") /\ ~HasTx(Op(r).acc, r, "revert")

(***************************************************************************)
(* runPurchaseSteps: "the debit and the purchase log are committed only    *)
(* together", whoever crashes, in every state.                             *)
(***************************************************************************)
MoneyMatchesLog ==
  \A r \in Purchases : Acc(r).exists =>
    (HasTx(Op(r).acc, r, "debit") <=> Logged(r) /\ purchases[r].paid > 0)

(***************************************************************************)
(* The same for the fallback, once a request has ended by itself: money    *)
(* taken and not given back if and only if the purchase is in the log.     *)
(***************************************************************************)
MoneySettled ==
  \A r \in Purchases : Settled(r) /\ Acc(r).exists =>
    (Paid(r) <=> Logged(r) /\ purchases[r].paid > 0)

(***************************************************************************)
(* D-PURCHASE-IDEMPOTENCY: purchases of one buyer with one nonce, sent     *)
(* again and overlapping, are paid once.                                   *)
(***************************************************************************)
PaidOnce ==
  \A q, r \in Purchases :
    /\ q # r /\ Op(q).nonce = Op(r).nonce /\ Op(q).acc = Op(r).acc
    /\ Settled(q) /\ Settled(r) /\ Paid(q) /\ Paid(r)
    => Op(q).nonce = NoNonce

(* RC-E2: of the refunds of one purchase at most one credits the account. *)
RefundCreditedOnce ==
  \A q, r \in Refunds : q # r /\ Op(q).purchase = Op(r).purchase =>
    ~(HasTx(Bought(q).acc, q, "credit") /\ HasTx(Bought(r).acc, r, "credit"))

RefundsOf(p) == {r \in Refunds : Op(r).purchase = p}

(***************************************************************************)
(* The compensation of the fallback: a purchase is left refunded only with *)
(* its money back, unless a refund of it died in between (the residue the  *)
(* comment admits) or could not flip the status back.                      *)
(***************************************************************************)
RefundSettled ==
  \A p \in PurchaseIds :
    /\ purchases[p].status = "refunded" /\ purchases[p].paid > 0
    /\ accounts[purchases[p].acc].exists
    /\ \A r \in RefundsOf(p) : Settled(r)
    => \E r \in RefundsOf(p) : HasTx(purchases[p].acc, r, "credit")

(***************************************************************************)
(* DUR: a refunded purchase whose money did not come back is a permanent   *)
(* loss; it must not exist, whatever else happens on the account.          *)
(***************************************************************************)
RefundedHasMoney ==
  \A p \in PurchaseIds :
    /\ purchases[p].status = "refunded" /\ purchases[p].paid > 0
    /\ accounts[purchases[p].acc].exists
    => \E r \in RefundsOf(p) : HasTx(purchases[p].acc, r, "credit")

(***************************************************************************)
(* RC-E4: concurrent purchases do not overwrite each other's item, as long *)
(* as no client saves a copy of the inventory it loaded before.            *)
(***************************************************************************)
NoEdit == \A r \in Requests : Op(r).kind = "edit" => req[r].answer # "ok"

ItemsDelivered ==
  NoEdit => \A r \in Purchases :
    purchases[r].status = "active" => r \in inventory.items

=============================================================================
