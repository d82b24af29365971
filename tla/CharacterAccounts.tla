-------------------------- MODULE CharacterAccounts --------------------------
(***************************************************************************)
(* CharacterAccountsService: the HTTP operations that move money on the    *)
(* accounts of characters, run concurrently by the requests of Requests.   *)
(* Each action is one MongoDB round trip of one request, i.e. what happens *)
(* between two `await's; a request's local variables are in req[r].        *)
(*                                                                         *)
(* ReplicaSet says whether `connection.startSession().withTransaction'     *)
(* works.  If it does, undo and transfer evaluate their callback on a      *)
(* snapshot and commit only when no document they write has changed since  *)
(* (WiredTiger's write conflict; the driver then runs the callback again). *)
(* If it does not, the service falls back to one command after another     *)
(* with compensation.                                                      *)
(***************************************************************************)
EXTENDS AccountLedger, FiniteSets

CONSTANTS
  Requests,         \* HTTP requests in flight
  Operations,       \* the operations they may ask for, a subset of Operation
  InitialAccounts,  \* the documents at the start
  ReplicaSet,       \* transactions are available
  SameMillisecond,  \* two writes may carry the same updatedAt
  Faults            \* subset of {"crash", "io"}

Legs == {"single", "out", "in", "revert"}

Operation == [kind: {"adjust", "monthly", "undo", "relabel", "convert",
                     "settings", "content", "delete", "transfer"},
              acc: Accounts, to: Accounts \cup {NoAccount}, amount: Int,
              nonce: Nonces \cup {NoNonce}, currency: Currencies,
              staff: BOOLEAN, selfAdjust: BOOLEAN, income: Nat, expense: Nat]

IsTransfer(op) == op.kind = "transfer"

ASSUME AccountsAssumption ==
  /\ InitialAccounts \in [Accounts -> Account]
  /\ \A a \in Accounts : BalanceMatches(InitialAccounts[a])
  /\ \A a \in Accounts : \A i \in DOMAIN InitialAccounts[a].txs :
       LET tx == InitialAccounts[a].txs[i]
       IN tx.nonce = NoNonce /\ tx.id \notin Requests \X Legs
  /\ Operations \subseteq Operation
  /\ \A op \in Operations : IsTransfer(op) =>
       op.to \in Accounts /\ op.to # op.acc /\ op.amount > 0
  /\ Requests \X Legs \subseteq TxIds
  /\ ReplicaSet \in BOOLEAN /\ SameMillisecond \in BOOLEAN
  /\ Faults \subseteq {"crash", "io"}

VARIABLES
  accounts,   \* the collection
  req         \* each request's program counter and local variables

vars == <<accounts, req>>

Answers == {"none", "ok", "replayed", "not_found", "refused", "insufficient",
            "conflict", "failed", "repair", "crashed", "unheard"}

Places == {"start", "append", "read", "write", "readTo", "begin", "commit",
           "debit", "credit", "clear", "revert", "lost", "replay", "replayTo",
           "answer", "done"}

(* A document that is not there; its fields are never looked at. *)
Gone == [exists |-> FALSE, currency |-> CHOOSE c \in Currencies : TRUE,
         balance |-> 0, txs |-> << >>, income |-> 0, expense |-> 0,
         selfAdjust |-> FALSE, stamp |-> 0]

NoSnapshot == [a \in Accounts |-> Gone]

Init ==
  /\ accounts = InitialAccounts
  /\ req \in [Requests -> [op: Operations, pc: {"start"}, delta: {0},
                           snap: {NoSnapshot}, answer: {"none"}]]

-----------------------------------------------------------------------------
Op(r) == req[r].op
Source(r) == accounts[Op(r).acc]       \* the account named in the URL
Target(r) == accounts[Op(r).to]
At(r, place) == req[r].pc = place

Goto(r, place) == req' = [req EXCEPT ![r].pc = place]

Finish(r, answer) ==
  req' = [req EXCEPT ![r].pc = "done", ![r].answer = answer,
                     ![r].snap = NoSnapshot, ![r].delta = 0]

(* Go on to `place' remembering the documents of `names' as they are now. *)
Remember(r, names, place) ==
  req' = [req EXCEPT ![r].pc = place,
            ![r].snap = [a \in Accounts |->
                           IF a \in names THEN accounts[a] ELSE @[a]]]

(* new Date() at the moment of the write, relative to the last one. *)
Stamps(acc) ==
  IF SameMillisecond THEN {acc.stamp, acc.stamp + 1} ELSE {acc.stamp + 1}

Put(a, doc) == accounts' = [accounts EXCEPT ![a] = doc]

(* A request that ends without a write. *)
Reject(r, answer) == Finish(r, answer) /\ UNCHANGED accounts

(* The answer of a snapshot that is no longer current: run the tx again. *)
Conflict(r, names) == \E a \in names : accounts[a] # req[r].snap[a]

OutTx(r) == [id |-> <<r, "out">>, delta |-> -Op(r).amount, ref |-> Op(r).to,
             origin |-> "none", nonce |-> Op(r).nonce]
InTx(r) == [id |-> <<r, "in">>, delta |-> Op(r).amount, ref |-> Op(r).acc,
            origin |-> "none", nonce |-> NoNonce]
RevertTx(r) == [id |-> <<r, "revert">>, delta |-> Op(r).amount,
                ref |-> Op(r).to, origin |-> "none", nonce |-> NoNonce]

-----------------------------------------------------------------------------
(***************************************************************************)
(* adjust, undo: assertCanAdjust.  The requester is staff, or an owner of  *)
(* the account (ownership is AccountOwnership's subject) whom the account  *)
(* lets adjust its balance.                                                *)
(***************************************************************************)
MayAdjust(acc, op) == op.staff \/ acc.selfAdjust

Gate(r, place) ==
  /\ At(r, "start")
  /\ \/ ~Source(r).exists /\ Reject(r, "not_found")
     \/ Source(r).exists /\ ~MayAdjust(Source(r), Op(r)) /\ Reject(r, "refused")
     \/ /\ Source(r).exists /\ MayAdjust(Source(r), Op(r))
        /\ req' = [req EXCEPT ![r].pc = place, ![r].delta = Op(r).amount]
        /\ UNCHANGED accounts

AdjustGate(r) == Op(r).kind = "adjust" /\ Gate(r, "append")

(* addMonthly reads the templates and computes the delta from them. *)
MonthlyRead(r) ==
  /\ Op(r).kind = "monthly" /\ At(r, "start")
  /\ \/ ~Source(r).exists /\ Reject(r, "not_found")
     \/ /\ Source(r).exists
        /\ req' = [req EXCEPT ![r].pc = "append",
                              ![r].delta = Source(r).income - Source(r).expense]
        /\ UNCHANGED accounts

(* The appendTransaction that ends adjust and addMonthly. *)
AppendStep(r) ==
  /\ At(r, "append")
  /\ \/ ~Source(r).exists /\ Reject(r, "not_found")
     \/ /\ Source(r).exists
        /\ \E s \in Stamps(Source(r)) :
             Put(Op(r).acc, AppendTransaction(Source(r),
                              PlainTx(<<r, "single">>, req[r].delta), s))
        /\ Finish(r, "ok")

-----------------------------------------------------------------------------
UndoGate(r) == Op(r).kind = "undo" /\ Gate(r, "read")

(* undoLastOnce up to its write. *)
UndoRead(r) ==
  /\ Op(r).kind = "undo" /\ At(r, "read")
  /\ UNCHANGED accounts
  /\ \/ ~Source(r).exists /\ Finish(r, "not_found")
     \/ Source(r).exists /\ Source(r).txs = << >> /\ Finish(r, "ok")
     \/ /\ Source(r).exists /\ Source(r).txs # << >>
        /\ \/ Linked(Last(Source(r).txs)) /\ Finish(r, "conflict")
           \/ /\ ~Linked(Last(Source(r).txs))
              /\ Remember(r, {Op(r).acc}, "write")

(***************************************************************************)
(* In a transaction the write commits only on the document that was read;  *)
(* without one it is findByIdAndUpdate by _id alone.                       *)
(***************************************************************************)
UndoRetry(r) ==
  /\ Op(r).kind = "undo" /\ At(r, "write")
  /\ ReplicaSet /\ Conflict(r, {Op(r).acc})
  /\ Goto(r, "read") /\ UNCHANGED accounts

UndoMayWrite(r) == ReplicaSet => ~Conflict(r, {Op(r).acc})

UndoWrite(r) ==
  /\ Op(r).kind = "undo" /\ At(r, "write") /\ UndoMayWrite(r)
  /\ IF Source(r).exists
     THEN \E s \in Stamps(Source(r)) :
            Put(Op(r).acc, UndoLast(Source(r), req[r].snap[Op(r).acc], s))
     ELSE UNCHANGED accounts
  /\ Finish(r, "ok")

-----------------------------------------------------------------------------
(* changeCurrency reads the account (getAccount) and returns early. *)
CurrencyRead(r) ==
  /\ Op(r).kind \in {"relabel", "convert"} /\ At(r, "start")
  /\ UNCHANGED accounts
  /\ \/ ~Source(r).exists /\ Finish(r, "not_found")
     \/ Source(r).exists /\ Source(r).currency = Op(r).currency /\ Finish(r, "ok")
     \/ /\ Source(r).exists /\ Source(r).currency # Op(r).currency
        /\ \/ Op(r).kind = "relabel" /\ Goto(r, "write")
           \/ /\ Op(r).kind = "convert"
              /\ Rate[Source(r).currency] = 0 \/ Rate[Op(r).currency] = 0
              /\ Finish(r, "refused")
           \/ /\ Op(r).kind = "convert"
              /\ Rate[Source(r).currency] > 0 /\ Rate[Op(r).currency] > 0
              /\ Remember(r, {Op(r).acc}, "write")

(* convert:false writes the code of the currency and nothing else. *)
RelabelWrite(r) ==
  /\ Op(r).kind = "relabel" /\ At(r, "write")
  /\ \/ ~Source(r).exists /\ Reject(r, "not_found")
     \/ /\ Source(r).exists
        /\ \E s \in Stamps(Source(r)) :
             Put(Op(r).acc, [Source(r) EXCEPT !.currency = Op(r).currency,
                                              !.stamp = s])
        /\ Finish(r, "ok")

(* Mutant: replaceMoneyFields by _id alone, as before RC-E7. *)
ConvertBlindly(r) == Source(r).exists

(* convert:true replaces every amount, if updatedAt is still the same. *)
ConvertLock(r) == Unchanged(Source(r), req[r].snap[Op(r).acc].stamp)

ConvertWrite(r) ==
  /\ Op(r).kind = "convert" /\ At(r, "write")
  /\ \/ ~ConvertLock(r)
        /\ Reject(r, IF Source(r).exists THEN "conflict" ELSE "not_found")
     \/ /\ ConvertLock(r)
        /\ \E s \in Stamps(Source(r)) :
             Put(Op(r).acc,
                 ReplaceMoneyFields(Source(r),
                   Recomputed(req[r].snap[Op(r).acc], Op(r).currency), s))
        /\ Finish(r, "ok")

(***************************************************************************)
(* PATCH account: settings ($set of the currency code and the flag) or     *)
(* content ($set of the monthly templates).  The access check's read       *)
(* decides nothing here: it fails only when the account is gone, which the *)
(* write reports as well.                                                  *)
(***************************************************************************)
SettingsWrite(r) ==
  /\ Op(r).kind = "settings" /\ At(r, "start")
  /\ \/ ~Source(r).exists /\ Reject(r, "not_found")
     \/ /\ Source(r).exists
        /\ \E s \in Stamps(Source(r)) :
             Put(Op(r).acc, [Source(r) EXCEPT !.currency = Op(r).currency,
                                              !.selfAdjust = Op(r).selfAdjust,
                                              !.stamp = s])
        /\ Finish(r, "ok")

ContentWrite(r) ==
  /\ Op(r).kind = "content" /\ At(r, "start")
  /\ \/ ~Source(r).exists /\ Reject(r, "not_found")
     \/ /\ Source(r).exists
        /\ \E s \in Stamps(Source(r)) :
             Put(Op(r).acc, [Source(r) EXCEPT !.income = Op(r).income,
                                              !.expense = Op(r).expense,
                                              !.stamp = s])
        /\ Finish(r, "ok")

(* deleteAccount: findById, then deleteOne by _id. *)
DeleteRead(r) ==
  /\ Op(r).kind = "delete" /\ At(r, "start")
  /\ \/ ~Source(r).exists /\ Reject(r, "not_found")
     \/ Source(r).exists /\ Goto(r, "write") /\ UNCHANGED accounts

DeleteWrite(r) ==
  /\ Op(r).kind = "delete" /\ At(r, "write")
  /\ Put(Op(r).acc, Gone)
  /\ Finish(r, "ok")

-----------------------------------------------------------------------------
(***************************************************************************)
(* transfer: the source, then the target are read outside any transaction; *)
(* existence, the currencies and a replay of the nonce are decided on      *)
(* these two reads.                                                        *)
(***************************************************************************)
TransferReadFrom(r) ==
  /\ IsTransfer(Op(r)) /\ At(r, "start")
  /\ Remember(r, {Op(r).acc}, "readTo")
  /\ UNCHANGED accounts

SameCurrency(from, to) == from.currency = to.currency

Spent(from, op) == op.nonce # NoNonce /\ HasNonce(from, op.nonce)

TransferReadTo(r) ==
  LET from == req[r].snap[Op(r).acc]
  IN
  /\ IsTransfer(Op(r)) /\ At(r, "readTo")
  /\ UNCHANGED accounts
  /\ \/ ~(from.exists /\ Target(r).exists) /\ Finish(r, "not_found")
     \/ /\ from.exists /\ Target(r).exists /\ ~SameCurrency(from, Target(r))
        /\ Finish(r, "refused")
     \/ /\ from.exists /\ Target(r).exists /\ SameCurrency(from, Target(r))
        /\ \/ Spent(from, Op(r)) /\ Goto(r, "replayTo")
           \/ /\ ~Spent(from, Op(r))
              /\ req' = [req EXCEPT ![r].pc = IF ReplicaSet THEN "begin"
                                              ELSE "debit",
                                    ![r].snap = NoSnapshot]

(* The transaction's callback, evaluated on the snapshot taken here. *)
TransferBegin(r) ==
  /\ At(r, "begin")
  /\ UNCHANGED accounts
  /\ LET covered == Sufficient(Source(r), Op(r).amount, Op(r).nonce)
     IN \/ ~covered /\ Spent(Source(r), Op(r)) /\ Goto(r, "replay")
        \/ ~covered /\ ~Spent(Source(r), Op(r)) /\ Finish(r, "insufficient")
        \/ covered /\ ~Target(r).exists /\ Finish(r, "not_found")
        \/ covered /\ Target(r).exists
           /\ Remember(r, {Op(r).acc, Op(r).to}, "commit")

(* Mutant: the retry commits the old snapshot once more. *)
TransferRetryStale(r) ==
  /\ At(r, "commit") /\ Conflict(r, {Op(r).acc, Op(r).to})
  /\ Goto(r, "commit") /\ UNCHANGED accounts

TransferRetry(r) ==
  /\ At(r, "commit") /\ Conflict(r, {Op(r).acc, Op(r).to})
  /\ Goto(r, "begin") /\ UNCHANGED accounts

TransferMayCommit(r) == ~Conflict(r, {Op(r).acc, Op(r).to})

(* Debit and credit become visible together. *)
TransferCommit(r) ==
  /\ At(r, "commit") /\ TransferMayCommit(r)
  /\ \E s \in Stamps(Source(r)), t \in Stamps(Target(r)) :
       accounts' = [accounts EXCEPT
                      ![Op(r).acc] = AppendTransaction(@, OutTx(r), s),
                      ![Op(r).to]  = AppendTransaction(@, InTx(r), t)]
  /\ req' = [req EXCEPT ![r].pc = "answer", ![r].snap = NoSnapshot]

(* endSession is awaited before the answer to a transfer that was made. *)
AnswerTransfer(r) ==
  /\ At(r, "answer")
  /\ Finish(r, "ok") /\ UNCHANGED accounts

-----------------------------------------------------------------------------
(* replayTransferByNonceId: the winner's debit, then its target. *)
ReplayRead(r) ==
  /\ At(r, "replay")
  /\ UNCHANGED accounts
  /\ \/ /\ Source(r).exists /\ HasNonce(Source(r), Op(r).nonce)
        /\ Remember(r, {Op(r).acc}, "replayTo")
     \/ /\ ~(Source(r).exists /\ HasNonce(Source(r), Op(r).nonce))
        /\ Finish(r, IF ReplicaSet THEN "failed" ELSE "insufficient")

(* replayTransferByNonce takes the target from the original transaction. *)
OriginalTarget(from, nonce) ==
  LET i == CHOOSE i \in DOMAIN from.txs :
             /\ from.txs[i].nonce = nonce
             /\ \A j \in 1..(i-1) : from.txs[j].nonce # nonce
  IN from.txs[i].ref

ReplayTo(r) ==
  LET to == OriginalTarget(req[r].snap[Op(r).acc], Op(r).nonce)
  IN
  /\ At(r, "replayTo")
  /\ UNCHANGED accounts
  /\ Finish(r, IF to \in Accounts /\ accounts[to].exists
               THEN "replayed" ELSE "not_found")

-----------------------------------------------------------------------------
(***************************************************************************)
(* transferSequentialFallback: debit, credit; when the credit fails, free  *)
(* the nonce, give the money back and report the failure.  With "io" in    *)
(* Faults a command of the compensated part may fail without an effect.    *)
(***************************************************************************)
IoFault == "io" \in Faults

TransferDebit(r) ==
  /\ At(r, "debit")
  /\ \/ /\ Sufficient(Source(r), Op(r).amount, Op(r).nonce)
        /\ \E s \in Stamps(Source(r)) :
             Put(Op(r).acc, AppendTransaction(Source(r), OutTx(r), s))
        /\ Goto(r, "credit")
     \/ /\ ~Sufficient(Source(r), Op(r).amount, Op(r).nonce)
        /\ UNCHANGED accounts
        /\ IF Op(r).nonce # NoNonce THEN Goto(r, "lost")
           ELSE Finish(r, "insufficient")

(* nonceAlreadyOnAccount after a debit that found nothing to update. *)
LostRace(r) ==
  /\ At(r, "lost")
  /\ UNCHANGED accounts
  /\ IF Source(r).exists /\ HasNonce(Source(r), Op(r).nonce)
     THEN Goto(r, "replay") ELSE Finish(r, "insufficient")

TransferCredit(r) ==
  /\ At(r, "credit")
  /\ \/ /\ Target(r).exists
        /\ \E s \in Stamps(Target(r)) :
             Put(Op(r).to, AppendTransaction(Target(r), InTx(r), s))
        /\ Goto(r, "answer")
     \/ /\ ~Target(r).exists \/ IoFault
        /\ Goto(r, IF Op(r).nonce # NoNonce THEN "clear" ELSE "revert")
        /\ UNCHANGED accounts

FreeNonce(r) ==
  /\ At(r, "clear")
  /\ \/ /\ Source(r).exists
        /\ \E s \in Stamps(Source(r)) :
             Put(Op(r).acc, ClearTransactionNonce(Source(r), <<r, "out">>, s))
     \/ (~Source(r).exists \/ IoFault) /\ UNCHANGED accounts
  /\ Goto(r, "revert")

(* Mutant: the failure is reported, the money is not given back. *)
TransferNotReverted(r) ==
  At(r, "revert") /\ Finish(r, "failed") /\ UNCHANGED accounts

(* "repair" is the answer "failed" with the log's request for manual repair. *)
TransferRevert(r) ==
  /\ At(r, "revert")
  /\ \/ /\ Source(r).exists
        /\ \E s \in Stamps(Source(r)) :
             Put(Op(r).acc, AppendTransaction(Source(r), RevertTx(r), s))
        /\ Finish(r, "failed")
     \/ ~Source(r).exists /\ Reject(r, "failed")
     \/ IoFault /\ Reject(r, "repair")

-----------------------------------------------------------------------------
(* The connection or the process dies; the driver aborts an open tx.  The  *)
(* client hears nothing: "unheard" is a transfer that was made.            *)
Crash(r) ==
  /\ "crash" \in Faults
  /\ req[r].pc \notin {"start", "done"}
  /\ Finish(r, IF At(r, "answer") THEN "unheard" ELSE "crashed")
  /\ UNCHANGED accounts

Step(r) ==
  \/ AdjustGate(r) \/ MonthlyRead(r) \/ AppendStep(r)
  \/ UndoGate(r) \/ UndoRead(r) \/ UndoRetry(r) \/ UndoWrite(r)
  \/ CurrencyRead(r) \/ RelabelWrite(r) \/ ConvertWrite(r)
  \/ SettingsWrite(r) \/ ContentWrite(r) \/ DeleteRead(r) \/ DeleteWrite(r)
  \/ TransferReadFrom(r) \/ TransferReadTo(r) \/ TransferBegin(r)
  \/ TransferRetry(r) \/ TransferCommit(r) \/ ReplayRead(r) \/ ReplayTo(r)
  \/ AnswerTransfer(r)
  \/ TransferDebit(r) \/ LostRace(r) \/ TransferCredit(r) \/ FreeNonce(r)
  \/ TransferRevert(r)

Next == \E r \in Requests : Step(r) \/ Crash(r)

Spec == Init /\ [][Next]_vars

(* The event loop runs every pending continuation. *)
FairSpec == Spec /\ \A r \in Requests : WF_vars(Step(r))

-----------------------------------------------------------------------------
(* Invariants *)

(* Every document and every request has its shape. *)
TypeOK ==
  /\ accounts \in [Accounts -> Account]
  /\ req \in [Requests -> [op: Operations, pc: Places, delta: Int,
                           snap: [Accounts -> Account], answer: Answers]]

(***************************************************************************)
(* The invariant RC-E7 and D-SEC-GAP are about: whatever runs concurrently, *)
(* also without transactions, the stored balance of every account is the   *)
(* sum of the deltas of its history.                                       *)
(***************************************************************************)
BalanceIsSum == \A a \in Accounts : BalanceMatches(accounts[a])

HasLeg(acc, r, leg) == <<r, leg>> \in TxsById(acc)

Transfers == {r \in Requests : IsTransfer(Op(r))}

(* q carried out the transfer r asked for: same source, same nonce. *)
SameIntent(q, r) ==
  Op(q).acc = Op(r).acc /\ Op(q).nonce = Op(r).nonce /\ Op(r).nonce # NoNonce

Moved(r) ==
  /\ HasLeg(Source(r), r, "out") /\ ~HasLeg(Source(r), r, "revert")
  /\ Target(r).exists => HasLeg(Target(r), r, "in")

(***************************************************************************)
(* The comment on the fallback's revert: freeing the nonce keeps a retry   *)
(* from getting a false "replayed".  When nothing is running any more,     *)
(* every request answered "replayed" has its money moved.                  *)
(***************************************************************************)
NoFalseReplay ==
  (\A r \in Requests : At(r, "done")) =>
    \A r \in Transfers : req[r].answer = "replayed" /\ Source(r).exists =>
      \E q \in Transfers : SameIntent(q, r) /\ Moved(q)

(***************************************************************************)
(* The sequential fallback: a failed transfer never credited its target,   *)
(* and gave back exactly what it took unless the log asks for repair.      *)
(***************************************************************************)
FailureCompensated ==
  \A r \in Transfers :
    /\ req[r].answer \in {"failed", "repair"} => ~HasLeg(Target(r), r, "in")
    /\ req[r].answer = "failed" /\ Source(r).exists =>
         (HasLeg(Source(r), r, "out") <=> HasLeg(Source(r), r, "revert"))

-----------------------------------------------------------------------------
(* Action properties *)

Ids(acc) == [i \in DOMAIN acc.txs |-> acc.txs[i].id]

Survives(a) == accounts[a].exists /\ accounts'[a].exists

(***************************************************************************)
(* No lost update (RC-E3, RC-E7): a step adds one transaction at the end   *)
(* of a history, takes the last one off, or keeps them all.                *)
(***************************************************************************)
HistoryStep(a) ==
  LET old == Ids(accounts[a])
      new == Ids(accounts'[a])
  IN \/ new = old
     \/ new # << >> /\ Front(new) = old
     \/ old # << >> /\ Front(old) = new

HistoryKept == [][\A a \in Accounts : Survives(a) => HistoryStep(a)]_vars

(***************************************************************************)
(* "Účty musí mít stejnou měnu": money moves only between accounts that    *)
(* are in the same currency when it moves.                                 *)
(***************************************************************************)
SameCurrencyMoves ==
  [][\A r \in Transfers :
       ~HasLeg(Target(r), r, "in") /\ HasLeg(Target(r)', r, "in")
         => SameCurrency(Source(r)', Target(r)')]_vars

-----------------------------------------------------------------------------
(***************************************************************************)
(* With transactions the service implements the promise of TransferPromise. *)
(* Requests that are no transfers are not answered there.                  *)
(***************************************************************************)
Carried(q) == q.pc = "answer" \/ q.answer \in {"ok", "unheard"}

PublicAnswer(r) ==
  IF ~IsTransfer(Op(r)) \/ req[r].answer \in {"none", "unheard"} THEN "none"
  ELSE IF req[r].answer \in {"ok", "replayed"} THEN req[r].answer ELSE "error"

Promise == INSTANCE TransferPromise WITH
  asked    <- [r \in Requests |-> [from |-> Op(r).acc, to |-> Op(r).to,
                                   nonce |-> Op(r).nonce]],
  open     <- {a \in Accounts : accounts[a].exists},
  debited  <- {r \in Transfers : HasLeg(Source(r), r, "out")},
  credited <- {r \in Transfers : HasLeg(Target(r), r, "in")},
  done     <- {r \in Transfers : Carried(req[r])},
  told     <- [r \in Requests |-> PublicAnswer(r)]

KeepsPromise == Promise!Spec

(***************************************************************************)
(* Every request is answered: transactions that lose a conflict are run    *)
(* again, and a conflict means that another request made progress.         *)
(***************************************************************************)
Termination == <>(\A r \in Requests : At(r, "done"))

=============================================================================
