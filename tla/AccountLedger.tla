---------------------------- MODULE AccountLedger ----------------------------
(***************************************************************************)
(* One document of the `character_accounts' collection and the writes the  *)
(* repository can make to it.  Every operator below the record types is    *)
(* ONE MongoDB command, so it is atomic; the interleavings are the         *)
(* business of the modules that extend this one.                           *)
(*                                                                         *)
(* Money is a JavaScript number rounded to four decimals; here it is an    *)
(* integer number of ten-thousandths, so sums are exact.  Labels, notes    *)
(* and dates are left out.                                                 *)
(***************************************************************************)
EXTENDS Integers, Sequences, SequencesExt

CONSTANTS
  Accounts,        \* account documents' _id values
  TxIds,           \* transaction ids (randomUUID in the code)
  Currencies,      \* currency codes of the world
  Rate,            \* Rate[c]: the world's exchange rate of c, 0 when not set
  Nonces,          \* clientNonce values
  NoNonce, NoAccount

ASSUME LedgerAssumption ==
  /\ Currencies # {} /\ Rate \in [Currencies -> Nat]
  /\ NoNonce \notin Nonces
  /\ NoAccount \notin Accounts

-----------------------------------------------------------------------------
(***************************************************************************)
(* A transaction: `ref' is transferRef's counterparty, `origin' the marker *)
(* of a debit that paid a purchase.                                        *)
(***************************************************************************)
Tx == [id: TxIds, delta: Int, ref: Accounts \cup {NoAccount},
       origin: {"none", "purchase"}, nonce: Nonces \cup {NoNonce}]

(***************************************************************************)
(* An account.  `income' and `expense' are the sums of the monthly         *)
(* templates, `stamp' is updatedAt (mongoose timestamps: every write       *)
(* through the model moves it), `selfAdjust' is allowPlayerSelfAdjust.     *)
(***************************************************************************)
Account == [exists: BOOLEAN, currency: Currencies, balance: Int, txs: Seq(Tx),
            income: Nat, expense: Nat, selfAdjust: BOOLEAN, stamp: Nat]

PlainTx(id, delta) ==
  [id |-> id, delta |-> delta, ref |-> NoAccount, origin |-> "none",
   nonce |-> NoNonce]

(* Math.round of n/d: halves go towards plus infinity. *)
RoundDiv(n, d) == (2 * n + d) \div (2 * d)

(***************************************************************************)
(* The sum of the deltas, as a recursive function of the prefix length.    *)
(***************************************************************************)
SumDeltas(txs) ==
  LET sum[n \in 0..Len(txs)] == IF n = 0 THEN 0 ELSE sum[n-1] + txs[n].delta
  IN  sum[Len(txs)]

HasNonce(acc, nonce) == \E i \in DOMAIN acc.txs : acc.txs[i].nonce = nonce

TxsById(acc) == {acc.txs[i].id : i \in DOMAIN acc.txs}

-----------------------------------------------------------------------------
(* appendTransaction: $push and $inc in one command; needs the document. *)
AppendTransaction(acc, tx, stamp) ==
  [acc EXCEPT !.txs = Append(@, tx), !.balance = @ + tx.delta, !.stamp = stamp]

(* Mutants: the filter without one of its conditions. *)
SufficientAnyNonce(acc, required, guardNonce) ==
  acc.exists /\ acc.balance >= required
(***************************************************************************)
(* The filter of appendTransactionIfSufficient: the document exists, the   *)
(* balance covers the debit and, when a guard nonce is given, no           *)
(* transaction of the account carries it.                                  *)
(***************************************************************************)
Sufficient(acc, required, guardNonce) ==
  /\ acc.exists
  /\ acc.balance >= required
  /\ guardNonce # NoNonce => ~HasNonce(acc, guardNonce)

(* clearTransactionNonce: $unset the nonce of the transaction with this id. *)
ClearTransactionNonce(acc, id, stamp) ==
  [acc EXCEPT
     !.txs = [i \in DOMAIN @ |->
                IF @[i].id = id THEN [@[i] EXCEPT !.nonce = NoNonce] ELSE @[i]],
     !.stamp = stamp]

(* Amounts of an account kept in currency `from', recomputed in `to'. *)
Recompute(amount, from, to) == RoundDiv(amount * Rate[from], Rate[to])

RecomputeTxs(txs, from, to) ==
  [i \in DOMAIN txs |-> [txs[i] EXCEPT !.delta = Recompute(@, from, to)]]

(* Mutant: the balance is converted on its own, so it is rounded on its own. *)
RecomputedApart(read, to) ==
  [currency |-> to,
   txs      |-> RecomputeTxs(read.txs, read.currency, to),
   balance  |-> Recompute(read.balance, read.currency, to),
   income   |-> Recompute(read.income, read.currency, to),
   expense  |-> Recompute(read.expense, read.currency, to)]

(***************************************************************************)
(* What changeCurrency computes from the document it read and              *)
(* replaceMoneyFields then sets: the currency and every amount.            *)
(***************************************************************************)
Recomputed(read, to) ==
  LET txs == RecomputeTxs(read.txs, read.currency, to)
  IN [currency |-> to,
      txs      |-> txs,
      balance  |-> IF txs # << >> THEN SumDeltas(txs)
                   ELSE Recompute(read.balance, read.currency, to),
      income   |-> Recompute(read.income, read.currency, to),
      expense  |-> Recompute(read.expense, read.currency, to)]

ReplaceMoneyFields(acc, fields, stamp) ==
  [acc EXCEPT !.currency = fields.currency, !.txs = fields.txs,
              !.balance = fields.balance, !.income = fields.income,
              !.expense = fields.expense, !.stamp = stamp]

(* The filter of replaceMoneyFields, the optimistic lock of RC-E7. *)
Unchanged(acc, expectedStamp) == acc.exists /\ acc.stamp = expectedStamp

-----------------------------------------------------------------------------
(***************************************************************************)
(* undoLastOnce: refused when the last transaction has a counterpart       *)
(* (another account or a purchase); the write sets the whole list and the  *)
(* balance from the document that was read.                                *)
(***************************************************************************)
Linked(tx) == tx.ref # NoAccount \/ tx.origin = "purchase"

UndoLast(acc, read, stamp) ==
  [acc EXCEPT !.txs = Front(read.txs),
              !.balance = read.balance - Last(read.txs).delta,
              !.stamp = stamp]

(* The stored balance is the sum of the history (RC-E7, D-SEC-GAP). *)
BalanceMatches(acc) == acc.balance = SumDeltas(acc.txs)

=============================================================================
