----------------------------- MODULE MCAccounts -----------------------------
(***************************************************************************)
(* Two accounts and a few concurrent requests for CharacterAccounts.       *)
(***************************************************************************)
EXTENDS CharacterAccounts

CONSTANTS a, b, r1, r2, r3, n1, gold, silver, noNonce, noAccount

(* Converting gold to silver halves the amounts, so halves get rounded. *)
MCRate == (gold :> 1) @@ (silver :> 2)

MCTxIds == (Requests \X Legs) \cup ({"seed"} \X Accounts)

(* An account opened with a deposit; `a' starts with 3, `b' with 2. *)
Opened(acc, amount) ==
  [exists |-> TRUE, currency |-> gold, balance |-> amount,
   txs |-> <<PlainTx(<<"seed", acc>>, amount)>>, income |-> 2, expense |-> 1,
   selfAdjust |-> acc = a, stamp |-> 1]

MCInitial == (a :> Opened(a, 3)) @@ (b :> Opened(b, 2))

Blank == [kind |-> "undo", acc |-> a, to |-> noAccount, amount |-> 0,
          nonce |-> noNonce, currency |-> gold, staff |-> FALSE,
          selfAdjust |-> FALSE, income |-> 1, expense |-> 2]

Transfer(from, to, amount, nonce) ==
  [Blank EXCEPT !.kind = "transfer", !.acc = from, !.to = to,
                !.amount = amount, !.nonce = nonce]
Adjust(acc, amount) == [Blank EXCEPT !.kind = "adjust", !.acc = acc,
                                     !.amount = amount]
ChangeTo(kind, acc, cur) == [Blank EXCEPT !.kind = kind, !.acc = acc,
                                          !.currency = cur]
On(kind, acc) == [Blank EXCEPT !.kind = kind, !.acc = acc]

(* Retried and crossing transfers against everything else. *)
AllOperations ==
  {Transfer(a, b, 2, n1), Transfer(b, a, 2, noNonce), Adjust(a, -2),
   Adjust(b, 1), On("undo", a), ChangeTo("convert", a, silver),
   ChangeTo("relabel", b, silver), On("delete", b), On("monthly", a),
   On("settings", a), On("content", a)}

(* Everything but undo, which only a transaction makes safe. *)
CompensatedOperations == AllOperations \ {On("undo", a)}

ConvertOperations ==
  {Transfer(a, b, 2, n1), Adjust(a, 1), ChangeTo("convert", a, silver)}

=============================================================================
