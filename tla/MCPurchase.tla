------------------------------ MODULE MCPurchase ------------------------------
(***************************************************************************)
(* One account, one inventory and a few concurrent requests.               *)
(***************************************************************************)
EXTENDS CampaignPurchase

CONSTANTS a, r1, r2, r3, p0, n1, gold, silver, noNonce, noAccount

MCRate == (gold :> 1) @@ (silver :> 2)

MCTxIds == (Requests \X Legs) \cup {<<"seed", a>>, <<p0, "debit">>}

Opening == PlainTx(<<"seed", a>>, 6)

(* 6 paid in; p0 was bought for 2. *)
WithOldPurchase ==
  (a :> [exists |-> TRUE, currency |-> gold, balance |-> 4,
         txs |-> <<Opening, [Opening EXCEPT !.id = <<p0, "debit">>,
                                            !.delta = -2, !.origin = "purchase"]>>,
         income |-> 0, expense |-> 0, selfAdjust |-> TRUE, stamp |-> 1])

OldPurchase ==
  (p0 :> [status |-> "active", acc |-> a, paid |-> 2, nonce |-> noNonce])

OldInventory ==
  {[exists |-> TRUE, section |-> TRUE, items |-> {p0}]}

Fresh ==
  (a :> [exists |-> TRUE, currency |-> gold, balance |-> 6, txs |-> <<Opening>>,
         income |-> 0, expense |-> 0, selfAdjust |-> TRUE, stamp |-> 1])

NoPurchase == << >>

FreshInventories ==
  {NoInventory, [NoInventory EXCEPT !.exists = TRUE]}

Blank == [kind |-> "undo", acc |-> a, amount |-> 0, currency |-> gold,
          nonce |-> noNonce, staff |-> FALSE, purchase |-> r1]

Buy(amount, nonce) == [Blank EXCEPT !.kind = "purchase", !.amount = amount,
                                    !.nonce = nonce]
Refund(p) == [Blank EXCEPT !.kind = "refund", !.purchase = p]
Adjust(amount) == [Blank EXCEPT !.kind = "adjust", !.amount = amount]
On(kind) == [Blank EXCEPT !.kind = kind, !.currency = silver]

AllOperations ==
  {Buy(2, n1), Buy(3, noNonce), Buy(0, noNonce), Refund(p0), Refund(r1),
   Adjust(-2), On("undo"), On("convert"), On("settings"), On("delete"), On("edit")}

(* Everything but undo, which only a transaction makes safe. *)
CompensatedOperations ==
  {Buy(2, n1), [Buy(1, n1) EXCEPT !.currency = silver], Buy(0, noNonce),
   Refund(r1), Adjust(-2), On("convert"), On("settings"), On("delete"),
   On("edit")}

=============================================================================
