SPECIFICATION Spec
CONSTANTS
  a = a
  r1 = r1
  r2 = r2
  r3 = r3
  p0 = p0
  n1 = n1
  gold = gold
  silver = silver
  noNonce = noNonce
  noAccount = noAccount
  Accounts = {a}
  Requests = {r1, r2, r3}
  Nonces = {n1}
  NoNonce = noNonce
  NoAccount = noAccount
  Currencies = {gold, silver}
  Rate <- MCRate
  TxIds <- MCTxIds
  InitialAccounts <- WithOldPurchase
  InitialPurchases <- OldPurchase
  InitialInventories <- OldInventory
  OldPurchases = {p0}
  Operations <- AllOperations
  ReplicaSet = TRUE
  Faults = {"crash"}
INVARIANTS MoneyMatchesLog PaidOnce RefundCreditedOnce
CHECK_DEADLOCK FALSE
