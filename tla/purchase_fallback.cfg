SPECIFICATION Spec
CONSTANTS
  a = a
  r1 = r1
  r2 = r2
  r3 = r3
  p0 = p0
  n1 = n1
  gold = gold
  silver = silver
  noNonce = noNonce
  noAccount = noAccount
  Accounts = {a}
  Requests = {r1, r2, r3}
  Nonces = {n1}
  NoNonce = noNonce
  NoAccount = noAccount
  Currencies = {gold, silver}
  Rate <- MCRate
  TxIds <- MCTxIds
  InitialAccounts <- Fresh
  InitialPurchases <- NoPurchase
  InitialInventories <- FreshInventories
  OldPurchases = {}
  Operations <- CompensatedOperations
  ReplicaSet = FALSE
  Faults = {"crash", "io"}
INVARIANTS MoneySettled RefundSettled ItemsDelivered
CHECK_DEADLOCK FALSE
