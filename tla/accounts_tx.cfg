SPECIFICATION FairSpec
CONSTANTS
  a = a
  b = b
  r1 = r1
  r2 = r2
  r3 = r3
  n1 = n1
  gold = gold
  silver = silver
  noNonce = noNonce
  noAccount = noAccount
  Accounts = {a, b}
  Requests = {r1, r2, r3}
  Nonces = {n1}
  NoNonce = noNonce
  NoAccount = noAccount
  Currencies = {gold, silver}
  Rate <- MCRate
  TxIds <- MCTxIds
  InitialAccounts <- MCInitial
  Operations <- AllOperations
  ReplicaSet = TRUE
  SameMillisecond = FALSE
  Faults = {"crash"}
INVARIANTS BalanceIsSum
PROPERTIES HistoryKept KeepsPromise Termination
CHECK_DEADLOCK FALSE
