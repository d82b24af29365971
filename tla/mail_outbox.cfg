SPECIFICATION FairSpec
CONSTANTS
  reset = reset
  other = other
  c1 = c1
  c2 = c2
  noMail = noMail
  noRun = noRun
  Mails = {reset, other}
  Waiting = {other}
  HighPriority = {reset}
  Rank <- MCRank
  Runs = {c1, c2}
  NoMail = noMail
  NoRun = noRun
  BatchSize = 2
  MaxAttempts = 2
  DailyCap = 1
  AttemptMax = 2
  Lease = 3
  LockTtl = 4
  Backoff <- MCBackoff
  DayLength = 4
  Margin = 1
  Faults = {"crash", "db", "redis", "timeout"}
  MaxFaults = 1
INVARIANTS LockExcludes DuplicateExplained
PROPERTIES OutcomeFinal CapHeld Settled
CHECK_DEADLOCK FALSE
