SPECIFICATION Spec
CONSTANTS
  author = author
  player = player
  boss = boss
  r1 = r1
  r2 = r2
  r3 = r3
  old = old
  Nothing = Nothing
  Author = author
  Users = {author, player, boss}
  Requests = {r1, r2, r3}
  Workers = {w1, w2}
  Plans <- MCPlans
  Beginnings <- MCBeginnings
  MaxFaults = 1
SYMMETRY MCLater
INVARIANTS OrphanExplained RemovedStaysRemoved AccessExplained ScheduledOnce
CHECK_DEADLOCK FALSE
