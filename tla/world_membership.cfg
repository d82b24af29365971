SPECIFICATION WorldSpec
CONSTANTS
  o = o
  h = h
  p = p
  s = s
  admin = admin
  r1 = r1
  r2 = r2
  r3 = r3
  toS = toS
  link = link
  seed = seed
  Users = {o, h, p, s, admin}
  Requests = {r1, r2, r3}
  Plans <- MCPlans
  OldInvites = {toS, link}
  Admins = {admin}
  Beginnings <- MCBeginnings
  Crashes = TRUE
  Seed = seed
SYMMETRY Interchangeable
INVARIANTS GhostExplained PlayersCounted
PROPERTIES ApplicantKept
CHECK_DEADLOCK FALSE
