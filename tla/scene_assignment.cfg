SPECIFICATION FairSpec
CONSTANTS
  g = g
  a = a
  b = b
  x = x
  A = A
  B = B
  r1 = r1
  r2 = r2
  r3 = r3
  Nowhere = Nowhere
  Users = {g, a, b, x}
  PJs = {g}
  Scenes = {A, B}
  Posts = {r1, r2, r3}
  ScenePlans <- MCPlans
  Beginnings <- MCBeginnings
  Crashes = TRUE
INVARIANTS DanglingExplained LogTells
PROPERTIES DanglingSettled
CHECK_DEADLOCK FALSE
