SPECIFICATION Spec
CONSTANTS
  desk = desk
  phone = phone
  r1 = r1
  r2 = r2
  r3 = r3
  Nothing = Nothing
  Browsers = {desk, phone}
  Requests = {r1, r2, r3}
  Plans <- MCPlans
  Beginnings <- MCBeginnings
  MaxRestarts = 1
INVARIANTS RedeemedOnce EndedStaysEnded
 
SYMMETRY MCLater
CHECK_DEADLOCK FALSE
