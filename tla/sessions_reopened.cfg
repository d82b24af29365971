SPECIFICATION Spec
CONSTANTS
  desk = desk
  phone = phone
  r1 = r1
  r2 = r2
  r3 = r3
  Nothing = Nothing
  Browsers = {desk, phone}
  Requests = {r1, r2, r3}
  Plans <- MCPlans
  Beginnings <- MCBeginnings
  MaxRestarts = 0
PROPERTIES ReopenedIsOpen
CHECK_DEADLOCK FALSE
