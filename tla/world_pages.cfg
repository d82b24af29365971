SPECIFICATION Spec
CONSTANTS
  r1 = r1
  r2 = r2
  r3 = r3
  hero = hero
  squire = squire
  purse = purse
  sheet = sheet
  note = note
  Heroes = Heroes
  Squires = Squires
  Notes = Notes
  Nobody = Nobody
  Requests = {r1, r2, r3}
  Bases = {Heroes, Squires, Notes}
  AccountLimit = 2
  MaxFaults = 1
  Plans <- MCPlans
SYMMETRY MCAlike
INVARIANTS OrphanExplained OwnershipExplained AccountLimitExplained CreateAllOrNothing OneEditPerVersion ReferenceExplained
CHECK_DEADLOCK FALSE
