SPECIFICATION Spec
CONSTANTS
  r1 = r1
  r2 = r2
  r3 = r3
  gm = gm
  player = player
  pc = pc
  npc = npc
  new = new
  here = here
  there = there
  mark = mark
  orc = orc
  old = old
  fresh = fresh
  noCombat = noCombat
  noScene = noScene
  noPayload = noPayload
  noRequest = noRequest
  nothing = nothing
  Requests = {r1, r2, r3}
  Users = {gm, player}
  Staff = {gm}
  TokenIds = {pc, npc, new}
  Cells = {here, there}
  Names = {mark, orc}
  Values = {old, fresh}
  Drawable = fresh
  MaxHp = 4
  DiceLimit = 2
  InitialScene <- MCScene
  Plans <- MCPlans
  NoCombat = noCombat
  NoScene = noScene
  NoPayload = noPayload
  NoRequest = noRequest
  Nothing = nothing
  Faults = {"crash", "io"}
SYMMETRY Interchangeable
INVARIANTS SeqGapless AnswerTruthful HitsAddUp LogReplays
PROPERTIES InverseRestores
CHECK_DEADLOCK FALSE
