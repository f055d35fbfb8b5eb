CONSTANTS
  MaxCombo = 1
  MaxSetup = 0
  MaxVersion = 3
  MaxEmbedded = 0
  Recipes = {r1}
  SetupRecipes = {p1}
  Advantages = {k1}
  NoAdvantage = NoAdvantage
  Users = {u1, u2}
  Taggers = {}
  OppMoves = {}
  Workers = {}
SPECIFICATION Spec
CHECK_DEADLOCK FALSE
PROPERTY NoLostUpdates
