CONSTANTS
  MaxCombo = 2
  MaxSetup = 0
  MaxVersion = 1
  MaxEmbedded = 0
  Recipes = {r1}
  SetupRecipes = {p1}
  Advantages = {}
  NoAdvantage = NoAdvantage
  Users = {u1, u2}
  Taggers = {u1, u2}
  OppMoves = {}
  Workers = {}
SPECIFICATION Spec
CHECK_DEADLOCK FALSE
PROPERTY OtherUsersTagsSurviveSave
