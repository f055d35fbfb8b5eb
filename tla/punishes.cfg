CONSTANTS
  MaxCombo = 3
  MaxSetup = 0
  MaxVersion = 1
  MaxEmbedded = 0
  Recipes = {r1}
  SetupRecipes = {p1}
  Advantages = {k1}
  NoAdvantage = NoAdvantage
  Users = {u1}
  Taggers = {}
  OppMoves = {m1}
  Workers = {w1, w2}
SPECIFICATION Spec
CHECK_DEADLOCK FALSE
SYMMETRY WorkerSymmetry
CONSTRAINT OneAdoption
INVARIANT ReferencesHold
PROPERTY NoNewTwins
