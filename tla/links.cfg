CONSTANTS
  MaxCombo = 2
  MaxSetup = 2
  MaxVersion = 2
  MaxEmbedded = 1
  Recipes = {r1}
  SetupRecipes = {p1, p2}
  Advantages = {}
  NoAdvantage = NoAdvantage
  Users = {u1}
  Taggers = {}
  OppMoves = {}
  Workers = {w1}
SPECIFICATION Spec
CHECK_DEADLOCK FALSE
CONSTRAINT OneStory
SYMMETRY RecipeSymmetry
INVARIANT ReferencesHold
PROPERTY HiddenLinksSurvive KeyChangeCarries SetupsAreRecoverable NoNewSetupTwins
