CONSTANTS
  MaxCombo = 3
  MaxSetup = 0
  MaxVersion = 2
  MaxEmbedded = 0
  Recipes = {r1}
  SetupRecipes = {p1}
  Advantages = {k1}
  NoAdvantage = NoAdvantage
  Users = {u1, u2}
  Taggers = {}
  OppMoves = {}
  Workers = {}
SPECIFICATION Spec
CHECK_DEADLOCK FALSE
CONSTRAINT OneKey
SYMMETRY UserSymmetry
INVARIANT PublishedIsComplete LockSoundUntilRefetch
PROPERTY NoNewTwins CombosAreRecoverable
