CONSTANTS
  Combos = {c1, c2}
  Setups = {s1}
  Shown = {c1}
  Recipes = {x, y}
  Users = {u1}
  Nobody = Nobody
  Names = {n1}
  NoName = NoName
  NoRow = NoRow
  NBuiltin = 1
  Limit = 2
  MaxPreset = 2
  MaxEdit = 1
  Workers = {w1, w2}
SPECIFICATION Spec
CONSTRAINT OneUnread
SYMMETRY ItemSymmetry
INVARIANT TypeOK FreshUnlessOwed NoOrphanTexts TextsOfPresentSteps
