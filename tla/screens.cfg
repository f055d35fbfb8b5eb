SPECIFICATION ScreensSpec
CONSTANTS
  MaxDepth = 5
  MaxMarks = 3
  ComboKeys = {"no_steps", "k1", "k2"}
  Twins = {"k1"}
  TypedMasses = {25, 26, 999}
  TypedPercents = {156, 1000}
  OkiKinds = {"throw"}
  FormTags = {"t1"}
  Catalogues <- Faces
  EntriesOf <- Index
  StateWords = {"denjin"}
  PlainFlags = {}
  OdFlags = {"od_lm"}
  Levers = {8}
  SetupMoves = {"m1", "m2"}
  SurfacedMoves = {"m1"}
  CategoryOf <- Categories
  MaxSteps = 2
  Cells = {"standing", "corner"}
  Notes = {"", "n"}
  ActsInForms <- ActsOfForms
  OthersInForms = 1
  Screens = {"trash", "punish", "suggestions", "lists", "import"}
  TrashIds = {1, 2}
  CharacterOf <- AllOfRyu
  ResolvedCharacter = "ryu"
  PunishBases = {"a"}
  Finished = {"d", "j"}
  HitOf <- Hits
  PunishMoves = {"m"}
  Proposals <- Proposable
  Types = {"normal", "throw"}
  ChosenTypes = {"normal"}
  Typed = {2, 20}
  Shared <- ProposableElsewhere
  OkiCells = {"c"}
  First = 3
  Most = 4
  Order <- RyuFirst
  MoveOf <- Starters
  Ids = {1, 2, 3}
  TrainingStatuses = {"using", "training"}
  ListedAtMost = 2
  StatusRows = {1, 2}
  MaxChanges = 2
  Texts <- Pasted
  CodeOf <- Known
  Files <- ComboFiles
  SetupFiles <- SetupRows
  StoredRecipes <- Nothing
  Characters = {"ryu", "ken"}
  ActsInLists <- ActsOfLists
  OthersInLists <- OthersOfLists
INVARIANTS
  CreatedOnce
  MassAgrees
  EntersWhatTheCharacterHas
  SetupMadeOnce
  BulkActsAsAgreed
  PunishListIsTrue
  AdoptionIsFaithful
  ListsAreHonest
  ImportKeepsItsRows
PROPERTIES
  LeavesExactlyWhenAgreed
  KeyReachesRow
  StatesSavedAsShown
  ReplacesOnlySeen
  EditorIsTrue
CHECK_DEADLOCK FALSE
