SPECIFICATION SpecLists
CONSTANTS
  Screens = {"punish"}
  TrashIds = {1, 2}
  CharacterOf <- AllOfRyu
  ResolvedCharacter = "ryu"
  PunishBases = {"a"}
  Finished = {"d", "j"}
  HitOf <- Hits
  PunishMoves = {"m"}
  Proposals <- Proposable
  Types = {"normal", "throw"}
  ChosenTypes = {"normal"}
  Typed = {2, 20}
  Shared <- ProposableElsewhere
  OkiCells = {"c"}
  First = 3
  Most = 4
  Order <- RyuFirst
  MoveOf <- Starters
  Ids = {1, 2, 3}
  TrainingStatuses = {"using", "training"}
  ListedAtMost = 2
  StatusRows = {1, 2}
  MaxChanges = 2
  Texts <- Pasted
  CodeOf <- Known
  Files <- ComboFiles
  SetupFiles <- SetupRows
  StoredRecipes <- Nothing
  Characters = {"ryu", "ken"}
  ActsInLists <- ActsOfLists
  OthersInLists <- OthersOfLists
PROPERTY ToldRegisteredIsRegistered
CHECK_DEADLOCK FALSE
