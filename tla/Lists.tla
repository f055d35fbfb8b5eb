-------------------------------- MODULE Lists --------------------------------
(***************************************************************************)
(* The lists of the front end, and what brings rows into them.  As in      *)
(* Forms, a behaviour is one tab that shows one of these screens.          *)
(***************************************************************************)
EXTENDS Page, Integers

CONSTANTS
  Screens,                                                             \* the screens of a run
  TrashIds, CharacterOf, ResolvedCharacter,                            \* Trash
  PunishBases, Finished, HitOf, PunishMoves,                           \* Punish
  Proposals, Types, ChosenTypes, Typed, Shared, OkiCells, First, Most, \* Suggestions
  Order, MoveOf, Ids, TrainingStatuses,
  ListedAtMost, StatusRows, MaxChanges,                                \* ComboLists
  Texts, CodeOf, Files, SetupFiles, StoredRecipes,                     \* Import
  Characters,                                                          \* Trash, Import
  ActsInLists,                                                         \* bound: doings of the user, by screen
  OthersInLists                                                        \* bound: doings of the other tab, by screen

\* There are finitely many combos, and the other tab's tag is no state of training.
ASSUME ListsAssumption == IsFiniteSet(Ids) /\ "tag" \notin TrainingStatuses

\* The proposals are finitely many, and their ranking leaves no two of them level.
ASSUME SuggestionsAssumption ==
  /\ IsFiniteSet(Proposals)
  /\ \A p \in Proposals : p.n \in Int /\ p.target \in Int /\ p.rest \in Int
  /\ \A p, q \in Proposals : p.rest = q.rest => p = q
  /\ First \in Nat /\ Most \in Nat

\* No row is called 0, which stands for none.  The database holds a recipe once at first.
ASSUME ImportAssumption ==
  /\ \A t \in DOMAIN Texts : Texts[t] \in Seq(Seq(STRING))
  /\ \A f \in Files : \A n \in DOMAIN f : f[n].local # 0 /\ f[n].draft \in BOOLEAN
  /\ StoredRecipes \in Seq(Seq(STRING))
  /\ \A m, n \in DOMAIN StoredRecipes : StoredRecipes[m] = StoredRecipes[n] => m = n

TR == INSTANCE Trash
        WITH Resolved <- ResolvedCharacter, Ids <- TrashIds,
             MaxActs <- ActsInLists.trash, MaxOthers <- OthersInLists.trash
PU == INSTANCE Punish
        WITH Bases <- PunishBases, Moves <- PunishMoves, MaxActs <- ActsInLists.punish
SG == INSTANCE Suggestions
        WITH Chosen <- ChosenTypes, Cells <- OkiCells,
             MaxActs <- ActsInLists.suggestions, MaxOthers <- OthersInLists.suggestions
CL == INSTANCE ComboLists
        WITH Statuses <- TrainingStatuses, Listed <- ListedAtMost, Rows <- StatusRows, Characters <- Order,
             MaxActs <- ActsInLists.lists, MaxOthers <- OthersInLists.lists
IM == INSTANCE Import
        WITH Stored <- StoredRecipes, MaxActs <- ActsInLists.import, MaxOthers <- OthersInLists.import

InitLists ==
  \/ "trash" \in Screens /\ TR!Init /\ TR!On
  \/ "punish" \in Screens /\ PU!Init /\ PU!On
  \/ "suggestions" \in Screens /\ SG!Init /\ SG!On
  \/ "lists" \in Screens /\ CL!Init /\ CL!On
  \/ "import" \in Screens /\ IM!Init /\ IM!On

NextLists ==
  \/ ui.page = "trash" /\ TR!Next /\ Stays
  \/ ui.page = "punish" /\ PU!Next /\ Stays
  \/ ui.page = "suggestions" /\ SG!Next /\ Stays
  \/ ui.page = "lists" /\ CL!Next /\ Stays
  \/ ui.page = "import" /\ IM!Next /\ Stays

SpecLists == InitLists /\ [][NextLists]_vars

-----------------------------------------------------------------------------
(* The properties of the screens, by name.                                 *)

\* Trash: bulk operations act on what was ticked and name what they did not do.
BulkActsAsAgreed == TR!BulkActsAsAgreed
\* Punish: the lists show all that is stored and tell what became of a request.
PunishListIsTrue == PU!PunishListIsTrue
\* Punish: "registered already" is only said of what is (violated).
ToldRegisteredIsRegistered == PU!ToldRegisteredIsRegistered
\* Suggestions: a proposal is shown as asked, adopted as opened, and then gone.
AdoptionIsFaithful == SG!AdoptionIsFaithful
\* ComboLists: filters are seen, exports complete, foreign tags kept.
ListsAreHonest == CL!ListsAreHonest
\* ComboLists: a starter that is set is a move of the character shown (violated).
StarterOfCharacter == CL!StarterOfCharacter
\* Import: no row is lost, doubled or put under a wrong combo.
ImportKeepsItsRows == IM!ImportKeepsItsRows
=============================================================================
