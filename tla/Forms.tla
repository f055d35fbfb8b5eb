-------------------------------- MODULE Forms --------------------------------
(***************************************************************************)
(* The forms of the front end.  A behaviour is one tab that shows one of   *)
(* them and nothing else: what a screen leaves behind for another is part  *)
(* of the module of both.                                                  *)
(***************************************************************************)
EXTENDS Page, Integers

CONSTANTS
  MaxDepth, MaxMarks,                                               \* NavigationGuard
  ComboKeys, Twins,                                                 \* ComboEditor
  TypedMasses, TypedPercents, OkiKinds, FormTags,                   \* BasicFields
  Catalogues, EntriesOf, StateWords, PlainFlags, OdFlags, Levers,   \* RecipeEntry
  SetupMoves, SurfacedMoves, CategoryOf, MaxSteps,                  \* SetupEditor
  Cells, Notes,                                                     \* SetupItem
  ActsInForms,                                                      \* bound: doings of the user, by screen
  OthersInForms                                                     \* bound: doings of the other tab

\* Fields of numbers take numbers, whatever they are.
ASSUME FormsAssumption == TypedMasses \subseteq Int /\ TypedPercents \subseteq Int

NG == INSTANCE NavigationGuard
CE == INSTANCE ComboEditor
        WITH Keys <- ComboKeys, MaxActs <- ActsInForms.combo_editor, MaxOthers <- OthersInForms
BF == INSTANCE BasicFields
        WITH OtherTags <- FormTags, MaxActs <- ActsInForms.basic_fields
RE == INSTANCE RecipeEntry WITH MaxActs <- ActsInForms.recipe
SE == INSTANCE SetupEditor
        WITH Moves <- SetupMoves, Surfaced <- SurfacedMoves,
             MaxActs <- ActsInForms.setup_editor, MaxOthers <- OthersInForms
SI == INSTANCE SetupItem WITH MaxActs <- ActsInForms.setup_item, MaxOthers <- OthersInForms

\* The moves of a face are those of one character, and a flag is of one kind.
ASSUME RecipeAssumption ==
  /\ \A face \in Catalogues : RE!IsRoster([context |-> face[1], moves |-> face[2]])
  /\ PlainFlags \cap OdFlags = {}

InitForms ==
  \/ NG!Init /\ NG!On
  \/ CE!Init /\ CE!On
  \/ BF!Init /\ BF!On
  \/ RE!Init /\ RE!On
  \/ SE!Init /\ SE!On
  \/ SI!Init /\ SI!On

NextForms ==
  \/ ui.page = "guard" /\ NG!Next /\ Stays
  \/ ui.page = "combo_editor" /\ CE!Next /\ Stays
  \/ ui.page = "basic_fields" /\ BF!Next /\ Stays
  \/ ui.page = "recipe" /\ RE!Next /\ Stays
  \/ ui.page = "setup_editor" /\ SE!Next /\ Stays
  \/ ui.page = "setup_item" /\ SI!Next /\ Stays

SpecForms == InitForms /\ [][NextForms]_vars

-----------------------------------------------------------------------------
(* The properties of the screens, by name.                                 *)

\* NavigationGuard: an edited form is left when the user agreed, and then it is.
LeavesExactlyWhenAgreed == NG!LeavesExactlyWhenAgreed
\* ComboEditor: one opening of the form makes one combo.
CreatedOnce == CE!CreatedOnce
\* ComboEditor: an accepted update leaves the row with the key of the form.
KeyReachesRow == CE!KeyReachesRow
\* BasicFields: band, mass and percentage of a position agree.
MassAgrees == BF!MassAgrees
\* BasicFields: a state of the character is saved as its controls show it.
StatesSavedAsShown == BF!StatesSavedAsShown
\* RecipeEntry: every move has a button, and no step says what its move has not.
EntersWhatTheCharacterHas == RE!EntersWhatTheCharacterHas
\* SetupEditor: one form makes one setup.
SetupMadeOnce == SE!SetupMadeOnce
\* SetupEditor: a save replaces only what the form has shown.
ReplacesOnlySeen == SE!ReplacesOnlySeen
\* SetupItem: the editor of results shows what is stored and keeps what was typed.
EditorIsTrue == SI!EditorIsTrue
=============================================================================
