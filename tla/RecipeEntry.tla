---------------------------- MODULE RecipeEntry ----------------------------
(***************************************************************************)
(* Entering a recipe: the on-screen controller with its tabs, the list of  *)
(* all moves beside it, and the dialog that edits what a step carries.     *)
(*                                                                         *)
(* The code of a move is the sequence of its words; a move is a record     *)
(* [code, category, setupOnly, derived], and ui.moves lists the moves of   *)
(* the character in the order of the server.                               *)
(***************************************************************************)
EXTENDS Page, SequencesExt

CONSTANTS
  Catalogues, \* faces <<context, list of moves of a character>>
  EntriesOf,  \* the index of commands: <<direction, strength, button>> to a code
  StateWords, \* what the codes of moves of a state of the character hold, suffixes cut off
  PlainFlags, \* flags every step may carry
  OdFlags,    \* flags that name the pair of strengths of an OD move
  Levers,     \* bound: directions that the user turns to
  MaxActs     \* bound: doings of the user

\* A step that is no move.
NonMove     == [code |-> None, category |-> "nonmove", setupOnly |-> FALSE, derived |-> FALSE]
CommonCodes  == {<<w>> : w \in {"forward", "back"}} \union
                {<<v, w>> : v \in {"micro", "dash", "jump", "throw"}, w \in {"forward", "back"}} \union
                {<<"jump", "neutral">>, <<"drive", "impact">>, <<"drive", "parry">>}

On      == ui.page = "recipe"
Acting  == On /\ ui.acts < MaxActs /\ ui.editing = None
Does(u) == Sets([u EXCEPT !.acts = @ + 1])

Coded(moves, code) == {m \in moves : m.code = code}

-----------------------------------------------------------------------------
(* Which input enters which move.                                          *)

\* A step of a setup may be a move that no combo holds.
IsInputExcluded(m, context) == m.code = <<"drive", "reversal">> \/ (context = "combo" /\ m.setupOnly)

InputMoves(u) == {m \in Range(u.moves) : ~IsInputExcluded(m, u.context)}

Keys == (1..9) \X {"light", "medium", "heavy"} \X {"punch", "kick"}

ContractToZone(dir) == IF dir >= 7 THEN "jumping" ELSE IF dir <= 3 THEN "crouching" ELSE "standing"

\* The index of commands first; without it, or when it names a move of nobody, the zone.
ResolveDirectionalInput(moves, entries, k) ==
  LET indexed == IF k \in DOMAIN entries THEN Coded(moves, entries[k]) ELSE {}
  IN  IF indexed # {} THEN indexed ELSE Coded(moves, <<ContractToZone(k[1]), k[2], k[3]>>)

RushOf(moves, base) == UNION {Coded(moves, <<"rush">> \o m.code) : m \in base}

ResolveDirectionalRushInput(moves, entries, k) ==
  IF k[1] >= 7 THEN {} ELSE RushOf(moves, ResolveDirectionalInput(moves, entries, k))

NormalTabMoves(moves, entries) ==
  UNION {ResolveDirectionalInput(moves, entries, k)
           \union ResolveDirectionalRushInput(moves, entries, k) : k \in Keys}

\* Mutant: every move in rush counts as shown with the unique moves.
AnyRushIsUnique(m, moves) == m.category = "unique" \/ Head(m.code) = "rush"

IsOnUniqueTab(m, moves) ==
  m.category = "unique" \/ m \in RushOf(moves, {b \in moves : b.category = "unique"})

IsOnSuperArtTab(m) == m.category \in {"super_art", "critical_art"}

IsOnCharacterStateTab(m, words) == Range(m.code) \cap words # {}

\* What some tab other than the last one holds.
Surfaced(moves, entries, words) ==
  {m \in moves : \/ m \in NormalTabMoves(moves, entries)
                 \/ IsOnUniqueTab(m, moves)
                 \/ m.category \in {"special", "target_combo"}
                 \/ IsOnSuperArtTab(m)
                 \/ m.code \in CommonCodes
                 \/ IsOnCharacterStateTab(m, words)}

-----------------------------------------------------------------------------
(* Special moves: families, their variants and strengths.                  *)

Strengths == <<"od", "light", "medium", "heavy">>

\* The last word first; else the first strength in their order that is some word.
ParseSpecialCode(code) ==
  LET named == {n \in DOMAIN Strengths : Strengths[n] \in Range(code)}
      word  == Strengths[Min(named)]
      at    == CHOOSE i \in DOMAIN code : code[i] = word /\ \A j \in 1..(i - 1) : code[j] # word
  IN  IF Last(code) \in Range(Strengths) THEN [family |-> Front(code), strength |-> Last(code)]
      ELSE IF named # {} THEN [family |-> RemoveAt(code, at), strength |-> word]
      ELSE [family |-> code, strength |-> "none"]

Simple == << >>

VariantSuffixes == <<<<"max", "holding">>, <<"holding">>, <<"perfect">>>>

\* A family with such an ending is a variant if the family without it exists.
SplitSpecialVariant(family, families) ==
  LET fits   == {n \in DOMAIN VariantSuffixes : \E b \in families : b \o VariantSuffixes[n] = family}
      suffix == VariantSuffixes[Min(fits)]
  IN  IF fits = {} THEN [base |-> family, variant |-> Simple]
      ELSE [base |-> CHOOSE b \in families : b \o suffix = family, variant |-> suffix]

Specials(u) == {i \in DOMAIN u.moves : u.moves[i] \in InputMoves(u) /\ u.moves[i].category = "special"}

Parsed(u) == [i \in Specials(u) |-> ParseSpecialCode(u.moves[i].code)]

Families(u) == {Parsed(u)[i].family : i \in Specials(u)}

\* The special moves on the place they have in the list of moves.
DeriveSpecialFamilies(u) ==
  [i \in Specials(u) |->
     LET split == SplitSpecialVariant(Parsed(u)[i].family, Families(u))
     IN  [base |-> split.base, variant |-> split.variant,
          strength |-> Parsed(u)[i].strength, move |-> u.moves[i]]]

Bases(derived) == {derived[i].base : i \in DOMAIN derived}

\* Families that stand for themselves come before those that are derived throughout.
FirstFamily(derived) ==
  LET own(i) == \E j \in DOMAIN derived : derived[j].base = derived[i].base /\ ~derived[j].move.derived
      owns   == {i \in DOMAIN derived : own(i)}
  IN  derived[Min(IF owns # {} THEN owns ELSE DOMAIN derived)].base

\* The family of the buttons; one that the moves no longer have gives way to the first.
SelectedFamily(u, derived) == IF u.family \in Bases(derived) THEN u.family ELSE FirstFamily(derived)

Variants(derived, base) == {derived[i].variant : i \in {j \in DOMAIN derived : derived[j].base = base}}

\* The row of variants is there when there is something to choose.
VariantButtons(derived, base) ==
  LET variants == Variants(derived, base) IN IF \E x, y \in variants : x # y THEN variants ELSE {}

\* The buttons below the chosen family: one per strength, and OD also with a pair of strengths;
\* a later twin hides an earlier one.
SpecialButtons(derived, base, variant) ==
  LET shown == IF variant \in Variants(derived, base) THEN variant ELSE Simple
      of(s) == {i \in DOMAIN derived :
                  derived[i].base = base /\ derived[i].variant = shown /\ derived[i].strength = s}
      button(s, flags) == {[move |-> derived[i].move, flags |-> flags] :
                             i \in {j \in of(s) : \A k \in of(s) : k <= j}}
  IN  (UNION {button(s, {}) : s \in Range(Strengths) \union {"none"}}) \union
      (UNION {button("od", {f}) : f \in OdFlags})

\* What the list of a character's moves is: the database holds a code once per character, the roster
\* gives no two special moves one family and strength, and no variant has a variant of its own.
IsRoster(u) ==
  /\ u.moves \in Seq([code : Seq(STRING) \ {<< >>}, category : STRING, setupOnly : BOOLEAN, derived : BOOLEAN])
  /\ \A i, j \in DOMAIN u.moves : u.moves[i].code = u.moves[j].code => i = j
  /\ \A i, j \in Specials(u) : Parsed(u)[i] = Parsed(u)[j] => i = j
  /\ \A base \in Families(u) :
       (\E n \in DOMAIN VariantSuffixes : base \o VariantSuffixes[n] \in Families(u)) =>
          SplitSpecialVariant(base, Families(u)).variant = Simple

-----------------------------------------------------------------------------
(* The tabs of the controller.                                             *)

HasUniqueRushVariant(moves) == RushOf(moves, {m \in moves : m.category = "unique"}) # {}

Plain(moves) == {[move |-> m, flags |-> {}] : m \in moves}

\* What the buttons in view would enter; every tab is one click away.
Buttons(u) ==
  LET moves   == InputMoves(u)
      derived == DeriveSpecialFamilies(u)
      unique  == {m \in moves : m.category = "unique"}
      hit     == {u.direction} \X {"light", "medium", "heavy"} \X {"punch", "kick"}
  IN  Plain(UNION {IF u.rush THEN ResolveDirectionalRushInput(moves, u.entries, k)
                   ELSE ResolveDirectionalInput(moves, u.entries, k) : k \in hit}) \union
      Plain(IF u.rush /\ HasUniqueRushVariant(moves) THEN RushOf(moves, unique) ELSE unique) \union
      Plain({m \in moves : \/ m.category = "target_combo" \/ IsOnSuperArtTab(m) \/ m.code \in CommonCodes
                           \/ IsOnCharacterStateTab(m, u.words)}) \union
      Plain(moves \ Surfaced(moves, u.entries, u.words)) \union
      (IF DOMAIN derived = {} THEN {}
       ELSE SpecialButtons(derived, SelectedFamily(u, derived), u.variant))

\* The step goes behind the steps of the last render.
AddStep(u, step) == [u EXCEPT !.steps = Append(@, step)]

MoveStep(b) == [code |-> b.move.code, flags |-> b.flags]

AddResolvedMove ==
  Acting /\ \E b \in Buttons(ui) : Does(AddStep(ui, MoveStep(b)))

HandleSystemButton == Acting /\ Does(AddStep(ui, MoveStep([move |-> NonMove, flags |-> {}])))

HandleVCStepDelete == Acting /\ ui.steps # << >> /\ Does([ui EXCEPT !.steps = Front(@)])

Turned(u, d, rush)    == [u EXCEPT !.direction = d, !.rush = rush]
Chosen(u, b, variant) == [u EXCEPT !.family = b, !.variant = variant]

\* The buttons upward are disabled in rush, and entering rush leaves them.
SetDirection(d) == Acting /\ ui.direction # d /\ (ui.rush => d < 7) /\ Does(Turned(ui, d, ui.rush))

HandleRushToggle ==
  Acting /\ Does(Turned(ui, IF ~ui.rush /\ ui.direction >= 7 THEN 5 ELSE ui.direction, ~ui.rush))

ChooseFamily == Acting /\ \E b \in Bases(DeriveSpecialFamilies(ui)) : Does(Chosen(ui, b, Simple))

ChooseVariant ==
  /\ Acting /\ Specials(ui) # {}
  /\ LET derived == DeriveSpecialFamilies(ui)
     IN  \E x \in VariantButtons(derived, SelectedFamily(ui, derived)) : Does(Chosen(ui, ui.family, x))

\* The tab of special moves forgets what was chosen on it.
LeaveTab ==
  /\ Acting /\ <<ui.family, ui.variant>> # <<Simple, Simple>>
  /\ Does(Chosen(ui, Simple, Simple))

-----------------------------------------------------------------------------
(* The list of all moves, which may be folded away: what is chosen stays.  *)

VisibleMoves(u) ==
  InputMoves(u) \ (IF u.omit THEN Surfaced(InputMoves(u), u.entries, u.words) ELSE {})

\* A choice that has gone from the list is dropped.
ClearHiddenSelection(u) ==
  IF u.selected \subseteq VisibleMoves(u) \union {NonMove} THEN u ELSE [u EXCEPT !.selected = {}]

SetOmitSurfaced == Acting /\ Does(ClearHiddenSelection([ui EXCEPT !.omit = ~@]))

\* The index of commands and the states of the character arrive, in either order.
IndexArrives  == On /\ ui.entries # EntriesOf /\ Sets(ClearHiddenSelection([ui EXCEPT !.entries = EntriesOf]))
StatesArrive  == On /\ ui.words # StateWords /\ Sets(ClearHiddenSelection([ui EXCEPT !.words = StateWords]))

\* The filter narrows what is offered, and the choice stays.
SetFilterCategory(c) == Acting /\ ui.filter # c /\ Does([ui EXCEPT !.filter = c])

Select ==
  /\ Acting
  /\ \E m \in VisibleMoves(ui) \union {NonMove} :
       ui.filter \in {"all", m.category} /\ Does([ui EXCEPT !.selected = {m}])

IsOdVariantApplicable(moves) == \E m \in moves : m.category = "special" /\ "od" \in Range(m.code)

\* A pair of strengths is for special moves with OD; one that is ticked can always be taken back.
MayToggle(f, ticked, moves) == f \in PlainFlags \/ f \in ticked \/ IsOdVariantApplicable(moves)

Toggled(set, x) == (set \ {x}) \union ({x} \ set)

ToggleFlag(f) ==
  Acting /\ MayToggle(f, ui.flags, ui.selected) /\ Does([ui EXCEPT !.flags = Toggled(@, f)])

StepToAdd(u) ==
  {MoveStep([move |-> m, flags |-> IF IsOdVariantApplicable({m}) THEN u.flags ELSE u.flags \ OdFlags]) :
      m \in u.selected}

\* The choice stays for the next step.
HandleAdd ==
  Acting /\ \E step \in StepToAdd(ui) : Does([AddStep(ui, step) EXCEPT !.flags = {}])

-----------------------------------------------------------------------------
(* The steps and the dialog of one step.                                   *)

HandleMove(i) ==
  /\ Acting /\ i + 1 \in DOMAIN ui.steps
  /\ Does([ui EXCEPT !.steps[i] = ui.steps[i + 1], !.steps[i + 1] = ui.steps[i]])

HandleDelete(i) == Acting /\ i \in DOMAIN ui.steps /\ Does([ui EXCEPT !.steps = RemoveAt(@, i)])

\* The button of a step, and for the last one also a shortcut.
OpenStep(i) ==
  Acting /\ i \in DOMAIN ui.steps /\ Does([ui EXCEPT !.editing = Some(i), !.local = ui.steps[i].flags])

MovesOfStep(u, i) == Coded(Range(u.moves), u.steps[i].code)

ToggleLocal(f) ==
  /\ On /\ ui.editing # None /\ ui.acts < MaxActs
  /\ MayToggle(f, ui.local, MovesOfStep(ui, The(ui.editing)))
  /\ Does([ui EXCEPT !.local = Toggled(@, f)])

CloseStep == On /\ ui.editing # None /\ Sets([ui EXCEPT !.editing = None, !.local = {}])

HandleModifiersSave ==
  /\ On /\ ui.editing # None
  /\ Sets([ui EXCEPT !.steps[The(ui.editing)].flags = ui.local, !.editing = None, !.local = {}])

-----------------------------------------------------------------------------
Init ==
  /\ \E face \in Catalogues :
       ui = [page |-> "recipe", context |-> face[1], moves |-> face[2], entries |-> << >>,
             words |-> {}, steps |-> << >>, direction |-> 5, rush |-> FALSE, family |-> << >>, variant |-> Simple,
             omit |-> FALSE, filter |-> "all", selected |-> {}, flags |-> {},
             editing |-> None, local |-> {}, acts |-> 0]
  /\ srv = None

Next ==
  \/ AddResolvedMove \/ HandleSystemButton \/ HandleVCStepDelete
  \/ \E d \in Levers : SetDirection(d)
  \/ HandleRushToggle \/ ChooseFamily \/ ChooseVariant \/ LeaveTab
  \/ SetOmitSurfaced \/ IndexArrives \/ StatesArrive
  \/ \E c \in {"all", "special"} : SetFilterCategory(c)
  \/ Select \/ HandleAdd \/ CloseStep \/ HandleModifiersSave
  \/ \E f \in OdFlags \union PlainFlags : ToggleFlag(f) \/ ToggleLocal(f)
  \/ \E i \in 1..MaxActs : HandleMove(i) \/ HandleDelete(i) \/ OpenStep(i)

Spec == Init /\ [][Next]_vars

-----------------------------------------------------------------------------
(* Properties.                                                             *)

\* The page with another direction and rush, or with a family and a variant that are offered.
Clicked(u) ==
  LET derived == DeriveSpecialFamilies(u)
      kinds(b) == VariantButtons(derived, b) \union {Simple}
  IN  {Turned(u, d, r) : d \in 1..9, r \in BOOLEAN} \union
      (UNION {{Chosen(u, b, x) : x \in kinds(b)} : b \in Bases(derived)})

\* Every move that can be chosen has a button behind some direction and rush, or behind a family
\* and a variant that are themselves offered, so that a list that leaves out what has one (the
\* toggle "omit") loses no move and the last tab holds exactly the rest.
AllEntered == \A m \in InputMoves(ui) : \E u \in Clicked(ui) : \E b \in Buttons(u) : b.move = m

\* Nothing the user does matters for it, so it is asked of a page where nothing was done, before
\* and after the index and the states arrive.
EveryMoveHasButton == On /\ ui.acts = 0 => AllEntered

\* A pair of strengths never gets into a step whose move is no special move with OD, in
\* whatever order the flags are ticked, the move is chosen and the steps are edited.
OdPairsOnOdMoves ==
  On => \A i \in DOMAIN ui.steps :
          ui.steps[i].flags \cap OdFlags # {} => IsOdVariantApplicable(MovesOfStep(ui, i))

\* What can be entered is what the character has, no less and no more.
EntersWhatTheCharacterHas == EveryMoveHasButton /\ OdPairsOnOdMoves
=============================================================================
