------------------------------- MODULE Import -------------------------------
(***************************************************************************)
(* Bringing combos in.  The helper makes a prompt for an outside AI, takes *)
(* the table that it answers, lets the user settle what found no move, and *)
(* hands a CSV over to the import page.  There a file is previewed, rows   *)
(* are ticked, and the server makes the combos and the setups of the rows. *)
(*                                                                         *)
(* A row of a file is its place, what it says (`recipe`) and two marks; a  *)
(* zip stands for both files, and beside it a setup file is not read.      *)
(***************************************************************************)
EXTENDS Page

CONSTANTS
  Characters,
  Texts,      \* pasted tables: their combos, each a sequence of words
  CodeOf,     \* <<character, word>> to the move that the server finds, "" for none
  Files,      \* combo files: sequences of rows
  SetupFiles, \* setup files: sets of rows [parent, number, recipe]
  Stored,     \* recipes that the database holds at first
  MaxActs,    \* bound: doings of the user
  MaxOthers   \* bound: combos registered by other tabs

On       == ui.page = "import"
AtHelper == On /\ ui.screen = "helper"
AtImport == On /\ ui.screen = "import"

Acting  == On /\ ui.acts < MaxActs
Does(u) == Sets([u EXCEPT !.acts = @ + 1])

Codes == {CodeOf[k] : k \in DOMAIN CodeOf} \ {""}

NoFiles(u) ==
  [u EXCEPT !.comboFile = None, !.setupFile = None, !.preview = None, !.checked = {},
            !.previewing = None, !.dupAction = "skip", !.confirm = FALSE, !.report = FALSE]
NoTable(u) == [u EXCEPT !.resolveResult = None, !.overrides = << >>, !.excluded = {}]
Blank(u) ==
  NoTable([u EXCEPT !.character = "", !.text = "", !.resolving = None, !.building = None])

\* A page that is left: its answers find nobody, but a commit goes on.
Left(u) == NoFiles(Blank([u EXCEPT !.commits = {[c EXCEPT !.mounted = FALSE] : c \in @}]))

\* A function with another value at one place, new or not.
With(f, k, v) == [x \in DOMAIN f \union {k} |-> IF x = k THEN v ELSE f[x]]

\* The places of a set, the first one first.
InOrder(S) == [n \in 1..Cardinality(S) |-> CHOOSE i \in S : Cardinality({j \in S : j <= i}) = n]

-----------------------------------------------------------------------------
(* The helper: the prompt.                                                 *)

Moves(u) == {m \in u.loaded : m = u.character}

ChooseCharacter(c) ==
  AtHelper /\ Acting /\ ui.character # c /\ Does(NoTable([ui EXCEPT !.character = c]))

MovesArrive ==
  AtHelper /\ ui.character \notin ui.loaded \union {""} /\ Sets([ui EXCEPT !.loaded = @ \union {ui.character}])

\* Before the moves have arrived the prompt says that there are none.
BuildIntakePrompt(u) == [of |-> u.character, moves |-> Moves(u)]

CopyPrompt == AtHelper /\ Acting /\ ui.character # "" /\ Does([ui EXCEPT !.copied = BuildIntakePrompt(ui)])

-----------------------------------------------------------------------------
(* The helper: the table and what the user makes of it.                    *)

Keys(table) == UNION {{<<i, j>> : j \in DOMAIN table.combos[i]} : i \in DOMAIN table.combos}

IsStepExcluded(u, k) == \E e \in u.excluded : e.step = k

EffectiveMoveCode(u, k) ==
  IF k \in DOMAIN u.overrides THEN u.overrides[k] ELSE The(u.resolveResult).combos[k[1]][k[2]]

IsStepResolved(u, k) == EffectiveMoveCode(u, k) # ""

Unresolved(u) == {k \in Keys(The(u.resolveResult)) : ~IsStepExcluded(u, k) /\ ~IsStepResolved(u, k)}

Paste(text) == AtHelper /\ Acting /\ ui.text # text /\ Does([ui EXCEPT !.text = text])

Resolve ==
  /\ AtHelper /\ Acting /\ ui.character # "" /\ ui.text # "" /\ ui.resolving = None
  /\ Does([ui EXCEPT !.resolving = Some([character |-> ui.character, text |-> ui.text])])

\* `number` tells one table from another for the property below.
Resolved(q, number) ==
  [number |-> number,
   combos |-> [i \in DOMAIN Texts[q.text] |->
                [j \in DOMAIN Texts[q.text][i] |-> CodeOf[<<q.character, Texts[q.text][i][j]>>]]]]

ShowsTable(u, table) ==
  [u EXCEPT !.resolving = None, !.resolveResult = Some(table), !.overrides = << >>, !.excluded = {}]

ResolveAnswered ==
  LET number == ui.tables + 1
  IN  /\ AtHelper /\ ui.resolving # None
      /\ Sets(ShowsTable([ui EXCEPT !.tables = number], Resolved(The(ui.resolving), number)))

ResolveFails == AtHelper /\ ui.resolving # None /\ Sets([ui EXCEPT !.resolving = None])

Deciding(k) == AtHelper /\ Acting /\ ui.resolveResult # None /\ k \in Keys(The(ui.resolveResult))

SetOverride(k, code) ==
  Deciding(k) /\ ~IsStepExcluded(ui, k) /\ Does([ui EXCEPT !.overrides = With(@, k, code)])

SetExcludeStep(k) ==
  /\ Deciding(k)
  /\ Does([ui EXCEPT !.excluded =
             IF IsStepExcluded(ui, k) THEN {e \in @ : e.step # k}
             ELSE @ \union {[step |-> k, table |-> The(ui.resolveResult).number]}])

KeptSteps(u, i) ==
  {j \in DOMAIN The(u.resolveResult).combos[i] : ~IsStepExcluded(u, <<i, j>>) /\ IsStepResolved(u, <<i, j>>)}

StepsOf(u, i) ==
  LET kept == InOrder(KeptSteps(u, i)) IN [n \in DOMAIN kept |-> EffectiveMoveCode(u, <<i, kept[n]>>)]

\* A combo that keeps no step is left out; its place in the text stands for the memo.
KeptCombos(u) == {i \in DOMAIN The(u.resolveResult).combos : KeptSteps(u, i) # {}}

BuildCsvPayload(u) ==
  LET kept == InOrder(KeptCombos(u))
  IN  [n \in DOMAIN kept |-> [local |-> n, recipe |-> <<u.character>> \o StepsOf(u, kept[n]), memo |-> kept[n],
                              draft |-> FALSE, valid |-> TRUE]]

HandleProceed ==
  /\ AtHelper /\ Acting /\ ui.resolveResult # None
  /\ Unresolved(ui) = {} /\ ui.building = None /\ BuildCsvPayload(ui) # << >>
  /\ Does([ui EXCEPT !.building = Some([rows |-> BuildCsvPayload(ui), table |-> The(ui.resolveResult),
                                        excluded |-> ui.excluded])])

BuildFails == AtHelper /\ ui.building # None /\ Sets([ui EXCEPT !.building = None])

-----------------------------------------------------------------------------
(* The import page: files and preview.                                     *)

IsDraftExcluded(row) == row.draft

IsImportSelectable(row) == row.valid /\ ~IsDraftExcluded(row)

Selectable(rows) == {rows[n].local : n \in {n \in DOMAIN rows : IsImportSelectable(rows[n])}}
SelectedLocalIds(u) == IF u.preview = None THEN {} ELSE Selectable(The(u.preview)) \intersect u.checked

AsksPreview(u) == [u EXCEPT !.previewing = u.comboFile]

\* A page that was reached with a CSV takes it as its file and previews it.
Opens(u) ==
  IF srv.handed = None THEN [Left(u) EXCEPT !.screen = "import"]
  ELSE AsksPreview([Left(u) EXCEPT !.screen = "import", !.comboFile = Some(The(srv.handed).rows)])

BuildAnswered ==
  /\ AtHelper /\ ui.building # None
  /\ srv' = [srv EXCEPT !.handed = ui.building]
  /\ ui' = AsksPreview([Left(ui) EXCEPT !.screen = "import", !.comboFile = Some(The(ui.building).rows)])

\* What was handed over stays with its entry of the history.
GoForward == AtHelper /\ Acting /\ srv.handed # None /\ Does(Opens(ui))
GoBack    == AtImport /\ Acting /\ Does([Left(ui) EXCEPT !.screen = "helper"])

ResetResults(u) == [u EXCEPT !.preview = None, !.checked = {}, !.report = FALSE]

ChooseComboFile(f) ==
  /\ AtImport /\ Acting /\ ui.comboFile # f /\ ~ui.confirm
  /\ Does(ResetResults([ui EXCEPT !.comboFile = f, !.setupFile = IF f = None THEN None ELSE @]))

ChooseSetupFile(f) ==
  /\ AtImport /\ Acting /\ ui.comboFile # None /\ ui.setupFile # f /\ ~ui.confirm
  /\ Does(ResetResults([ui EXCEPT !.setupFile = f]))

HandlePreview ==
  /\ AtImport /\ Acting /\ ui.comboFile # None /\ ui.previewing = None /\ ~ui.confirm
  /\ Does(AsksPreview([ui EXCEPT !.report = FALSE]))

\* The answer is shown whatever file is chosen by now.
PreviewAnswered ==
  /\ AtImport /\ ui.previewing # None
  /\ Sets([ui EXCEPT !.previewing = None, !.preview = ui.previewing,
                     !.checked = Selectable(The(ui.previewing))])

PreviewFails == AtImport /\ ui.previewing # None /\ Sets([ui EXCEPT !.previewing = None])

Choosing == AtImport /\ Acting /\ ui.preview # None /\ ~ui.confirm

ToggleAll(next) == Choosing /\ Does([ui EXCEPT !.checked = IF next THEN Selectable(The(ui.preview)) ELSE {}])

ToggleRow(local) ==
  /\ Choosing /\ local \in Selectable(The(ui.preview))
  /\ Does([ui EXCEPT !.checked = IF local \in @ THEN @ \ {local} ELSE @ \union {local}])

SetDupAction(dup) == Choosing /\ ui.dupAction # dup /\ Does([ui EXCEPT !.dupAction = dup])

-----------------------------------------------------------------------------
(* The commit.                                                             *)

Committing(u) == \E c \in u.commits : c.mounted

AskToCommit ==
  Choosing /\ SelectedLocalIds(ui) # {} /\ ~Committing(ui) /\ Does([ui EXCEPT !.confirm = TRUE])

Cancel == AtImport /\ Acting /\ ui.confirm /\ Does([ui EXCEPT !.confirm = FALSE])

\* The server takes the rows that the request names in their order, and then the setups.
\* `asked` is the request, `before` the number of combos when it was sent.
Request ==
  LET asked == [rows |-> The(ui.comboFile), selected |-> SelectedLocalIds(ui), dup |-> ui.dupAction,
                before |-> Cardinality(srv.combos)]
  IN  [asked |-> asked, at |-> ui.acts, mounted |-> TRUE,
       left |-> {n \in DOMAIN asked.rows : asked.rows[n].valid /\ asked.rows[n].local \in asked.selected},
       passed |-> FALSE, parents |-> << >>,
       setups |-> IF ui.setupFile = None THEN {} ELSE The(ui.setupFile)]

HandleCommit ==
  /\ AtImport /\ Acting /\ ui.confirm
  /\ Does([ui EXCEPT !.confirm = FALSE,
                     !.commits = IF SelectedLocalIds(ui) = {} \/ ui.comboFile = None THEN @
                                 ELSE @ \union {Request}])

GoesOn(c, d) == ui' = [ui EXCEPT !.commits = (@ \ {c}) \union {d}]

Turn(c, n) == On /\ n \in c.left /\ \A m \in c.left : n <= m
Past(c, n) == [c EXCEPT !.left = @ \ {n}, !.passed = FALSE]

Registers(c, row, id) == [c EXCEPT !.parents = With(@, row.local, id)]

\* A draft is a duplicate of nothing, and nothing is one of a draft.
Same(row) == {x \in srv.combos : x.recipe = row.recipe /\ ~x.draft}

\* Mutant: what was looked for before its transaction is not looked for in it.
TakenAsNew(row) == TRUE
IsNew(row) == row.draft \/ Same(row) = {}

\* The setups of a duplicate hang under the combo that is there, if that was asked for.
Duplicate(c, row) ==
  IF c.asked.dup = "setups_only" THEN Registers(c, row, (CHOOSE x \in Same(row) : TRUE).id) ELSE c

\* A duplicate is looked for before the transaction.
CheckRow(c, n) ==
  LET row == c.asked.rows[n]
  IN  /\ Turn(c, n) /\ ~row.draft /\ ~c.passed /\ UNCHANGED srv
      /\ GoesOn(c, IF Same(row) = {} THEN [c EXCEPT !.passed = TRUE] ELSE Past(Duplicate(c, row), n))

\* The transaction that makes the combo looks for itself and refuses a duplicate.
CreateRow(c, n) ==
  LET row == c.asked.rows[n]
      id  == Cardinality(srv.combos) + 1
  IN  /\ Turn(c, n) /\ (row.draft \/ c.passed)
      /\ IF IsNew(row)
         THEN /\ GoesOn(c, Past(Registers(c, row, id), n))
              /\ srv' = [srv EXCEPT !.combos = @ \union {[id |-> id, recipe |-> row.recipe, draft |-> row.draft]}]
         ELSE GoesOn(c, Past(c, n)) /\ UNCHANGED srv

\* A row that fails is reported, and the next one is taken.
RowFails(c, n) == Turn(c, n) /\ GoesOn(c, Past(c, n)) /\ UNCHANGED srv

\* A setup names its parent by one label: `parent` is the row that is called so, `number` what it
\* is as a number, 0 where it is neither.  A label that no row of this import was brought in
\* under is the number of a combo, or nothing.
Parent(c, s) ==
  IF s.parent \in DOMAIN c.parents THEN {c.parents[s.parent]} ELSE {x.id : x \in {x \in srv.combos : x.id = s.number}}

\* A setup that the combo has already is not made again, nor one without a combo. The order of
\* a file of setups tells nothing apart.
CommitOneSetup(c, s) ==
  /\ On /\ c.left = {} /\ s \in c.setups
  /\ GoesOn(c, [c EXCEPT !.setups = @ \ {s}])
  /\ srv' = [srv EXCEPT !.setups = @ \union
               {[combo |-> id, recipe |-> s.recipe, row |-> s, by |-> c.asked] :
                  id \in {id \in Parent(c, s) : ~\E t \in srv.setups : t.combo = id /\ t.recipe = s.recipe}}]

SetupFails(c, s) ==
  On /\ c.left = {} /\ s \in c.setups /\ GoesOn(c, [c EXCEPT !.setups = @ \ {s}]) /\ UNCHANGED srv

CommitAnswered(c) ==
  On /\ c.left = {} /\ c.setups = {} /\ Sets([ui EXCEPT !.commits = @ \ {c}, !.report = @ \/ c.mounted])

\* The connection is lost: what was made by then stays.
CommitFails(c) == On /\ Sets([ui EXCEPT !.commits = @ \ {c}])

\* Another tab registers a combo; a duplicate is refused there.
OtherTab(recipe) ==
  /\ On /\ srv.others < MaxOthers /\ ~\E c \in srv.combos : c.recipe = recipe /\ ~c.draft
  /\ Serves([srv EXCEPT !.others = @ + 1,
                        !.combos = @ \union {[id |-> Cardinality(@) + 1, recipe |-> recipe, draft |-> FALSE]}])

-----------------------------------------------------------------------------
Init ==
  \E screen \in {"helper", "import"} :
    /\ ui = [page |-> "import", screen |-> screen, loaded |-> {}, commits |-> {}, tables |-> 0,
             copied |-> [of |-> "", moves |-> {}], acts |-> 0,
             character |-> "", text |-> "", resolving |-> None, building |-> None,
             resolveResult |-> None, overrides |-> << >>, excluded |-> {},
             comboFile |-> None, setupFile |-> None, preview |-> None, checked |-> {},
             previewing |-> None, dupAction |-> "skip", confirm |-> FALSE, report |-> FALSE]
    /\ srv = [combos |-> {[id |-> n, recipe |-> Stored[n], draft |-> FALSE] : n \in DOMAIN Stored},
              setups |-> {}, handed |-> None, others |-> 0]

Tabled == IF On /\ ui.resolveResult # None THEN Keys(The(ui.resolveResult)) ELSE {}
Rows   == IF On /\ ui.preview # None THEN Selectable(The(ui.preview)) ELSE {}
Sent   == IF On THEN ui.commits ELSE {}

Next ==
  \/ \E c \in Characters : ChooseCharacter(c)
  \/ MovesArrive \/ CopyPrompt
  \/ \E text \in DOMAIN Texts : Paste(text)
  \/ Resolve \/ ResolveAnswered \/ ResolveFails
  \/ \E k \in Tabled : SetExcludeStep(k) \/ \E code \in Codes \union {""} : SetOverride(k, code)
  \/ HandleProceed \/ BuildAnswered \/ BuildFails \/ GoForward \/ GoBack
  \/ \E f \in {None} \union {Some(f) : f \in Files} : ChooseComboFile(f)
  \/ \E f \in {None} \union {Some(f) : f \in SetupFiles} : ChooseSetupFile(f)
  \/ HandlePreview \/ PreviewAnswered \/ PreviewFails
  \/ \E all \in BOOLEAN : ToggleAll(all)
  \/ \E local \in Rows : ToggleRow(local)
  \/ \E dup \in {"skip", "setups_only"} : SetDupAction(dup)
  \/ AskToCommit \/ Cancel \/ HandleCommit
  \/ \E c \in Sent : CommitAnswered(c) \/ CommitFails(c)
  \/ \E c \in Sent : \E n \in c.left : CheckRow(c, n) \/ CreateRow(c, n) \/ RowFails(c, n)
  \/ \E c \in Sent : \E s \in c.setups : CommitOneSetup(c, s) \/ SetupFails(c, s)
  \/ \E f \in Files : \E n \in DOMAIN f : OtherTab(f[n].recipe)

-----------------------------------------------------------------------------
\* A CSV that is handed over holds every step of its table, except those that
\* the user left out of this very table: none is lost because it found no move,
\* because its move was taken back, or because an earlier table had its place
\* left out (review.ts: countUnresolved, buildCsvPayload; IntakeHelperPage.tsx: handleResolve).
CsvHoldsTheTable ==
  On => \A csv \in {The(o) : o \in {ui.building, srv.handed} \ {None}} : \A i \in DOMAIN csv.table.combos :
          LET leftOut == {j \in DOMAIN csv.table.combos[i] : [step |-> <<i, j>>, table |-> csv.table.number] \in csv.excluded}
              held    == {n \in DOMAIN csv.rows : csv.rows[n].memo = i}
          IN  Len(csv.table.combos[i]) - Cardinality(leftOut) =
                IF held = {} THEN 0 ELSE Len(csv.rows[CHOOSE n \in held : TRUE].recipe) - 1

\* The moves in a prompt are those of the character that it names, or none
\* (IntakeHelperPage.tsx: handleCopyPrompt, moves by character).
PromptOfOneCharacter == On => ui.copied.moves \subseteq {ui.copied.of}

\* A recipe is in the database once, however often its file is brought in, twice in
\* one file, or registered by another tab meanwhile (comboio/import.go: commitOneCombo).
ImportedOnce ==
  On => \A a, b \in srv.combos : a.recipe = b.recipe /\ ~a.draft /\ ~b.draft => a = b

\* A setup that an import makes hangs under the combo of the row that it names, that row
\* was chosen, and under a combo that was there before only when the user wanted that
\* (comboio/import.go: commitOneSetup, resolveSetupParent; the page says so above the list).
\* A name that is a number may stand for the combo of that number, even if it is a row's
\* too: that is where the setups of a row go that this import did not bring in.
SetupsFollowTheirCombo ==
  On => \A s \in srv.setups :
          \/ s.row.number # 0 /\ s.combo = s.row.number
          \/ /\ \E n \in DOMAIN s.by.rows :
                  /\ s.by.rows[n].local = s.row.parent /\ s.row.parent \in s.by.selected
                  /\ [id |-> s.combo, recipe |-> s.by.rows[n].recipe, draft |-> s.by.rows[n].draft] \in srv.combos
             /\ s.by.dup = "skip" => s.combo > s.by.before

\* From the pasted text to the database no row is lost, doubled or put under a combo that it
\* does not name.
ImportKeepsItsRows ==
  CsvHoldsTheTable /\ PromptOfOneCharacter /\ ImportedOnce /\ SetupsFollowTheirCombo
=============================================================================
