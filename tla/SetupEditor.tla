----------------------------- MODULE SetupEditor -----------------------------
(***************************************************************************)
(* The form that registers, copies and edits a setup: its fields, the list *)
(* of its steps with the pull-down of all moves and the dialog of a step,  *)
(* the check against the trash, and its requests beside another tab.       *)
(*                                                                         *)
(* Unlike the form of a combo, this one is filled again whenever the query *)
(* brings another row (`row` is what the query has).                       *)
(***************************************************************************)
EXTENDS Page, SequencesExt

CONSTANTS
  Moves,      \* moves of the character; a step without a move is "no_move"
  Surfaced,   \* moves that the virtual controller offers
  CategoryOf, \* the category of each move
  MaxSteps,   \* bound: length of a recipe
  MaxActs,    \* bound: edits and saves
  MaxOthers   \* bound: saves of the other tab

Names == {"", "n0", "n1"}
Kinds == Moves \union {"no_move"}
Step(move) == [move |-> move, noted |-> FALSE]

Filters == {CategoryOf[m] : m \in Moves} \union {"all", "no_move"}

On      == ui.page = "setup_editor"
Mounted == On /\ ui.mounted
Usable  == Mounted /\ ui.dialog = "none" /\ ui.editing = 0

\* setupDirtyKey; a copy and an edited row start from what was loaded.
Fields    == [name |-> ui.name, steps |-> ui.steps]
IsUnsaved == Fields # ui.baseline

Acts(u) == ui.acts < MaxActs /\ Sets([u EXCEPT !.acts = @ + 1])

-----------------------------------------------------------------------------
(* The pull-down.                                                          *)

VisibleMoves == IF ui.omit THEN Moves \ Surfaced ELSE Moves

\* What the select offers under the filter.
Offered ==
  {m \in VisibleMoves : ui.filter \in {"all", CategoryOf[m]}}
    \union (IF ui.filter \in {"all", "no_move"} THEN {"no_move"} ELSE {})

\* A move that the list has lost is no longer selected; the filter is not asked.
ClearHiddenSelection(u) ==
  IF u.omit /\ u.selected \in Surfaced THEN [u EXCEPT !.selected = ""] ELSE u

TogglePulldown == Usable /\ Acts([ui EXCEPT !.open = ~@])

SetOmitSurfaced == Usable /\ ui.open /\ Acts(ClearHiddenSelection([ui EXCEPT !.omit = ~@]))

SetFilterCategory(f) ==
  /\ Usable /\ ui.open /\ f # ui.filter
  /\ f = "all" \/ f = "no_move" \/ \E m \in VisibleMoves : CategoryOf[m] = f
  /\ Acts([ui EXCEPT !.filter = f])

SelectMove(k) == Usable /\ ui.open /\ k \in Offered /\ k # ui.selected
                 /\ Acts([ui EXCEPT !.selected = k])

-----------------------------------------------------------------------------
(* The steps.                                                              *)

Changed(steps) == Acts([ui EXCEPT !.steps = steps])

HandleAdd ==
  /\ Usable /\ ui.open /\ ui.selected # "" /\ Len(ui.steps) < MaxSteps
  /\ Changed(Append(ui.steps, Step(ui.selected)))

HandleVCStepAdd(m) ==
  Usable /\ m \in Surfaced /\ Len(ui.steps) < MaxSteps /\ Changed(Append(ui.steps, Step(m)))

HandleVCStepDelete == Usable /\ ui.steps # << >> /\ Changed(Front(ui.steps))

HandleMoveUp(i) ==
  /\ Usable /\ i \in 2 .. Len(ui.steps)
  /\ Changed([ui.steps EXCEPT ![i - 1] = ui.steps[i], ![i] = ui.steps[i - 1]])

HandleMoveDown(i) ==
  /\ Usable /\ i \in 1 .. Len(ui.steps) - 1
  /\ Changed([ui.steps EXCEPT ![i + 1] = ui.steps[i], ![i] = ui.steps[i + 1]])

HandleDelete(i) == Usable /\ i \in DOMAIN ui.steps /\ Changed(RemoveAt(ui.steps, i))

\* The dialog of a step takes its supplement when it opens.
OpenStep(i) ==
  /\ Usable /\ i \in DOMAIN ui.steps
  /\ Acts([ui EXCEPT !.editing = i, !.noted = ui.steps[i].noted])

HandleVCOpenLastStepModifiers == OpenStep(Len(ui.steps))

InStep == Mounted /\ ui.editing # 0

ToggleFlag == InStep /\ Acts([ui EXCEPT !.noted = ~@])

HandleModifiersSave ==
  InStep /\ Sets([ui EXCEPT !.steps[ui.editing].noted = ui.noted, !.editing = 0])

CloseStep == InStep /\ Sets([ui EXCEPT !.editing = 0])

HandleFormChange(name) == Usable /\ name # ui.name /\ Acts([ui EXCEPT !.name = name])

-----------------------------------------------------------------------------
(* Saving.                                                                 *)

IsSaving == ui.request # None

CanSave == ~IsSaving /\ ui.checking = None /\ ui.name # ""

Leaves(u) == [u EXCEPT !.mounted = FALSE, !.dialog = "none", !.editing = 0]

\* Creates the fields of the moment; a mutation runs to its end after the page is left.
Request(u, fields, version) ==
  [u EXCEPT !.request = Some([fields |-> fields, version |-> version, seen |-> u.baseline])]

RunCreate(u, fields) == Request(u, fields, 0)

\* Registering asks the trash first, editing sends the version of the row the query has.
HandleSave ==
  /\ Usable /\ CanSave
  /\ Acts(LET u == [ui EXCEPT !.duplicate = FALSE]
          IN  IF u.mode = "edit"
                THEN Request(u, Fields, The(u.row).version)
                ELSE [u EXCEPT !.checking = Some(Fields)])

\* The continuation has the fields of the press; nothing looks whether the form is still there.
CheckAnswered(deleted) ==
  /\ On /\ ui.checking # None
  /\ LET u == [ui EXCEPT !.checking = None]
     IN  Sets(IF ~deleted THEN RunCreate(u, The(ui.checking))
              ELSE IF u.mounted THEN [u EXCEPT !.dialog = "trash", !.editing = 0] ELSE u)

\* The row is written only under the version that it has.
SaveAnswered ==
  /\ On /\ ui.request # None
  /\ LET q == The(ui.request)
         u == [ui EXCEPT !.request = None]
         conflict == q.version # 0 /\ q.version # srv.row.version
     IN  IF conflict
           THEN /\ UNCHANGED srv
                /\ ui' = IF u.mounted THEN [u EXCEPT !.dialog = "version", !.editing = 0] ELSE u
           ELSE /\ ui' = Leaves(u)
                /\ srv' = IF q.version = 0 THEN [srv EXCEPT !.made = @ + 1]
                          ELSE [srv EXCEPT !.row = [fields |-> q.fields, version |-> @.version + 1]]

\* The same recipe exists under the combo, or the server cannot be reached.
SaveRefused(duplicate) ==
  /\ On /\ ui.request # None
  /\ Sets([ui EXCEPT !.request = None, !.duplicate = duplicate /\ ui.mounted])

-----------------------------------------------------------------------------
(* Dialogs and leaving.                                                    *)

\* Mutant: the buttons stay on during a restoration.
TrashButtonsAlways == Mounted /\ ui.dialog = "trash"

TrashButtons == Mounted /\ ui.dialog = "trash" /\ ~ui.restoring

HandleTrashRestore == TrashButtons /\ Sets([ui EXCEPT !.restoring = TRUE])

RestoreAnswered(ok) ==
  /\ On /\ ui.restoring
  /\ LET u == [ui EXCEPT !.restoring = FALSE]
     IN  IF ok THEN ui' = Leaves(u) /\ srv' = [srv EXCEPT !.made = @ + 1] ELSE Sets(u)

HandleTrashCreateNew == TrashButtons /\ Sets(RunCreate([ui EXCEPT !.dialog = "none"], Fields))
HandleTrashCancel    == TrashButtons /\ Sets([ui EXCEPT !.dialog = "none"])

CloseConflict == Mounted /\ ui.dialog = "version" /\ Sets([ui EXCEPT !.dialog = "none"])

\* Reloading the page, and leaving it once the guard has been answered.
HandleCancel == Usable /\ Sets(Leaves(ui))

-----------------------------------------------------------------------------
(* The row.                                                                *)

\* Mutant: what was typed is kept, under the version of the row that came.
HydrateKeepingTyped(u, row) ==
  IF IsUnsaved THEN [u EXCEPT !.row = Some(row)]
  ELSE [u EXCEPT !.name = row.fields.name, !.steps = row.fields.steps, !.baseline = row.fields,
                 !.row = Some(row)]

\* The fields and what counts as unsaved are set anew, whatever was typed.
Hydrate(u, row) ==
  [u EXCEPT !.name = row.fields.name, !.steps = row.fields.steps, !.baseline = row.fields,
            !.row = Some(row)]

HandleConflictReload ==
  /\ Mounted /\ ui.dialog = "version"
  /\ Sets(Hydrate([ui EXCEPT !.dialog = "none"], srv.row))

OtherSaves(fields) ==
  /\ On /\ srv.others < MaxOthers /\ fields # srv.row.fields
  /\ Serves([srv EXCEPT !.others = @ + 1, !.row = [fields |-> fields, version |-> @.version + 1]])

\* A refetch while the dialog of a step that is gone is open breaks the page.
Refetched ==
  /\ Mounted /\ ui.mode # "create" /\ The(ui.row) # srv.row
  /\ Sets(LET u == Hydrate(ui, srv.row)
          IN  IF u.editing > Len(u.steps) THEN [Leaves(u) EXCEPT !.broken = TRUE]
              ELSE IF u.editing = 0 THEN u
              ELSE [u EXCEPT !.noted = u.steps[u.editing].noted])

-----------------------------------------------------------------------------
Stored == {[name |-> "n0", steps |-> <<Step(m)>>] : m \in Moves} \union {[name |-> "n1", steps |-> << >>]}

Opened(mode, row) ==
  [page |-> "setup_editor", mode |-> mode, mounted |-> TRUE, dialog |-> "none",
   name |-> row.fields.name, steps |-> row.fields.steps, baseline |-> row.fields, row |-> Some(row),
   open |-> FALSE, omit |-> FALSE, filter |-> "all", selected |-> "", editing |-> 0, noted |-> FALSE,
   duplicate |-> FALSE, request |-> None, checking |-> None, restoring |-> FALSE, broken |-> FALSE,
   acts |-> 0]

Init ==
  \E mode \in {"create", "copy", "edit"} :
    \E fields \in IF mode = "create" THEN {[name |-> "", steps |-> << >>]} ELSE Stored :
      LET row == [fields |-> fields, version |-> 1]
      IN  /\ ui = Opened(mode, row)
          /\ srv = [row |-> row, made |-> 0, others |-> 0]

Next ==
  \/ TogglePulldown \/ SetOmitSurfaced \/ HandleAdd
  \/ \E f \in Filters : SetFilterCategory(f)
  \/ \E k \in Kinds : SelectMove(k)
  \/ \E m \in Moves : HandleVCStepAdd(m)
  \/ HandleVCStepDelete \/ HandleVCOpenLastStepModifiers
  \/ \E i \in 1 .. MaxSteps : HandleMoveUp(i) \/ HandleMoveDown(i) \/ HandleDelete(i) \/ OpenStep(i)
  \/ ToggleFlag \/ HandleModifiersSave \/ CloseStep
  \/ \E n \in Names : HandleFormChange(n)
  \/ HandleSave \/ SaveAnswered
  \/ \E b \in BOOLEAN : CheckAnswered(b) \/ SaveRefused(b) \/ RestoreAnswered(b)
  \/ HandleTrashRestore \/ HandleTrashCreateNew \/ HandleTrashCancel
  \/ CloseConflict \/ HandleCancel \/ HandleConflictReload \/ Refetched
  \/ \E fields \in Stored : OtherSaves(fields)

Spec == Init /\ [][Next]_vars

-----------------------------------------------------------------------------
(* Properties.                                                             *)

\* One form makes one setup at most, through the check against the trash, a restoration, refusals
\* and leaving while the trash is asked (SetupEditorPage, saveDisabled and PreSaveDuplicateDialog).
SetupMadeOnce == On => srv.made <= 1

\* A save replaces only a row that the form has shown: what another tab saved is either in the
\* form or refused as a conflict (SetupEditorPage 98-114, 278-294).
ReplacesOnlySeen ==
  [][On /\ ui.request # None /\ ui'.request = None /\ srv'.row # srv.row
      => The(ui.request).seen = srv.row.fields]_vars
=============================================================================
