------------------------------ MODULE SetupItem ------------------------------
(***************************************************************************)
(* A setup in the list of a combo: the editor of its verified results, a   *)
(* cell for each situation, and the questions before it is unlinked or put *)
(* into the trash; beside another tab that writes the same results.        *)
(*                                                                         *)
(* `results` is what the query has of the rows; a write is over when the   *)
(* query has been read again.                                              *)
(***************************************************************************)
EXTENDS Page, SequencesExt

CONSTANTS
  Cells,     \* tech type and corner of a situation
  Notes,     \* what is typed as a note; "" is an empty one
  MaxActs,   \* bound: doings of the user
  MaxOthers  \* bound: writes of the other tab

On == ui.page = "setup_item"

\* A cell without a row is unverified.
Unverified == [state |-> "unverified", note |-> ""]
Rows       == [state : {"ok", "ng"}, note : Notes]

Usable == On /\ ui.shown /\ ui.dialog = "none" /\ ui.acts < MaxActs
Does(u) == Sets([u EXCEPT !.acts = @ + 1])

-----------------------------------------------------------------------------
(* The results.                                                            *)

Editing == Usable /\ ui.editing

IsPending == ui.pending

\* What was typed for a cell, or else what is stored.
NoteOf(cell)   == IF ui.drafts[cell] # None THEN The(ui.drafts[cell]) ELSE ui.results[cell].note
SelectedState  == ui.results[ui.cell].state

\* Closing forgets what was typed, and that a write is under way.
ToggleEditing ==
  Usable /\ Does([ui EXCEPT !.editing = ~@, !.drafts = [c \in Cells |-> None],
                            !.pending = FALSE, !.forgot = @ \/ ui.pending])

SelectCell(cell) == Editing /\ cell # ui.cell /\ Does([ui EXCEPT !.cell = cell])

TypeNote(note) == Editing /\ note # NoteOf(ui.cell) /\ Does([ui EXCEPT !.drafts[ui.cell] = Some(note)])

Writes(u, state) ==
  [u EXCEPT !.pending = TRUE,
            !.writes = Append(@, [cell |-> ui.cell, state |-> state,
                                  note |-> IF state = "unverified" THEN "" ELSE NoteOf(ui.cell)])]

\* An unverified cell has no row; what its note said is kept as typed.
SetState(state) ==
  /\ Editing /\ ~IsPending /\ state # SelectedState
  /\ Does(Writes(IF state # "unverified" THEN ui
                 ELSE [ui EXCEPT !.drafts[ui.cell] = Some(NoteOf(ui.cell))], state))

SaveNote ==
  Editing /\ ~IsPending /\ SelectedState # "unverified" /\ Does(Writes(ui, SelectedState))

\* Mutant: the write is over when its answer comes, not when the query has been read again.
SettlesAtOnce(u) == [u EXCEPT !.fetch = TRUE, !.pending = FALSE]

\* The query is read again, and the buttons wait for it.
Invalidate(u) == [u EXCEPT !.fetch = TRUE]

WriteAnswered(i) ==
  /\ On /\ i \in DOMAIN ui.writes
  /\ LET w == ui.writes[i]
     IN  srv' = [srv EXCEPT !.results[w.cell] = [state |-> w.state, note |-> w.note]]
  /\ ui' = Invalidate([ui EXCEPT !.writes = RemoveAt(@, i)])

WriteFailed(i) ==
  On /\ i \in DOMAIN ui.writes /\ Sets([ui EXCEPT !.writes = RemoveAt(@, i), !.pending = FALSE])

FetchAnswered == On /\ ui.fetch /\ Sets([ui EXCEPT !.fetch = FALSE, !.results = srv.results,
                                                     !.pending = ui.writes # << >>])

OtherWrites(cell, row) ==
  /\ On /\ srv.others < MaxOthers /\ row # srv.results[cell]
  /\ Serves([srv EXCEPT !.others = @ + 1, !.results[cell] = row])

-----------------------------------------------------------------------------
(* Unlinking and deleting.                                                 *)

OpenUnlink == Usable /\ ~ui.sending /\ Does([ui EXCEPT !.dialog = "unlink"])
OpenDelete == Usable /\ ~ui.sending /\ Does([ui EXCEPT !.dialog = "delete"])

ToggleUnlinkAlso == On /\ ui.dialog = "delete" /\ ui.acts < MaxActs /\ Does([ui EXCEPT !.unlinkAlso = ~@])

HandleUnlinkConfirm ==
  On /\ ui.dialog = "unlink" /\ Sets([ui EXCEPT !.dialog = "none", !.sending = TRUE, !.what = "unlink"])

\* The choice is put back once it has been used.
HandleDeleteConfirm ==
  /\ On /\ ui.dialog = "delete"
  /\ Sets([ui EXCEPT !.dialog = "none", !.sending = TRUE, !.unlinkAlso = FALSE,
                     !.what = IF ui.unlinkAlso THEN "both" ELSE "delete"])

CancelDialog == On /\ ui.dialog # "none" /\ Sets([ui EXCEPT !.dialog = "none"])

\* A row that is gone is no longer in the list of the combo; a failure leaves it there.
Answered(ok) ==
  /\ On /\ ui.sending
  /\ Sets([ui EXCEPT !.sending = FALSE, !.shown = ~ok, !.dialog = IF ok THEN "none" ELSE @])

-----------------------------------------------------------------------------
Init ==
  \E row \in Rows \union {Unverified} :
    LET results == [c \in Cells |-> IF c = "standing" THEN row ELSE Unverified]
    IN  /\ ui = [page |-> "setup_item", shown |-> TRUE, dialog |-> "none", editing |-> FALSE,
                 cell |-> "standing", results |-> results, drafts |-> [c \in Cells |-> None],
                 writes |-> << >>, fetch |-> FALSE, pending |-> FALSE, forgot |-> FALSE, unlinkAlso |-> FALSE, sending |-> FALSE,
                 what |-> "none", acts |-> 0]
        /\ srv = [results |-> results, others |-> 0]

Next ==
  \/ ToggleEditing \/ SaveNote \/ FetchAnswered
  \/ \E c \in Cells : SelectCell(c) \/ (\E row \in Rows \union {Unverified} : OtherWrites(c, row))
  \/ \E n \in Notes : TypeNote(n)
  \/ \E state \in {"ok", "ng", "unverified"} : SetState(state)
  \/ \E i \in 1 .. 2 : WriteAnswered(i) \/ WriteFailed(i)
  \/ OpenUnlink \/ OpenDelete \/ ToggleUnlinkAlso \/ HandleUnlinkConfirm \/ HandleDeleteConfirm
  \/ CancelDialog \/ \E ok \in BOOLEAN : Answered(ok)

Spec == Init /\ [][Next]_vars

-----------------------------------------------------------------------------
(* Properties.                                                             *)

\* A note leaves the editor only by typing, by closing it or by another tab's hand: a cell may go
\* to unverified, which deletes its row, and back (SetupResultEditor 78-96).
NoteSurvivesUnverified ==
  On /\ srv.others = 0 /\ ~ui.forgot /\ ui.editing /\ ui'.editing
    => \A c \in Cells : NoteOf(c)' = NoteOf(c) \/ \E n \in Notes : TypeNote(n)

\* While the buttons are on, what the editor shows is what is stored, unless another tab wrote or
\* the editor was closed during a write (useSetupResults: the comment at invalidate).
ShownIsStored == On /\ srv.others = 0 /\ ~ui.forgot /\ ~IsPending => ui.results = srv.results

\* The editor of results is true to what is stored and to what was typed.
EditorIsTrue == [][ShownIsStored' /\ NoteSurvivesUnverified]_vars
=============================================================================
