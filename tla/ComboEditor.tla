----------------------------- MODULE ComboEditor -----------------------------
(***************************************************************************)
(* The form that registers, copies and edits a combo, its dialogs and its  *)
(* requests, beside another tab that edits or deletes the same combo.      *)
(*                                                                         *)
(* A request carries the form as it was when it was sent; the handlers of  *)
(* its answer run only while the form is mounted.  `initial` is the row as *)
(* the query cache has it: a refetch replaces it under the open form,      *)
(* which stays as it was filled when it was mounted (`seen`).              *)
(***************************************************************************)
EXTENDS Page

CONSTANTS
  Keys,      \* values of the duplicate key; "no_steps" is a form without a recipe
  Twins,     \* keys that a combo in the trash has
  MaxActs,   \* bound: edits and saves
  MaxOthers  \* bound: doings of the other tab

Metas == {"m0", "m1", "invalid"}
KAs   == {0, 1}
Forms == [key : Keys, ka : KAs, meta : Metas, draft : BOOLEAN]
Blank == [key |-> "no_steps", ka |-> 0, meta |-> "m0", draft |-> FALSE]

On == ui.page = "combo_editor"

\* The form can be used while it is mounted and no dialog lies over it.
Mounted       == On /\ ui.mounted
Usable        == Mounted /\ ui.dialog = "none"
Asked(dialog) == Mounted /\ ui.dialog = dialog

\* The form is filled from the row once, when it is mounted.
Shown(row) == [key |-> row.key, ka |-> row.ka, meta |-> row.meta, draft |-> row.draft]

\* isSavingNow and isMutating; a promotion is a request of its own and counts for neither.
IsSavingNow == ui.request # None

\* Mutant: the check against the trash leaves the buttons on.
IsMutatingUnchecked == ui.dialog = "trash" \/ IsSavingNow

IsMutating == ui.checking # None \/ ui.dialog = "trash" \/ IsSavingNow

CanSaveNow == ~IsMutating /\ ui.form.key # "no_steps"

\* Mutant: the key is compared with what the form was filled from.
HasKeyChangesSinceOpened == ui.form.key # The(ui.seen).key

HasKeyChanges == ui.form.key # The(ui.initial).key

-----------------------------------------------------------------------------
(* Requests.                                                               *)

Request(kind, form, version, carry) ==
  Some([kind |-> kind, form |-> form, version |-> version, carry |-> carry])

RunCreate(u, form) ==
  [u EXCEPT !.inFlight = TRUE, !.request = Request("create", form, 0, "none")]

RunPatch(u, carry) ==
  [u EXCEPT !.request = Request("patch", u.form, The(u.initial).version, carry)]

RunPut(u) ==
  [u EXCEPT !.dialog = "none",
            !.request = Request("put", u.form, The(u.initial).version, u.carry)]

\* Another duplicate key makes another combo of the row, which is asked about first.
ProceedSave(u, carry) ==
  IF HasKeyChanges THEN [u EXCEPT !.carry = carry, !.dialog = "put"] ELSE RunPatch(u, carry)

\* A published form is compared with the trash before it is created.
RunCreateWithTrashCheck(u) ==
  IF u.form.draft THEN RunCreate(u, u.form) ELSE [u EXCEPT !.checking = Some(u.form)]

\* Linked setups may not suit another knockdown advantage; what was decided once is kept.
AsksForCarry(u) ==
  The(u.initial).setups /\ u.carry = "none" /\ u.form.ka # The(u.initial).ka

OnSave ==
  /\ Usable /\ CanSaveNow /\ ~ui.inFlight /\ ui.acts < MaxActs
  /\ Sets(IF ui.form.meta = "invalid" THEN [ui EXCEPT !.issues = TRUE]
          ELSE LET u == [ui EXCEPT !.issues = FALSE, !.acts = @ + 1]
               IN  IF u.mode # "edit" THEN RunCreateWithTrashCheck(u)
                   ELSE IF AsksForCarry(u) THEN [u EXCEPT !.dialog = "carry"]
                   ELSE ProceedSave(u, u.carry))

HandleKnockdownConfirm(choice) ==
  /\ Asked("carry")
  /\ Sets(ProceedSave([ui EXCEPT !.dialog = "none", !.carry = choice], choice))

ConfirmPut == Asked("put") /\ Sets(RunPut(ui))

\* A draft is published by a request of its own, under the version the cache has.
Promote == Usable /\ ui.mode = "edit" /\ The(ui.initial).draft /\ ui.promoting = None
           /\ Sets([ui EXCEPT !.promoting = Some(The(ui.initial).version)])

-----------------------------------------------------------------------------
(* The server, as far as the form sees it.                                 *)

\* A row is written only under the version that the request names.
Refusal(version) ==
  IF ~srv.row.live THEN "not_found" ELSE IF version # srv.row.version THEN "version" ELSE "none"

\* PATCH writes what is not part of the key, PUT all of it.
Written(q) ==
  LET key == IF q.kind = "put" THEN q.form.key ELSE srv.row.key
      row == [srv.row EXCEPT !.key = key, !.ka = q.form.ka, !.meta = q.form.meta,
                             !.draft = q.form.draft, !.version = @ + 1,
                             !.setups = @ /\ q.carry # "unlink_all"]
  IN  [srv EXCEPT !.row = row]

Counted == [srv EXCEPT !.made = @ + 1]

-----------------------------------------------------------------------------
(* Answers.                                                                *)

Leaves(u)   == [u EXCEPT !.mounted = FALSE, !.dialog = "none"]
Answered(u) == [u EXCEPT !.request = None]

\* A success leaves the form, unless warnings are shown first.
HandleSaveSuccess(u, warned) ==
  IF warned THEN [Answered(u) EXCEPT !.dialog = "saved_with_warnings"] ELSE Leaves(Answered(u))

\* A conflict opens its dialog, a rejection shows its issues, anything else is a message.
HandleError(u, why) ==
  [Answered(u) EXCEPT !.inFlight = FALSE,
                      !.dialog = IF why \in {"version", "not_found"} THEN why ELSE @,
                      !.issues = @ \/ why = "rejected"]

\* After the combo the setups are linked and the punish is registered, one request each.
AfterCreate(u, warned) ==
  LET created == [u EXCEPT !.inFlight = FALSE]
  IN  IF u.follow THEN [created EXCEPT !.request = Request("follow", The(u.request).form, 0, "none")]
      ELSE HandleSaveSuccess(created, warned)

Awaits(kinds) == On /\ ui.request # None /\ The(ui.request).kind \in kinds

CreateAnswered(warned) ==
  /\ Awaits({"create"})
  /\ srv' = Counted
  /\ ui' = IF ui.mounted THEN AfterCreate(ui, warned) ELSE Answered(ui)

CreateRefused(why) ==
  Awaits({"create"}) /\ Sets(IF ui.mounted THEN HandleError(ui, why) ELSE Answered(ui))

\* A failing link or punish is told, and the form is left all the same.
FollowUpAnswered(warned) ==
  /\ Awaits({"follow"})
  /\ Sets(IF ui.mounted THEN HandleSaveSuccess(ui, warned) ELSE Answered(ui))

FollowUpFailed == Awaits({"follow"}) /\ Sets(Leaves(Answered(ui)))

UpdateAnswered(warned) ==
  LET q   == The(ui.request)
      why == Refusal(q.version)
  IN  /\ Awaits({"patch", "put"})
      /\ srv' = IF why = "none" THEN Written(q) ELSE srv
      /\ ui' = IF ~ui.mounted THEN Answered(ui)
               ELSE IF why # "none" THEN HandleError(ui, why)
               ELSE HandleSaveSuccess([ui EXCEPT !.seen = Some(srv'.row)], warned)

\* Its conflict is only a message; its success leaves, with whatever else the form held.
PromoteAnswered ==
  LET why == Refusal(The(ui.promoting))
      u   == [ui EXCEPT !.promoting = None]
  IN  /\ On /\ ui.promoting # None
      /\ srv' = IF why = "none"
                  THEN [srv EXCEPT !.row.draft = FALSE, !.row.version = @ + 1] ELSE srv
      /\ ui' = IF why = "none" /\ ui.mounted THEN Leaves(u) ELSE u

\* Nothing in the trash, or no answer: the checked form is created, mounted or not.
CheckAnswered(ok) ==
  /\ On /\ ui.checking # None
  /\ LET form == The(ui.checking)
         u    == [ui EXCEPT !.checking = None]
     IN  Sets(IF ~ok \/ form.key \notin Twins THEN RunCreate(u, form)
              ELSE IF u.mounted THEN [u EXCEPT !.dialog = "trash"] ELSE u)

\* After a save, and when the window gets the focus: the form keeps what it was filled with.
Refetched ==
  /\ Mounted /\ ui.mode = "edit" /\ srv.row.live /\ The(ui.initial) # srv.row
  /\ Sets([ui EXCEPT !.initial = Some(srv.row)])

\* A refetch that finds no row puts the error in the place of the form.
RefetchFailed ==
  /\ Mounted /\ ui.mode = "edit" /\ ~srv.row.live
  /\ Sets(Leaves(ui))

-----------------------------------------------------------------------------
(* Dialogs.                                                                *)

\* The buttons of the trash dialog are off while a restoration is under way.
TrashButtons == Asked("trash") /\ ~ui.restoring

HandleTrashRestore == TrashButtons /\ Sets([ui EXCEPT !.restoring = TRUE])

RestoreAnswered ==
  /\ On /\ ui.restoring
  /\ srv' = Counted /\ ui' = Leaves([ui EXCEPT !.restoring = FALSE])

RestoreFailed == On /\ ui.restoring /\ Sets([ui EXCEPT !.restoring = FALSE])

\* The dialog is closed and the form, as it is now, is created.
HandleTrashCreateNew == TrashButtons /\ Sets(RunCreate([ui EXCEPT !.dialog = "none"], ui.form))

Dismissable == {"carry", "put", "trash", "version", "not_found", "character", "saved_with_warnings"}

Dismiss ==
  /\ Mounted /\ ui.dialog \in Dismissable /\ ~ui.restoring
  /\ Sets([ui EXCEPT !.dialog = "none", !.stayed = @ \/ ui.dialog = "saved_with_warnings"])

ContinueAfterWarning == Asked("saved_with_warnings") /\ Sets(Leaves(ui))

Opened(row) ==
  [page |-> "combo_editor", mode |-> "edit", mounted |-> TRUE, dialog |-> "none", form |-> Shown(row),
   initial |-> Some(row), seen |-> Some(row), carry |-> "none", issues |-> FALSE, inFlight |-> FALSE,
   request |-> None, checking |-> None, promoting |-> None, restoring |-> FALSE, follow |-> FALSE,
   stayed |-> FALSE, acts |-> ui.acts]

\* The page is loaded anew.
HandleConflictReload == Asked("version") /\ srv.row.live /\ Sets(Opened(srv.row))

HandleConflictSaveAsNew == Asked("not_found") /\ Sets(RunCreate([ui EXCEPT !.dialog = "none"], ui.form))
HandleConflictGoToList  == Asked("not_found") /\ Sets(Leaves(ui))

-----------------------------------------------------------------------------
(* Typing.                                                                 *)

Edits(form) ==
  /\ Usable /\ ui.acts < MaxActs /\ form # ui.form
  /\ Sets([ui EXCEPT !.form = form, !.acts = @ + 1])

SetKey(key)   == Edits([ui.form EXCEPT !.key = key])
SetKA(ka)     == Edits([ui.form EXCEPT !.ka = ka])
SetMeta(meta) == Edits([ui.form EXCEPT !.meta = meta])
ToggleDraft   == Edits([ui.form EXCEPT !.draft = ~@])

\* Another character empties a registration, after a question if anything was filled in.
HandleCharacterChange ==
  /\ Usable /\ ui.mode = "new" /\ ui.form # Blank
  /\ Sets([ui EXCEPT !.dialog = "character"])

ConfirmCharacterChange ==
  /\ Asked("character")
  /\ Sets([ui EXCEPT !.dialog = "none", !.form = Blank, !.issues = FALSE, !.follow = FALSE])

\* The button above the form is on even while a request is under way.
HandleCancel == Usable /\ Sets(Leaves(ui))

-----------------------------------------------------------------------------
(* The other tab.                                                          *)

OtherSaves(key, meta) ==
  /\ On /\ srv.others < MaxOthers /\ srv.row.live /\ <<key, meta>> # <<srv.row.key, srv.row.meta>>
  /\ Serves([srv EXCEPT !.others = @ + 1, !.row.key = key, !.row.meta = meta, !.row.version = @ + 1])

OtherDeletes ==
  /\ On /\ srv.others < MaxOthers /\ srv.row.live
  /\ Serves([srv EXCEPT !.others = @ + 1, !.row.live = FALSE])

Row(draft, setups) ==
  [live |-> TRUE, version |-> 1, key |-> "k1", ka |-> 0, meta |-> "m0", draft |-> draft,
   setups |-> setups]

\* A copy is a registration that starts from another combo.
\* A new combo has no row yet, so that its flags make no difference.
Init ==
  \E draft, setups, follow \in BOOLEAN, mode \in {"new", "copy", "edit"} :
    /\ follow => mode # "edit"
    /\ mode = "new" => ~draft /\ ~setups
    /\ srv = [row |-> Row(draft, setups), made |-> 0, others |-> 0]
    /\ ui = [page |-> "combo_editor", mode |-> mode, mounted |-> TRUE, dialog |-> "none",
             form |-> IF mode = "new" THEN Blank ELSE Shown(srv.row),
             initial |-> IF mode = "edit" THEN Some(srv.row) ELSE None,
             seen |-> IF mode = "edit" THEN Some(srv.row) ELSE None,
             carry |-> "none", issues |-> FALSE, inFlight |-> FALSE, request |-> None,
             checking |-> None, promoting |-> None, restoring |-> FALSE, follow |-> follow,
             stayed |-> FALSE, acts |-> 0]

Next ==
  \/ OnSave \/ ConfirmPut \/ Promote \/ FollowUpFailed \/ PromoteAnswered \/ Refetched \/ RefetchFailed
  \/ HandleTrashRestore \/ RestoreAnswered \/ RestoreFailed \/ HandleTrashCreateNew \/ Dismiss
  \/ ContinueAfterWarning \/ HandleConflictReload \/ HandleConflictSaveAsNew \/ HandleConflictGoToList
  \/ ToggleDraft \/ HandleCharacterChange \/ ConfirmCharacterChange \/ HandleCancel \/ OtherDeletes
  \/ \E choice \in {"carry_all", "unlink_all"} : HandleKnockdownConfirm(choice)
  \/ \E warned \in BOOLEAN : CreateAnswered(warned) \/ FollowUpAnswered(warned) \/ UpdateAnswered(warned)
  \/ \E ok \in BOOLEAN : CheckAnswered(ok)
  \/ \E why \in {"rejected", "failed"} : CreateRefused(why)
  \/ \E key \in Keys : SetKey(key)
  \/ \E ka \in KAs : SetKA(ka)
  \/ \E meta \in Metas : SetMeta(meta)
  \/ \E key \in Keys \ {"no_steps"}, meta \in {"m0", "m1"} : OtherSaves(key, meta)

-----------------------------------------------------------------------------
(* Properties.                                                             *)

\* One opening of the form makes at most one combo out of creating, restoring, "create a new one"
\* and "save as a new one", however the check, the dialogs and the answers fall, unless the user
\* stays on a form that was saved with warnings and saves it again.
CreatedOnce == On => srv.made <= 1 \/ ui.stayed

\* A change of the key is never lost in an update that carries only the other fields: an accepted
\* update leaves the row with the key of the form, even when the row changed under the open form.
KeyReachesRow ==
  [][Awaits({"patch", "put"}) /\ srv'.row # srv.row /\ ui'.request = None
       => srv'.row.key = The(ui.request).form.key]_vars
=============================================================================
