------------------------------- MODULE Trash -------------------------------
(***************************************************************************)
(* The trash: a table of combos and a table of setups whose ids overlap,   *)
(* the actions of a row, the bar that restores or deletes what is ticked,  *)
(* and the read-only page of one combo; beside another tab.                *)
(*                                                                         *)
(* A bulk operation asks for all its combos at once, waits for every       *)
(* answer, and then asks for its setups; it goes on when the page is left. *)
(***************************************************************************)
EXTENDS Page

CONSTANTS
  Ids,          \* ids, of combos and of setups alike
  Characters,
  CharacterOf,  \* the character of what has an id
  Resolved,     \* the character while none has been picked
  MaxActs,      \* bound: doings of the user and of the other tab
  MaxOthers     \* bound: restores by another tab

On == ui.page = "trash"

Kinds == {"combo", "setup"}
Rows  == Kinds \X Ids

OnList   == On /\ ui.view = "list"
OnDetail == On /\ ui.view = "detail"
Acting   == On /\ ui.dialog = "none" /\ ui.acts + srv.others < MaxActs
Does(u)  == [u EXCEPT !.acts = @ + 1]

NobodyBlocks == [s \in Ids |-> {}]
NoBulk       == [op |-> "none", awaits |-> {}, setups |-> {}, failed |-> {}, left |-> FALSE]

\* The page as it is when it has just been opened.
Fresh(view, id) ==
  [page |-> "trash", view |-> view, id |-> id, known |-> "none", character |-> Resolved,
   seen |-> [k \in Kinds |-> {}], fetch |-> Kinds, selected |-> [k \in Kinds |-> {}],
   dialog |-> "none", row |-> <<"combo", id>>, requests |-> {}, blocking |-> NobodyBlocks,
   bulk |-> NoBulk, errors |-> {}, acts |-> 0]

-----------------------------------------------------------------------------
(* The server's side of a request.                                         *)

BlockingCombos(s) == {c \in Ids : srv.rows[<<"combo", c>>] = "live" /\ <<c, s>> \in srv.links}

CanDo(op, row) ==
  /\ srv.rows[row] = "trash"
  /\ op = "delete" /\ row[1] = "setup" => BlockingCombos(row[2]) = {}

\* `acted` is the account of what this tab has done.
After(op, row) ==
  [srv EXCEPT !.rows[row] = IF op = "delete" THEN "gone" ELSE "live", !.acted = @ \union {row},
              !.links = IF op # "delete" THEN @
                        ELSE {l \in @ : row # <<"combo", l[1]>> /\ row # <<"setup", l[2]>>}]

OtherRestores(row) ==
  On /\ srv.others < MaxOthers /\ ui.acts + srv.others < MaxActs /\ srv.rows[row] = "trash"
     /\ Serves([srv EXCEPT !.others = @ + 1, !.rows[row] = "live"])

-----------------------------------------------------------------------------
(* The tables.                                                             *)

Listed(kind) == {i \in ui.seen[kind] : CharacterOf[i] = ui.character}

SelectedRows == {row \in Rows : row[2] \in ui.selected[row[1]] \intersect Listed(row[1])}

ListFetched(kind) ==
  /\ OnList /\ kind \in ui.fetch
  /\ Sets([ui EXCEPT !.fetch = @ \ {kind},
                     !.seen[kind] = {i \in Ids : IF CharacterOf[i] = ui.character
                                                 THEN srv.rows[<<kind, i>>] = "trash" ELSE i \in @}])

Ticked(kind, is) == srv' = [srv EXCEPT !.ticked = {row \in @ : row[1] # kind} \union ({kind} \X is)]

\* Mutant: the ids ticked in the two tables are kept in one array.
TickInOneArray(kind, i) ==
  /\ OnList /\ Acting /\ i \in Listed(kind)
  /\ LET is == IF i \in ui.selected[kind] THEN ui.selected[kind] \ {i} ELSE ui.selected[kind] \union {i}
     IN  ui' = Does([ui EXCEPT !.selected = [k \in Kinds |-> is]]) /\ Ticked(kind, is)

HandleRowSelection(kind, i) ==
  /\ OnList /\ Acting /\ i \in Listed(kind)
  /\ LET is == IF i \in ui.selected[kind] THEN ui.selected[kind] \ {i} ELSE ui.selected[kind] \union {i}
     IN  ui' = Does([ui EXCEPT !.selected[kind] = is]) /\ Ticked(kind, is)

\* All of one table, or none of it.
HandleSelectAll(kind, on) ==
  /\ OnList /\ Acting /\ Listed(kind) # {}
  /\ LET is == IF on THEN Listed(kind) ELSE {}
     IN  is # ui.selected[kind] /\ ui' = Does([ui EXCEPT !.selected[kind] = is]) /\ Ticked(kind, is)

NoneSelected == [k \in Kinds |-> {}]

HandleCharacterChange(character) ==
  /\ OnList /\ Acting /\ character # ui.character
  /\ ui' = Does([ui EXCEPT !.character = character, !.selected = NoneSelected, !.fetch = Kinds])
  /\ srv' = [srv EXCEPT !.ticked = {}]

-----------------------------------------------------------------------------
(* The bar.                                                                *)

TotalCount == Cardinality(SelectedRows)
HasResult  == ui.errors # {}

BarShown == TotalCount > 0 \/ HasResult

\* The rows are those of the moment of the click. `agreed` is what the user asked for.
Starts(op) ==
  /\ ui' = Does([ui EXCEPT !.dialog = "none", !.errors = {},
                   !.bulk = [NoBulk EXCEPT !.op = op,
                               !.awaits = {row \in SelectedRows : row[1] = "combo"},
                               !.setups = {row \in SelectedRows : row[1] = "setup"}]])
  /\ srv' = [srv EXCEPT !.agreed = @ \union srv.ticked, !.refused = {}]

\* One bulk operation at a time is followed, also when its page has been left.
CanStart == OnList /\ TotalCount > 0 /\ ui.bulk.op = "none"

HandleBulkRestore == CanStart /\ Acting /\ Starts("restore")

AskBulkDelete == CanStart /\ Acting /\ Sets(Does([ui EXCEPT !.dialog = "bulk"]))

HandleBulkPermanentDelete == CanStart /\ ui.dialog = "bulk" /\ Starts("delete")

\* A restored combo refetches the combos, a restored or deleted setup the setups.
Refetches(kind) == IF ui.view = "list" THEN ui.fetch \union {kind} ELSE ui.fetch

BulkAnswered(row, ok) ==
  /\ On /\ row \in ui.bulk.awaits /\ (ok => CanDo(ui.bulk.op, row))
  /\ ui' = [ui EXCEPT !.bulk.awaits = @ \ {row}, !.bulk.failed = IF ok THEN @ ELSE @ \union {row},
                      !.fetch = IF ok THEN Refetches(row[1]) ELSE @]
  /\ srv' = IF ok THEN After(ui.bulk.op, row) ELSE srv

BulkGoesOn ==
  /\ On /\ ui.bulk.op # "none" /\ ui.bulk.awaits = {} /\ ui.bulk.setups # {}
  /\ Sets([ui EXCEPT !.bulk.awaits = ui.bulk.setups, !.bulk.setups = {}])

Failed == ui.bulk.failed

\* onComplete clears the selection; a page that was left is told nothing.
BulkEnds ==
  /\ On /\ ui.bulk.op # "none" /\ ui.bulk.awaits = {} /\ ui.bulk.setups = {}
  /\ IF ui.bulk.left THEN Sets([ui EXCEPT !.bulk = NoBulk])
     ELSE /\ ui' = [ui EXCEPT !.bulk = NoBulk, !.errors = Failed, !.selected = NoneSelected, !.fetch = Kinds]
          /\ srv' = [srv EXCEPT !.ticked = {}, !.refused = ui.bulk.failed]

DismissResult ==
  /\ OnList /\ Acting /\ BarShown /\ HasResult
  /\ ui' = Does([ui EXCEPT !.errors = {}]) /\ srv' = [srv EXCEPT !.refused = {}]

-----------------------------------------------------------------------------
(* The actions of a row, and of the page of one combo.                     *)

Pending(op, row) == \E q \in ui.requests : q.op = op /\ q.row = row
Asks(u, op, row) == [u EXCEPT !.requests = @ \union {[op |-> op, row |-> row]}]

\* What a page of a combo knows of it.
IsInTrash == ui.known = "trash"

Offered(row) == \/ OnList /\ row[2] \in Listed(row[1])
                \/ OnDetail /\ row = <<"combo", ui.id>> /\ IsInTrash

Agrees(row) == srv' = [srv EXCEPT !.agreed = @ \union {row}]

HandleRestore(row) ==
  Acting /\ Offered(row) /\ ~Pending("restore", row)
         /\ ui' = Does(Asks(ui, "restore", row)) /\ Agrees(row)

AskPermanentDelete(row) ==
  Acting /\ Offered(row) /\ ~Pending("delete", row)
         /\ Sets(Does([ui EXCEPT !.dialog = "row", !.row = row]))

\* The list of the combos in the way belongs to the last attempt.
HandlePermanentDelete ==
  /\ On /\ ui.dialog = "row"
  /\ ui' = Asks([ui EXCEPT !.dialog = "none",
                           !.blocking = IF ui.row[1] = "setup" THEN [@ EXCEPT ![ui.row[2]] = {}] ELSE @],
                "delete", ui.row)
  /\ Agrees(ui.row)

CancelDialog == On /\ ui.dialog # "none" /\ Sets([ui EXCEPT !.dialog = "none"])

\* The page of a combo goes back to the list once its combo has been dealt with.
RowDone(q) ==
  IF ui.view = "detail" THEN [Fresh("list", ui.id) EXCEPT !.bulk = ui.bulk, !.acts = ui.acts]
  ELSE [ui EXCEPT !.requests = @ \ {q}, !.fetch = Refetches(q.row[1])]

RowAnswered(q) ==
  /\ On /\ q \in ui.requests /\ q.op # "unlink" /\ CanDo(q.op, q.row)
  /\ ui' = RowDone(q) /\ srv' = After(q.op, q.row)

\* A setup that is in use is refused with the combos that are in the way.
RowRefused(q) ==
  /\ On /\ q \in ui.requests /\ q.op # "unlink"
  /\ Sets([ui EXCEPT !.requests = @ \ {q},
             !.blocking = IF q.op = "delete" /\ q.row[1] = "setup"
                          THEN [@ EXCEPT ![q.row[2]] = BlockingCombos(q.row[2])] ELSE @])

\* Taking a combo out of the way does not delete the setup.
HandleUnlink(c, s) ==
  /\ OnList /\ Acting /\ s \in Listed("setup") /\ c \in ui.blocking[s]
  /\ ~\E q \in ui.requests : q.op = "unlink" /\ q.row[2] = s
  /\ Sets(Does([ui EXCEPT !.requests = @ \union {[op |-> "unlink", row |-> <<"setup", s>>, combo |-> c]}]))

UnlinkAnswered(q, ok) ==
  /\ On /\ q \in ui.requests /\ q.op = "unlink"
  /\ ui' = [ui EXCEPT !.requests = @ \ {q},
                      !.blocking[q.row[2]] = IF ok THEN @ \ {q.combo} ELSE @]
  /\ srv' = IF ok THEN [srv EXCEPT !.links = @ \ {<<q.combo, q.row[2]>>}] ELSE srv

-----------------------------------------------------------------------------
(* Moving between the list and the page of a combo.                        *)

Leaves(view, id) ==
  /\ ui' = [Fresh(view, id) EXCEPT !.bulk = [ui.bulk EXCEPT !.left = ui.bulk.op # "none"], !.acts = ui.acts + 1]
  /\ srv' = [srv EXCEPT !.ticked = {}, !.refused = {}]

\* A page is left once the requests of its rows have been answered.
OpenDetail(id)  == OnList /\ Acting /\ ui.requests = {} /\ id \in Listed("combo") /\ Leaves("detail", id)
BackToTrash     == OnDetail /\ Acting /\ ui.requests = {} /\ Leaves("list", ui.id)
DetailFetched   == OnDetail /\ ui.known # srv.rows[<<"combo", ui.id>>]
                            /\ Sets([ui EXCEPT !.known = srv.rows[<<"combo", ui.id>>]])

-----------------------------------------------------------------------------
\* The list has been read; a combo that is in use is live, and linked to a setup.  Which combo that
\* is makes no difference, which setup does: it may have the same id.
Init ==
  \E links \in SUBSET ({CHOOSE id \in Ids : TRUE} \X Ids), inUse \in BOOLEAN :
    /\ Cardinality(links) <= 1 /\ (inUse => links # {})
    /\ srv = [rows |-> [row \in Rows |-> IF inUse /\ row[1] = "combo" /\ \E l \in links : l[1] = row[2]
                                          THEN "live" ELSE "trash"],
              links |-> links, ticked |-> {}, agreed |-> {}, acted |-> {}, refused |-> {}, others |-> 0]
    /\ ui = [Fresh("list", CHOOSE id \in Ids : TRUE) EXCEPT !.fetch = {},
               !.seen = [k \in Kinds |-> {i \in Ids : CharacterOf[i] = Resolved /\ srv.rows[<<k, i>>] = "trash"}]]

Asked == IF On THEN ui.requests ELSE {}

Next ==
  \/ \E k \in Kinds : ListFetched(k) \/ (\E i \in Ids : HandleRowSelection(k, i))
                      \/ \E on \in BOOLEAN : HandleSelectAll(k, on)
  \/ \E c \in Characters : HandleCharacterChange(c)
  \/ HandleBulkRestore \/ AskBulkDelete \/ HandleBulkPermanentDelete
  \/ BulkGoesOn \/ BulkEnds \/ DismissResult \/ HandlePermanentDelete \/ CancelDialog
  \/ \E row \in Rows : \/ HandleRestore(row) \/ AskPermanentDelete(row) \/ OtherRestores(row)
                       \/ \E ok \in BOOLEAN : BulkAnswered(row, ok)
  \/ \E q \in Asked : RowAnswered(q) \/ RowRefused(q) \/ \E ok \in BOOLEAN : UnlinkAnswered(q, ok)
  \/ \E c \in Ids, s \in Ids : HandleUnlink(c, s)
  \/ BackToTrash \/ DetailFetched \/ \E id \in Ids : OpenDetail(id)

Spec == Init /\ [][Next]_vars

-----------------------------------------------------------------------------
(* Properties.                                                             *)

\* Only what the user ticked in its own table, or asked for in its own row, is restored or deleted:
\* the ids of the two tables overlap (TrashPage 31-37), the list changes while the requests run.
ActsOnlyOnAgreed == On => srv.acted \subseteq srv.agreed

\* A row of a bulk operation that was refused stays named until the user dismisses the result,
\* starts another one or leaves, although the selection is emptied (TrashBulkActions 211-220).
RefusedStaysNamed == On => srv.refused \subseteq (IF BarShown THEN ui.errors ELSE {})

\* A bulk operation does what was asked for and says what it did not do.
BulkActsAsAgreed == ActsOnlyOnAgreed /\ RefusedStaysNamed
=============================================================================
