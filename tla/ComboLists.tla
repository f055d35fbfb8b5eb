----------------------------- MODULE ComboLists -----------------------------
(***************************************************************************)
(* The lists of combos.  `section` is the part that is looked at:          *)
(*   filters  the conditions in the address, what the session keeps of     *)
(*            them, the character they are resolved to, and the settings;  *)
(*   export   what is selected and deleted in the lists, and the dialog    *)
(*            that writes it to files;                                     *)
(*   status   the state of training of a row, which is one of the combo's  *)
(*            tags and is written with all the others.                     *)
(***************************************************************************)
EXTENDS Page, SequencesExt

CONSTANTS
  Characters, \* the first one is the constant of the last resort
  MoveOf,     \* the move of a character
  Ids,        \* combos
  Statuses,   \* the tags that are states of training
  Listed,     \* the rows of an answer at most
  Rows,       \* the combos whose state of training is changed
  MaxActs,    \* bound: doings of the user
  MaxChanges, \* bound: changes of the state of training
  MaxOthers   \* bound: writes of the other tab

On == ui.page = "lists"

In(section) == On /\ ui.section = section /\ ui.acts < MaxActs
Does(u)     == [u EXCEPT !.acts = @ + 1]

-----------------------------------------------------------------------------
(* filters                                                                 *)

NoFilters == [character |-> None, starter |-> None, result |-> None, axis |-> None]

OnList == In("filters") /\ ui.screen = "list"

\* The address, or else the session, or else the settings, or else the first.
Resolved(address) ==
  IF address.character # None THEN The(address.character)
  ELSE IF srv.session.character # None THEN The(srv.session.character)
  ELSE IF srv.default # None THEN The(srv.default) ELSE Characters[1]

\* Every address of the list is kept by the session at once.
Kept(u, s, address) ==
  /\ ui'  = Does([u EXCEPT !.address = address])
  /\ srv' = [s EXCEPT !.session = address]

\* The starter is a move of the character and goes with it.
SetCharacter(c) ==
  /\ OnList /\ c # Resolved(ui.address)
  /\ Kept(ui, [srv EXCEPT !.declared = c], [ui.address EXCEPT !.character = Some(c), !.starter = None])

SetStarter == OnList /\ Kept(ui, srv, [ui.address EXCEPT !.starter = Some(MoveOf[Resolved(ui.address)])])

ClearResult(address) == [address EXCEPT !.result = None, !.axis = None]

SetResult(result) ==
  /\ OnList /\ result # ui.address.result
  /\ Kept(ui, srv, IF result = None THEN ClearResult(ui.address) ELSE [ui.address EXCEPT !.result = result])

SetAxis(axis) ==
  OnList /\ ui.address.result # None /\ axis # ui.address.axis /\ Kept(ui, srv, [ui.address EXCEPT !.axis = axis])

ActiveFilterKeys == {key \in {"starter", "result", "axis"} : ui.address[key] # None}

ClearFilters ==
  OnList /\ ActiveFilterKeys # {} /\ Kept(ui, srv, [NoFilters EXCEPT !.character = ui.address.character])

\* The list is opened without an address, and restores the one of the session.
OpenList ==
  /\ In("filters") /\ ui.screen # "list"
  /\ Kept([ui EXCEPT !.screen = "list"], srv, srv.session)

OpenSettings == OnList /\ Sets(Does([ui EXCEPT !.screen = "settings"]))

ClearSessionCharacter(session) == [session EXCEPT !.character = None]

SetDefault(c) ==
  /\ In("filters") /\ ui.screen = "settings"
  /\ ui'  = Does(ui)
  /\ srv' = [srv EXCEPT !.default = Some(c), !.declared = c, !.session = ClearSessionCharacter(@)]

-----------------------------------------------------------------------------
(* export: the rows.  The server answers the first rows and their number.  *)

Matches(tab) == {id \in srv.alive : tab = "all" \/ id \in srv.trained}

Answer(tab) ==
  LET all == Matches(tab)
  IN  [items |-> {id \in all : Cardinality({x \in all : x < id}) < Listed}, total |-> Cardinality(all)]

OnRows == In("export") /\ ui.data # None /\ ui.dialog = "none"
Data   == The(ui.data)

FetchRows == On /\ ui.section = "export" /\ ui.fetch /\ Sets([ui EXCEPT !.fetch = FALSE, !.data = Some(Answer(ui.tab))])

\* All combos, or the tab of my combos, which clears the selection.
SetTab(tab) ==
  OnRows /\ tab # ui.tab /\ Sets(Does([ui EXCEPT !.tab = tab, !.data = None, !.fetch = TRUE, !.selected = {}]))

EnterSelectMode == OnRows /\ ~ui.selecting /\ Sets(Does([ui EXCEPT !.selecting = TRUE]))
ExitSelectMode  == OnRows /\ ui.selecting /\ Sets(Does([ui EXCEPT !.selecting = FALSE, !.selected = {}]))

ToggleSelect(id) ==
  /\ OnRows /\ ui.selecting /\ id \in Data.items
  /\ Sets(Does([ui EXCEPT !.selected = IF id \in @ THEN @ \ {id} ELSE @ \union {id}]))

\* The row is deleted, and read again; what was selected stays so.
ConfirmDelete(id) ==
  /\ OnRows /\ id \in Data.items \intersect srv.alive
  /\ ui'  = Does([ui EXCEPT !.fetch = TRUE])
  /\ srv' = [srv EXCEPT !.alive = @ \ {id}]

-----------------------------------------------------------------------------
(* export: the dialog.  `wanted` is the number of combos there are to      *)
(* export; `told` is that some of them will be left out.                   *)

NoRun == [ids |-> {}, left |-> {}, combos |-> None, failed |-> {}]

ExportIds == IF ui.selected # {} THEN ui.selected ELSE Data.items

ExportTotal == IF ui.selected # {} THEN Cardinality(ui.selected) ELSE Data.total

OpenExport ==
  /\ OnRows /\ ExportTotal # 0
  /\ Sets(Does([ui EXCEPT !.dialog = "open", !.formats = {"csv"}, !.files = {}, !.told = FALSE]))

ToggleFormat(format) ==
  /\ In("export") /\ ui.dialog = "open"
  /\ IF format = "clipboard" THEN ui.formats \subseteq {"clipboard"} ELSE "clipboard" \notin ui.formats
  /\ Sets(Does([ui EXCEPT !.formats = IF format \in @ THEN @ \ {format} ELSE @ \union {format}]))

IsTruncated == ExportTotal > Cardinality(ExportIds)

Runs(u) == [u EXCEPT !.dialog = "running",
                     !.wanted = IF u.selected # {} THEN Cardinality(u.selected) ELSE Data.total,
                     !.run = [ids |-> ExportIds, left |-> u.formats, combos |-> None, failed |-> {}]]

HandleRun ==
  /\ In("export") /\ ui.dialog \in {"open", "confirm"} /\ ui.formats # {} /\ ExportIds # {}
  /\ IF IsTruncated /\ ui.dialog = "open" THEN Sets(Does([ui EXCEPT !.dialog = "confirm", !.told = TRUE]))
     ELSE Sets(Does(Runs(ui)))

\* From the question back to the dialog; from the dialog out.
CancelExport ==
  In("export") /\ ui.dialog \in {"open", "confirm"} /\ Sets(Does([ui EXCEPT !.dialog = IF @ = "open" THEN "none" ELSE "open"]))

Running == On /\ ui.section = "export" /\ ui.dialog = "running"

\* The combos of the other formats are read together: one that is gone fails them all.
ReadCombos ==
  /\ Running /\ ui.run.combos = None
  /\ Sets([ui EXCEPT !.run.combos = Some(IF ui.run.left \ {"csv"} # {} /\ ui.run.ids \subseteq srv.alive
                                         THEN ui.run.ids ELSE {})])

Format == IF "csv" \in ui.run.left THEN "csv" ELSE CHOOSE f \in ui.run.left : TRUE

Fails(u) == [u EXCEPT !.run.left = @ \ {Format}, !.run.failed = @ \union {Format}]

\* A format at a time; the server's file fails with a combo that is gone, too.
Produce ==
  /\ Running /\ ui.run.combos # None /\ ui.run.left # {}
  /\ LET included == IF Format = "csv" THEN ui.run.ids \intersect srv.alive ELSE The(ui.run.combos)
     IN  Sets(IF included # ui.run.ids THEN Fails(ui)
              ELSE [ui EXCEPT !.run.left = @ \ {Format}, !.files = @ \union {[format |-> Format, ids |-> included]}])

ProduceFails == Running /\ ui.run.combos # None /\ ui.run.left # {} /\ Sets(Fails(ui))

\* Without a failure the dialog closes.
RunEnds ==
  /\ Running /\ ui.run.combos # None /\ ui.run.left = {}
  /\ Sets([ui EXCEPT !.dialog = IF ui.run.failed = {} THEN "none" ELSE "open", !.run = NoRun])

-----------------------------------------------------------------------------
(* status                                                                  *)

OnStatus == In("status") /\ ui.acts < MaxChanges

Row(id) == [tags |-> srv.combos[id].tags, version |-> srv.combos[id].version]

TagsLoaded  == On /\ ui.section = "status" /\ ~ui.loaded /\ Sets([ui EXCEPT !.loaded = TRUE])
RowsFetched == On /\ ui.section = "status" /\ ui.fetch /\ Sets([ui EXCEPT !.fetch = FALSE, !.rows = [id \in Rows |-> Row(id)]])

\* What is sent: the tags of the row as shown that are no states, and the new state.
ChangeStatus(id, status) ==
  /\ OnStatus /\ ui.loaded /\ ui.changing # Some(id)
  /\ Sets(Does([ui EXCEPT !.changing = Some(id),
                          !.requests = @ \union {[id |-> id, version |-> ui.rows[id].version, n |-> ui.acts,
                                                  tags |-> (ui.rows[id].tags \ Statuses) \union status]}]))

\* Mutant: the version is not compared.
AnyVersion(q) == TRUE

IsCurrent(q) == q.version = srv.combos[q.id].version

\* A conflict is not told; the next request's row is the one that is disabled.
StatusAnswered(q) ==
  /\ On
  /\ ui'  = [ui EXCEPT !.requests = @ \ {q}, !.changing = None, !.fetch = @ \/ IsCurrent(q)]
  /\ srv' = IF IsCurrent(q) THEN [srv EXCEPT !.combos[q.id] = [tags |-> q.tags, version |-> @.version + 1]] ELSE srv

\* The other tab gives and takes a tag that is no state; `tagged` are its doings.
OtherTags(id) ==
  /\ On /\ ui.section = "status" /\ srv.others < MaxOthers
  /\ Serves([srv EXCEPT !.others = @ + 1,
                        !.tagged = IF id \in @ THEN @ \ {id} ELSE @ \union {id},
                        !.combos[id] = [tags |-> IF id \in srv.tagged THEN @.tags \ {"tag"} ELSE @.tags \union {"tag"},
                                        version |-> @.version + 1]])

-----------------------------------------------------------------------------
Init ==
  \/ /\ ui = [page |-> "lists", section |-> "filters", screen |-> "list", address |-> NoFilters, acts |-> 0]
     /\ srv = [session |-> NoFilters, default |-> None, declared |-> Characters[1]]
  \/ /\ ui = [page |-> "lists", section |-> "export", tab |-> "all", data |-> None, fetch |-> TRUE,
              selecting |-> FALSE, selected |-> {}, dialog |-> "none", formats |-> {}, files |-> {},
              wanted |-> 0, told |-> FALSE, run |-> NoRun, acts |-> 0]
     /\ srv = [alive |-> Ids, trained |-> {id \in Ids : id > 1}]
  \/ /\ ui = [page |-> "lists", section |-> "status", loaded |-> FALSE, fetch |-> FALSE, changing |-> None,
              rows |-> [id \in Rows |-> [tags |-> {}, version |-> 1]], requests |-> {}, acts |-> 0]
     /\ srv = [combos |-> [id \in Rows |-> [tags |-> {}, version |-> 1]], tagged |-> {}, others |-> 0]

Next ==
  \/ \E c \in ToSet(Characters) : SetCharacter(c) \/ SetDefault(c)
  \/ SetStarter \/ ClearFilters \/ OpenList \/ OpenSettings
  \/ \E value \in {None, Some("ok")} : SetResult(value) \/ SetAxis(value)
  \/ FetchRows \/ EnterSelectMode \/ ExitSelectMode
  \/ \E tab \in {"all", "trained"} : SetTab(tab)
  \/ \E id \in Ids : ToggleSelect(id) \/ ConfirmDelete(id)
  \/ OpenExport \/ HandleRun \/ CancelExport \/ ReadCombos \/ Produce \/ ProduceFails \/ RunEnds
  \/ \E format \in {"csv", "pdf", "clipboard"} : ToggleFormat(format)
  \/ TagsLoaded \/ RowsFetched
  \/ \E id \in Rows : OtherTags(id)
  \/ \E id \in Rows, status \in {{}} \union {{s} : s \in Statuses} : ChangeStatus(id, status)
  \/ \E q \in (IF On /\ ui.section = "status" THEN ui.requests ELSE {}) : StatusAnswered(q)

-----------------------------------------------------------------------------
\* The list shows the character that was declared last, by its own selector
\* or as the default in the settings (useUpdateConfig.ts:15-24).
DeclaredIsShown ==
  On => (ui.section = "filters" /\ ui.screen = "list" => Resolved(ui.address) = srv.declared)

\* The axes of the result filter never apply without a result, so that no
\* filter is on that the user cannot see (ComboListFilters.tsx:235-238).
AxisNeedsResult ==
  On => (ui.section = "filters" => /\ ui.address.axis # None => ui.address.result # None
                                   /\ srv.session.axis # None => srv.session.result # None)

\* A file has as many combos as there were to export, or the user was told
\* (ComboListPage.tsx:153-156: the total and not the rows of the answer).
LeftOutIsTold ==
  On => (ui.section = "export" => \A file \in ui.files : ui.told \/ Cardinality(file.ids) = ui.wanted)

\* Changing the state of training from a stale row never takes a tag that
\* another tab gave, nor gives one back, and leaves at most one state
\* (useUpdateMyComboStatus.ts: the whole set of tags is written).
TagsOfOthersKept ==
  On => (ui.section = "status" => \A id \in Rows :
           /\ "tag" \in srv.combos[id].tags <=> id \in srv.tagged
           /\ Cardinality(srv.combos[id].tags \intersect Statuses) <= 1)

\* What a list is filtered by is seen, what it exports is complete or said to be cut, and what
\* it writes leaves alone what it does not show.
ListsAreHonest == DeclaredIsShown /\ AxisNeedsResult /\ LeftOutIsTold /\ TagsOfOthersKept

\* A starter that is set belongs to the character that is shown: with the
\* move of another one the list would be empty for no visible reason
\* (ComboListPage.tsx:208-211).
StarterOfCharacter ==
  On => (ui.section = "filters" /\ ui.screen = "list" /\ ui.address.starter # None =>
           The(ui.address.starter) = MoveOf[Resolved(ui.address)])
=============================================================================
